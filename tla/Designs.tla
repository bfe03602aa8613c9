-------------------------------- MODULE Designs --------------------------------
(***************************************************************************)
(* Definitions and designs: the handlers processDefine/deploy, redeploy,   *)
(* remove, upAndDown and processDesign/save, update, updateDefine, deploy, *)
(* redeploy, remove of facade/facade.go, over the two repositories.        *)
(*                                                                         *)
(* A request reads rows, decides, and then writes; every read and every    *)
(* write is a step of its own, so requests interleave.  In the memory      *)
(* repository a write is visible at once.  With the JDBC repository Flow   *)
(* runs the request in one transaction: reads see what others committed,   *)
(* and the writes become visible together.                                 *)
(*                                                                         *)
(* The content of a definition is abstract; all that is known of it is the *)
(* name it carries.                                                        *)
(*                                                                         *)
(* A definition F_Bug is F with the bug its name tells; the properties are *)
(* checked to fail with it.                                                *)
(***************************************************************************)
EXTENDS Naturals, Sequences, FiniteSets, Functions

CONSTANTS
  Client,      \* callers of Flow
  Content,     \* contents of definitions and designs
  NameOf,      \* the name a content carries
  Stores,      \* the repositories considered, a subset of {"memory", "jdbc"}
  Mixes,       \* sets of handlers: the callers use those of one of them
  MaxDefine, MaxDesign, MaxHis  \* bounds: rows ever inserted per table

ASSUME StoresAssumption == Stores \subseteq {"memory", "jdbc"}
ASSUME BoundsAssumption == MaxDefine \in Nat /\ MaxDesign \in Nat /\ MaxHis \in Nat

VARIABLES
  store,     \* the repository in use
  mix,       \* the handlers in use
  defines,   \* wf_process_define: id -> [name, content, version, state]
  designs,   \* wf_process_design: id -> [name, deployed]
  history,   \* wf_process_design_his: set of [id, design, content]
  uses,      \* the definitions that have an instance
  next,      \* the next id of each table
  job,       \* what each caller is doing
  published, \* history variable: contents ever written to a definition
  disorder   \* history variable: what unusual has happened, see Disorder

vars == <<store, mix, defines, designs, history, uses, next, job, published, disorder>>
tables == <<defines, designs, history, uses, next, published, disorder>>

Names == {NameOf[c] : c \in Content}

\* Reasons for which a property may not hold: a request wrote after another
\* had changed what it read; a redeploy moved a row to another name; a redeploy
\* of a removed definition brought it back.
Disorder == {"overtaken", "renamed", "revived"}

(***************************************************************************)
(* Reading                                                                 *)
(***************************************************************************)
Rows(n) == {i \in DOMAIN defines : defines[i].name = n}

\* memory.FindDefineByName: the row with the greatest id.
NewestById(n) == {i \in Rows(n) : \A j \in Rows(n) : j <= i}

\* jdbc.FindDefineByName: ORDER BY version DESC LIMIT 1; among equals any row.
NewestByVersion(n) ==
  {i \in Rows(n) : \A j \in Rows(n) : defines[j].version <= defines[i].version}

FindDefineByName(n) == IF store = "memory" THEN NewestById(n) ELSE NewestByVersion(n)

\* designListByType pairs a design with the greatest version of its name.
designListByType(d) == NewestByVersion(designs[d].name)

\* ListDesignHis: the newest snapshot first.
Snapshots(d) == {h \in history : h.design = d}
Latest(d) == CHOOSE h \in Snapshots(d) : \A g \in Snapshots(d) : g.id <= h.id

(***************************************************************************)
(* Writing.  A write is a record; Apply gives the tables after it.         *)
(***************************************************************************)
Tables == [defines |-> defines, designs |-> designs, history |-> history, uses |-> uses]

Put(f, i, r) == [j \in DOMAIN f \union {i} |-> IF j = i THEN r ELSE f[j]]

\* An UPDATE of a row that is gone changes nothing; the map of the memory
\* repository is written whether or not the key is there.
Overwrite(f, i, r) == IF i \in DOMAIN f \/ store = "memory" THEN Put(f, i, r) ELSE f

SaveDefine(t, w) ==
  LET r == IF store = "jdbc" /\ w.row.version = 0 THEN [w.row EXCEPT !.version = 1] ELSE w.row
  IN  [t EXCEPT !.defines = Put(@, w.id, r)]
UpdateDefine(t, w) == [t EXCEPT !.defines = Overwrite(@, w.id, w.row)]
UpdateDefineState(t, w) ==
  IF w.id \in DOMAIN t.defines THEN [t EXCEPT !.defines[w.id].state = w.state] ELSE t
RemoveDefine(t, w) == [t EXCEPT !.defines = Restrict(@, DOMAIN @ \ {w.id})]
SaveInstance(t, w) == [t EXCEPT !.uses = @ \union {w.id}]
SaveDesign(t, w) == [t EXCEPT !.designs = Put(@, w.id, w.row)]
UpdateDesign(t, w) == [t EXCEPT !.designs = Overwrite(@, w.id, w.row)]
SaveDesignHis(t, w) ==
  [t EXCEPT !.history = @ \union {[id |-> w.id, design |-> w.design, content |-> w.content]}]
RemoveDesign(t, w) ==
  [t EXCEPT !.designs = Restrict(@, DOMAIN @ \ {w.id}),
            !.history = {h \in @ : h.design # w.id}]

Apply(t, w) ==
  CASE w.kind = "SaveDefine" -> SaveDefine(t, w)
    [] w.kind = "UpdateDefine" -> UpdateDefine(t, w)
    [] w.kind = "UpdateDefineState" -> UpdateDefineState(t, w)
    [] w.kind = "RemoveDefine" -> RemoveDefine(t, w)
    [] w.kind = "SaveInstance" -> SaveInstance(t, w)
    [] w.kind = "SaveDesign" -> SaveDesign(t, w)
    [] w.kind = "UpdateDesign" -> UpdateDesign(t, w)
    [] w.kind = "SaveDesignHis" -> SaveDesignHis(t, w)
    [] w.kind = "RemoveDesign" -> RemoveDesign(t, w)

(***************************************************************************)
(* What a read depends on and what a write changes.                        *)
(***************************************************************************)
NameRow(n) == <<"name", n>>
Row(table, i) == <<table, i>>

Changes(w) ==
  CASE w.kind \in {"SaveDefine", "UpdateDefine"} ->
         {Row("define", w.id), NameRow(w.row.name)}
           \union {NameRow(defines[i].name) : i \in DOMAIN defines \intersect {w.id}}
    [] w.kind \in {"UpdateDefineState", "RemoveDefine"} ->
         {Row("define", w.id)} \union {NameRow(defines[i].name) : i \in DOMAIN defines \intersect {w.id}}
    [] w.kind = "SaveInstance" -> {Row("uses", w.id)}
    [] w.kind \in {"SaveDesign", "UpdateDesign"} -> {Row("design", w.id)}
    [] w.kind = "SaveDesignHis" -> {Row("his", w.design)}
    [] w.kind = "RemoveDesign" -> {Row("design", w.id), Row("his", w.id)}

Unusual(c, w) ==
  {"overtaken" : x \in {y \in {c} : job[c].overtaken}}
    \union {"renamed" : i \in {j \in DOMAIN defines \intersect {w.id} :
                                 w.kind = "UpdateDefine" /\ defines[j].name # w.row.name}}
    \union {"revived" : x \in {y \in {c} : w.kind = "UpdateDefine" /\ w.id \notin DOMAIN defines}}

(***************************************************************************)
(* Requests                                                                *)
(***************************************************************************)
\* pc is the next step: a read ("design", "his", "name", "define", "uses"),
\* "number" (ids are drawn), "write" or "idle".
Idle == [op |-> "-", pc |-> "idle", id |-> 0, arg |-> "-", ids |-> <<>>,
         row |-> [name |-> "-", deployed |-> 0], content |-> "-", plan |-> <<>>, read |-> {}, overtaken |-> FALSE]

Request(op, pc, id, arg) == [Idle EXCEPT !.op = op, !.pc = pc, !.id = id, !.arg = arg]

\* While a transaction is being committed nobody sees a part of it.
Quiet(c) == store = "jdbc" => \A d \in Client \ {c} : job[d].pc # "write"

At(c, pc) == job[c].pc = pc /\ Quiet(c)

\* The first write comes after the ids are drawn; a transaction draws all its
\* ids before it commits, the memory repository draws an id as it inserts.
Planning(j, writes) ==
  [Idle EXCEPT !.op = j.op, !.read = j.read, !.overtaken = j.overtaken,
               !.plan = writes, !.pc = IF store = "jdbc" THEN "number" ELSE "write"]

\* A request that ends with an error has written nothing.
Fail(c) == job' = [job EXCEPT ![c] = Idle] /\ UNCHANGED <<store, mix, tables>>

Proceed(c, j, objects) ==
  /\ job' = [job EXCEPT ![c] = [j EXCEPT !.read = @ \union objects]]
  /\ UNCHANGED <<store, mix, tables>>

Define(content, version, state) ==
  [name |-> NameOf[content], content |-> content, version |-> version, state |-> state]
RowWrite(kind, id, row) == [kind |-> kind, id |-> id, row |-> row]

\* deploy: the version after that of row i.
NextVersion_Same(i) == defines[i].version
NextVersion(i) == defines[i].version + 1

\* A redeployment keeps version and state of the row it writes into.
Replacement_InService(content, i) == Define(content, defines[i].version, 1)
Replacement(content, i) == Define(content, defines[i].version, defines[i].state)

\* designSave: a new content takes the mark off the design.
Saved_KeepsMark(design, content) == design
Saved(design, content) == IF content = "-" THEN design ELSE [design EXCEPT !.deployed = 0]

\* removeDefine has more of its batch to ask about.
MoreToAsk_Never(j) == FALSE
MoreToAsk(j) == j.id < Len(j.ids)
Snapshot(design, content) ==
  [kind |-> "SaveDesignHis", id |-> 0, design |-> design, content |-> content]

Busy == {c \in Client : job[c].pc # "idle"}
Room(table, bound) == next[table] + Cardinality(Busy) <= bound

\* The ids a caller may name: all that ever existed.
Seen(table) == 1 .. next[table] - 1
Batches(table) == {<<i>> : i \in Seen(table)} \union {<<i, i + 1>> : i \in 1 .. next[table] - 2}

(* ---- the first step of each handler: its arguments --------------------- *)
Enter(c, op, r) ==
  /\ job[c].pc = "idle" /\ op \in mix /\ Quiet(c)
  /\ job' = [job EXCEPT ![c] = r]
  /\ UNCHANGED <<store, mix, tables>>

deploy(c) == \E k \in Content : Room("define", MaxDefine)
  /\ Enter(c, "deploy", [Request("deploy", "name", 0, "-") EXCEPT !.content = k])
redeploy(c) == \E i \in Seen("define"), k \in Content :
  Enter(c, "redeploy", [Request("redeploy", "define", i, "-") EXCEPT !.content = k])
removeDefine(c) == \E b \in Batches("define") :
  Enter(c, "removeDefine", [Request("removeDefine", "uses", 1, "-") EXCEPT !.ids = b])
upAndDown(c) == \E b \in Batches("define"), s \in {0, 1} :
  Enter(c, "upAndDown",
        Planning([Request("upAndDown", "write", 0, "-") EXCEPT !.ids = b],
                 [k \in DOMAIN b |-> [kind |-> "UpdateDefineState", id |-> b[k], state |-> s]]))
startAndExecute(c) == \E i \in Seen("define") :
  Enter(c, "startAndExecute", Request("startAndExecute", "define", i, "-"))

\* designSave without an id inserts, with an id it updates; a content is optional.
designSaveNew(c) == \E n \in Names, k \in Content \union {"-"} :
  /\ Room("design", MaxDesign) /\ Room("his", MaxHis)
  /\ Enter(c, "designSave",
           Planning([Request("designSave", "write", 0, n) EXCEPT !.content = k],
                    <<RowWrite("SaveDesign", 0, [name |-> n, deployed |-> 0])>>
                      \o (IF k = "-" THEN <<>> ELSE <<Snapshot(0, k)>>)))
designSave(c) == \E d \in Seen("design"), k \in Content \union {"-"} : Room("his", MaxHis)
  /\ Enter(c, "designSave", [Request("designSave", "design", d, "-") EXCEPT !.content = k])
designUpdate(c) == \E d \in Seen("design"), n \in Names \union {"-"} :
  Enter(c, "designUpdate", Request("designUpdate", "design", d, n))
designUpdateDefine(c) == \E d \in Seen("design"), k \in Content : Room("his", MaxHis)
  /\ Enter(c, "designUpdateDefine",
           [Request("designUpdateDefine", "design", d, "-") EXCEPT !.content = k])
designDeploy(c) == \E d \in Seen("design") : Room("define", MaxDefine)
  /\ Enter(c, "designDeploy", Request("designDeploy", "design", d, "-"))
designRedeploy(c) == \E d \in Seen("design") : Room("define", MaxDefine)
  /\ Enter(c, "designRedeploy", Request("designRedeploy", "design", d, "-"))
designRemove(c) == \E b \in Batches("design") :
  Enter(c, "designRemove",
        Planning([Request("designRemove", "write", 0, "-") EXCEPT !.ids = b],
                 [k \in DOMAIN b |-> [kind |-> "RemoveDesign", id |-> b[k]]]))

(* ---- the reads --------------------------------------------------------- *)
FindDesign(c) ==
  LET j == job[c]
      found == designs[j.id]
      on == [j EXCEPT !.row = found]
      snapshot == IF j.content = "-" THEN <<>> ELSE <<Snapshot(j.id, j.content)>>
      objects == {Row("design", j.id)}
  IN
  /\ At(c, "design")
  /\ IF j.id \notin DOMAIN designs THEN Fail(c)
     ELSE CASE j.op = "designSave" ->
                 Proceed(c, Planning(on,
                   <<RowWrite("UpdateDesign", j.id, Saved(found, j.content))>> \o snapshot), objects)
            [] j.op = "designUpdate" ->
                 Proceed(c, Planning(on,
                   <<RowWrite("UpdateDesign", j.id,
                              IF j.arg = "-" THEN found ELSE [found EXCEPT !.name = j.arg])>>), objects)
            [] OTHER -> Proceed(c, [on EXCEPT !.pc = "his"], objects)

ListDesignHis(c) ==
  LET j == job[c]
      known == Snapshots(j.id) # {}
      new == IF known /\ Latest(j.id).content = j.content THEN <<>> ELSE <<Snapshot(j.id, j.content)>>
      objects == {Row("his", j.id)}
  IN
  /\ At(c, "his")
  /\ CASE j.op = "designUpdateDefine" ->
            Proceed(c, Planning(j, new \o
              <<RowWrite("UpdateDesign", j.id, [name |-> NameOf[j.content], deployed |-> 0])>>), objects)
       [] j.op # "designUpdateDefine" /\ ~known -> Fail(c)
       [] OTHER -> Proceed(c, [j EXCEPT !.pc = "name", !.content = Latest(j.id).content], objects)

\* The last write of a publication: the design as it was read, now deployed.
MarkDeployed(j) ==
  IF j.op = "deploy" THEN <<>>
  ELSE <<RowWrite("UpdateDesign", j.id, [j.row EXCEPT !.deployed = 1])>>

\* deploy numbers the new row after the newest of its name; designRedeploy
\* writes into the newest row and keeps its version and state.  Without such
\* a row it falls back on deploy, which looks a second time.
FindName(c) ==
  LET j == job[c]
      n == NameOf[j.content]
      newest == FindDefineByName(n)
      objects == {NameRow(n)}
      replace(i) == <<RowWrite("UpdateDefine", i, Replacement(j.content, i))>>
      add(v) == <<RowWrite("SaveDefine", 0, Define(j.content, v, 1))>>
  IN
  /\ At(c, "name")
  /\ \/ /\ newest = {} /\ j.op = "designRedeploy" /\ j.arg # "deploy"
        /\ Proceed(c, [j EXCEPT !.arg = "deploy"], objects)
     \/ /\ newest = {} /\ ~(j.op = "designRedeploy" /\ j.arg # "deploy")
        /\ Proceed(c, Planning(j, add(0) \o MarkDeployed(j)), objects)
     \/ \E i \in newest :
          Proceed(c, Planning(j, (IF j.op = "designRedeploy" /\ j.arg # "deploy"
                                  THEN replace(i) ELSE add(NextVersion(i)))
                                 \o MarkDeployed(j)), objects)

\* redeploy takes state and version of the row, if there is one; a start fails
\* without a definition.
FindDefine(c) ==
  LET j == job[c]
      known == j.id \in DOMAIN defines
      objects == {Row("define", j.id)}
  IN
  /\ At(c, "define")
  /\ CASE j.op = "redeploy" ->
            Proceed(c, Planning(j, <<RowWrite("UpdateDefine", j.id,
              IF known THEN Replacement(j.content, j.id)
              ELSE Define(j.content, 0, 0))>>), objects)
       [] j.op # "redeploy" /\ ~known -> Fail(c)
       [] OTHER -> Proceed(c, Planning(j, <<[kind |-> "SaveInstance", id |-> j.id]>>), objects)

\* removeDefine asks about every definition of the batch before it removes one;
\* id counts the members asked about.
HasInstancesByDefineID(c) ==
  LET j == job[c]
      objects == {Row("uses", j.ids[j.id])}
  IN
  /\ At(c, "uses")
  /\ CASE j.ids[j.id] \in uses -> Fail(c)
       [] j.ids[j.id] \notin uses /\ MoreToAsk(j) -> Proceed(c, [j EXCEPT !.id = @ + 1], objects)
       [] OTHER -> Proceed(c, Planning(j, [k \in DOMAIN j.ids |->
                                             [kind |-> "RemoveDefine", id |-> j.ids[k]]]), objects)

(* ---- the writes -------------------------------------------------------- *)
TableOf(w) ==
  CASE w.kind = "SaveDefine" -> "define"
    [] w.kind = "SaveDesign" -> "design"
    [] w.kind = "SaveDesignHis" -> "his"
    [] OTHER -> "-"

\* An insert gets the next id of its table; the snapshot of a new design names it.
Numbered(w) ==
  IF w.id # 0 \/ TableOf(w) = "-" THEN w
  ELSE IF TableOf(w) = "his" /\ w.design = 0
       THEN [w EXCEPT !.id = next["his"], !.design = next["design"]]
       ELSE [w EXCEPT !.id = next[TableOf(w)]]
Drawn(writes) == {TableOf(writes[k]) : k \in {l \in DOMAIN writes : writes[l].id = 0}}
Advance(drawn) == [t \in DOMAIN next |-> IF t \in drawn THEN next[t] + 1 ELSE next[t]]

\* The transaction draws its ids while its inserts are still its own.
DrawIds(c) ==
  LET j == job[c] IN
  /\ At(c, "number")
  /\ job' = [job EXCEPT ![c].pc = "write", ![c].plan = [k \in DOMAIN j.plan |-> Numbered(j.plan[k])]]
  /\ next' = Advance(Drawn(j.plan))
  /\ UNCHANGED <<store, mix, defines, designs, history, uses, published, disorder>>

\* The next write of the plan; the other requests that read what it changes
\* are overtaken.
WriteNext(c) ==
  LET j == job[c]
      w == Numbered(Head(j.plan))
      rest == [k \in DOMAIN Tail(j.plan) |->
                 IF w.kind = "SaveDesign" /\ TableOf(Tail(j.plan)[k]) = "his"
                 THEN [Tail(j.plan)[k] EXCEPT !.design = w.id] ELSE Tail(j.plan)[k]]
      t == Apply(Tables, w)
      objects == Changes(w)
  IN
  /\ At(c, "write")
  /\ defines' = t.defines /\ designs' = t.designs /\ history' = t.history /\ uses' = t.uses
  /\ next' = Advance(Drawn(<<Head(j.plan)>>))
  /\ published' = published \union {defines'[i].content : i \in DOMAIN defines'}
  /\ disorder' = disorder \union Unusual(c, w)
  /\ job' = [d \in Client |->
       IF d = c THEN IF rest = <<>> THEN Idle ELSE [j EXCEPT !.plan = rest, !.read = @ \union objects]
       ELSE [job[d] EXCEPT !.overtaken = @ \/ job[d].read \intersect objects # {}]]
  /\ UNCHANGED <<store, mix>>

(***************************************************************************)
(* The system                                                              *)
(***************************************************************************)
Nothing == [i \in {} |-> 0]

Init ==
  /\ store \in Stores /\ mix \in Mixes
  /\ defines = Nothing /\ designs = Nothing /\ history = {} /\ uses = {}
  /\ next = [define |-> 1, design |-> 1, his |-> 1]
  /\ job = [c \in Client |-> Idle]
  /\ published = {} /\ disorder = {}

Next == \E c \in Client :
  \/ deploy(c) \/ redeploy(c) \/ removeDefine(c) \/ upAndDown(c) \/ startAndExecute(c)
  \/ designSaveNew(c) \/ designSave(c) \/ designUpdate(c) \/ designUpdateDefine(c)
  \/ designDeploy(c) \/ designRedeploy(c) \/ designRemove(c)
  \/ FindDesign(c) \/ ListDesignHis(c) \/ FindName(c) \/ FindDefine(c)
  \/ HasInstancesByDefineID(c) \/ DrawIds(c) \/ WriteNext(c)

Spec == Init /\ [][Next]_vars

(***************************************************************************)
(* Properties                                                              *)
(***************************************************************************)
\* A design that says it is deployed has a content, and its newest snapshot was
\* published: a save, an update or a removal between reading the snapshots and
\* marking the design must not leave the mark on something nobody published
\* (facade.go designSave, designUpdateDefine: "content changed, not deployed").
\* Only a request that was overtaken on what it had read can break this; the
\* mark may lag behind while a request that writes the design has not finished.
Unwritten(d) ==
  \E c \in Client : \E k \in DOMAIN job[c].plan :
    job[c].pc = "write" /\ job[c].plan[k].kind = "UpdateDesign" /\ job[c].plan[k].id = d
DeployedIsPublished ==
  "overtaken" \notin disorder =>
    \A d \in DOMAIN designs : designs[d].deployed = 1 =>
      \/ Snapshots(d) # {} /\ Latest(d).content \in published
      \/ Unwritten(d)

\* The step is a write of this request.
Writing(c) == job[c].pc = "write" /\ job'[c].plan # job[c].plan

\* An instance never loses its definition: a request that was not overtaken
\* neither takes the definition of an instance away nor starts an instance
\* without one, and removeDefine has found every definition it has still to
\* remove unused, so in a batch with one in use it removes none.  A request
\* overtaken on what it had read can (a start beside a removal); what is
\* exempt is its own write, not what the others do after it.
UsedIsKept ==
  [][\A c \in Client : Writing(c) /\ ~job[c].overtaken =>
       /\ uses' \ DOMAIN defines' \subseteq uses \ DOMAIN defines
       /\ job[c].op = "removeDefine" => \A k \in DOMAIN job[c].plan : job[c].plan[k].id \notin uses]_vars

\* The row with the greatest id of a name is the one row with the greatest
\* version, so deploy, getLastByName, designRedeploy and designListByType mean
\* the same row over both repositories, which look for it in different ways.
LatestAgrees ==
  disorder = {} =>
    /\ \A n \in Names : NewestById(n) = NewestByVersion(n) /\ Cardinality(NewestByVersion(n)) <= 1
    /\ \A d \in DOMAIN designs : designListByType(d) = FindDefineByName(designs[d].name)

\* Only upAndDown takes a definition into and out of service.  A redeployment
\* of a disabled definition leaves it disabled, whatever other requests did
\* before and between, unless the row was changed after this redeployment had
\* read it: then it was overtaken, and writes the state it had read.
StateByUpAndDown ==
  [][\A i \in DOMAIN defines \intersect DOMAIN defines' :
       defines[i].state # defines'[i].state =>
         \E c \in Client : Writing(c) /\ (job[c].op = "upAndDown" \/ job[c].overtaken)]_vars
=============================================================================

----------------------------- MODULE DesignsProofs -----------------------------
(***************************************************************************)
(* The invariants of Designs for any number of callers, over both          *)
(* repositories and without the bounds of a run.                           *)
(*                                                                         *)
(* The argument: what a request has read is still so when it writes,       *)
(* unless it is marked as overtaken.  There are two invariants.  IInv      *)
(* holds until a marked request writes, and gives MarkIsEarned and         *)
(* NewestIsOne.  AlwaysInv, at the end, holds whatever was overtaken: it   *)
(* says less of the tables and of marked requests, and all that            *)
(* DefinitionKept and StateSwitched need of the others.                    *)
(***************************************************************************)
EXTENDS Designs, WellFoundedInduction, FiniteSetTheorems, TLAPS

-----------------------------------------------------------------------------
(* What the requests rely on.  A request j, the repository s and the tables *)
(* t are parameters, so that they can be those of the next state.           *)

Now == [defines |-> defines, designs |-> designs, history |-> history, uses |-> uses,
        next |-> next, published |-> published, disorder |-> disorder]

Named(t, n) == {i \in DOMAIN t.defines : t.defines[i].name = n}
Shots(t, d) == {h \in t.history : h.design = d}
LastShot(t, d) == CHOOSE h \in Shots(t, d) : \A g \in Shots(t, d) : g.id <= h.id

\* A request has the fields of a request.
Shaped(j) ==
  /\ j = [op |-> j.op, pc |-> j.pc, id |-> j.id, arg |-> j.arg, ids |-> j.ids, row |-> j.row,
          content |-> j.content, plan |-> j.plan, read |-> j.read, overtaken |-> j.overtaken]
  /\ j.overtaken \in BOOLEAN

\* Rows of the two tables, and writes of rows and of snapshots.
IsDefine(r) ==
  /\ r = [name |-> r.name, content |-> r.content, version |-> r.version, state |-> r.state]
  /\ r.version \in Nat
IsDesign(r) == r = [name |-> r.name, deployed |-> r.deployed] /\ r.deployed \in {0, 1}
WritesRow(w) == w = RowWrite(w.kind, w.id, w.row)
WritesShot(w) == w = [kind |-> "SaveDesignHis", id |-> w.id, design |-> w.design, content |-> w.content]

\* The ids of inserts: those of a transaction are drawn before it commits.
Drawing(j, s) == s = "jdbc" /\ j.pc = "write"
NewId(j, s, t, table, id, used) ==
  IF Drawing(j, s) THEN id \in Nat \ {0} /\ id < t.next[table] /\ \A i \in used : i < id
  ELSE id = 0

(* ---- each write -------------------------------------------------------- *)
AddsDefine(j, w, s, t) ==
  /\ w.kind = "SaveDefine" /\ WritesRow(w) /\ IsDefine(w.row)
  /\ NewId(j, s, t, "define", w.id, DOMAIN t.defines)
  /\ NameRow(w.row.name) \in j.read
  /\ t.disorder = {} => \A i \in Named(t, w.row.name) : t.defines[i].version < w.row.version
ReplacesDefine(j, w, t) ==
  /\ w.kind = "UpdateDefine" /\ WritesRow(w) /\ IsDefine(w.row)
  /\ w.id \in Nat \ {0} /\ w.id < t.next["define"]
  /\ \/ Row("define", w.id) \in j.read
     \/ w.id \in DOMAIN t.defines /\ NameRow(t.defines[w.id].name) \in j.read
  /\ w.id \in DOMAIN t.defines =>
       w.row.version = t.defines[w.id].version /\ w.row.state = t.defines[w.id].state
SwitchesDefine(j, w) == w.kind = "UpdateDefineState" /\ w.id # 0 /\ j.op = "upAndDown"
RemovesDefine(j, w, t) ==
  w.kind = "RemoveDefine" /\ w.id # 0 /\ Row("uses", w.id) \in j.read /\ w.id \notin t.uses
UsesDefine(j, w, t) ==
  w.kind = "SaveInstance" /\ w.id # 0 /\ Row("define", w.id) \in j.read /\ w.id \in DOMAIN t.defines

OnDesign(j, d, t) == Row("design", d) \in j.read /\ d \in DOMAIN t.designs
AddsDesign(j, w, s, t) ==
  /\ w.kind = "SaveDesign" /\ WritesRow(w) /\ IsDesign(w.row) /\ w.row.deployed = 0
  /\ NewId(j, s, t, "design", w.id, {})
RemovesDesign(w) == w.kind = "RemoveDesign" /\ w.id # 0
WritesDesign(w) == w.kind = "UpdateDesign" /\ w.id # 0 /\ WritesRow(w) /\ IsDesign(w.row)
Unmarks(w) == WritesDesign(w) /\ w.row.deployed = 0
Keeps(j, w, t) ==
  WritesDesign(w) /\ OnDesign(j, w.id, t) /\ w.row.deployed = t.designs[w.id].deployed
Shows(j, d, content, t) ==
  Row("his", d) \in j.read /\ Shots(t, d) # {} /\ LastShot(t, d).content = content
Marks(j, w, content, t) ==
  WritesDesign(w) /\ OnDesign(j, w.id, t) /\ w.row.deployed = 1 /\ Shows(j, w.id, content, t)
AddsShot(j, w, s, t) ==
  /\ w.kind = "SaveDesignHis" /\ WritesShot(w) /\ w.design # 0
  /\ NewId(j, s, t, "his", w.id, {h.id : h \in t.history})
Unmarked(j, d, t) ==
  Row("design", d) \in j.read /\ (d \in DOMAIN t.designs => t.designs[d].deployed = 0)

(* ---- one write is left, or two ----------------------------------------- *)
Last(j, w, s, t) ==
  \/ AddsDefine(j, w, s, t) \/ ReplacesDefine(j, w, t) \/ SwitchesDefine(j, w)
  \/ RemovesDefine(j, w, t) \/ UsesDefine(j, w, t)
  \/ AddsDesign(j, w, s, t) \/ RemovesDesign(w) \/ Unmarks(w) \/ Keeps(j, w, t)
  \/ Marks(j, w, LastShot(t, w.id).content, t) /\ LastShot(t, w.id).content \in t.published
  \/ AddsShot(j, w, s, t) /\ Unmarked(j, w.design, t)

\* The snapshot of a new design names it once its id is known.
FirstShot(j, v, w, s, t) ==
  /\ w.kind = "SaveDesignHis" /\ WritesShot(w)
  /\ w.design = v.id /\ NewId(j, s, t, "his", w.id, {h.id : h \in t.history})

Pair(j, v, w, s, t) ==
  \/ AddsDefine(j, v, s, t) /\ Marks(j, w, v.row.content, t)
  \/ ReplacesDefine(j, v, t) /\ v.id \in DOMAIN t.defines /\ Marks(j, w, v.row.content, t)
  \/ SwitchesDefine(j, v) /\ SwitchesDefine(j, w)
  \/ RemovesDefine(j, v, t) /\ RemovesDefine(j, w, t)
  \/ RemovesDesign(v) /\ RemovesDesign(w)
  \/ AddsDesign(j, v, s, t) /\ FirstShot(j, v, w, s, t)
  \/ Unmarks(v) /\ AddsShot(j, w, s, t) /\ w.design = v.id
  \/ AddsShot(j, v, s, t) /\ Unmarks(w) /\ v.design = w.id

Planned(j, s, t) ==
  \/ /\ Len(j.plan) = 1 /\ j.plan = <<j.plan[1]>>
     /\ Last(j, j.plan[1], s, t)
  \/ /\ Len(j.plan) = 2 /\ j.plan = <<j.plan[1], j.plan[2]>>
     /\ Pair(j, j.plan[1], j.plan[2], s, t)

(* ---- before the writes ------------------------------------------------- *)
Asked(j, i, t) == Row("uses", i) \in j.read /\ i \notin t.uses
Asking(j, t) ==
  /\ \A k \in DOMAIN j.ids : j.ids[k] # 0
  /\ \/ Len(j.ids) = 1 /\ j.ids = <<j.ids[1]>> /\ j.id = 1
     \/ /\ Len(j.ids) = 2 /\ j.ids = <<j.ids[1], j.ids[2]>>
        /\ j.id = 1 \/ (j.id = 2 /\ Asked(j, j.ids[1], t))

Reading(j, t) ==
  /\ j.pc = "define" => j.id \in Nat \ {0} /\ j.id < t.next["define"]
  /\ j.pc = "uses" => Asking(j, t)
  /\ j.pc \in {"design", "his"} => j.id # 0
  /\ j.pc = "his" => OnDesign(j, j.id, t) /\ j.row = t.designs[j.id]
  /\ j.pc = "name" /\ j.op # "deploy" =>
       /\ j.id # 0 /\ OnDesign(j, j.id, t) /\ j.row = t.designs[j.id]
       /\ Shows(j, j.id, j.content, t)

Steps == {"idle", "design", "his", "name", "define", "uses", "number", "write"}
Relies(j, s, t) ==
  /\ j.pc \in Steps /\ Reading(j, t)
  /\ j.pc = "number" => s = "jdbc"
  /\ j.pc \in {"number", "write"} => Planned(j, s, t)
JobOK(j, s, t) == Shaped(j) /\ (~j.overtaken => Relies(j, s, t))

-----------------------------------------------------------------------------
(* The inductive invariant. *)

Tabled(f) == f = [i \in DOMAIN f |-> f[i]]

DefinesOK ==
  /\ Tabled(defines)
  /\ \A i \in DOMAIN defines : i \in Nat \ {0} /\ i < next["define"] /\ IsDefine(defines[i])
DesignsOK == Tabled(designs) /\ \A d \in DOMAIN designs : IsDesign(designs[d])
HistoryOK == \A h \in history : h.id \in Nat /\ h.id < next["his"]
NextOK == next \in [{"define", "design", "his"} -> Nat \ {0}]

\* Later rows of a name have later versions.
InOrder ==
  disorder = {} =>
    \A i, j \in DOMAIN defines :
      defines[i].name = defines[j].name /\ i < j => defines[i].version < defines[j].version

\* The mark of a design is justified, or a write that takes it off is under way.
Clearing(j, d) == j.pc = "write" /\ \E k \in DOMAIN j.plan : Unmarks(j.plan[k]) /\ j.plan[k].id = d
Justified(t, d) == Shots(t, d) # {} /\ LastShot(t, d).content \in t.published
MarksOK ==
  \A d \in DOMAIN designs : designs[d].deployed = 1 =>
    Justified(Now, d) \/ \E c \in Client : Clearing(job[c], d)

TablesOK ==
  /\ store \in {"memory", "jdbc"} /\ NextOK /\ DefinesOK /\ DesignsOK /\ HistoryOK
  /\ uses \subseteq DOMAIN defines /\ InOrder /\ MarksOK

\* One transaction at a time commits.
OneWriter ==
  store = "jdbc" => \A c, d \in Client : job[c].pc = "write" /\ job[d].pc = "write" => c = d

Inv ==
  /\ TablesOK
  /\ job = [c \in Client |-> job[c]] /\ \A c \in Client : JobOK(job[c], store, Now)
  /\ OneWriter

IInv == "overtaken" \in disorder \/ Inv

-----------------------------------------------------------------------------
(* A request relies on what it has read only. *)

SameDefines(j, t, u) ==
  /\ \A i : Row("define", i) \in j.read =>
       /\ i \in DOMAIN u.defines <=> i \in DOMAIN t.defines
       /\ i \in DOMAIN t.defines => u.defines[i] = t.defines[i]
  /\ \A n : NameRow(n) \in j.read =>
       Named(u, n) = Named(t, n) /\ \A i \in Named(t, n) : u.defines[i] = t.defines[i]
SameDesigns(j, t, u) ==
  /\ \A d : Row("design", d) \in j.read =>
       /\ d \in DOMAIN u.designs <=> d \in DOMAIN t.designs
       /\ d \in DOMAIN t.designs => u.designs[d] = t.designs[d]
  /\ \A d : Row("his", d) \in j.read => Shots(u, d) = Shots(t, d)
SameTo(j, t, u) ==
  /\ SameDefines(j, t, u) /\ SameDesigns(j, t, u)
  /\ \A i : Row("uses", i) \in j.read => (i \in u.uses <=> i \in t.uses)
  /\ t.next["define"] \in Nat /\ u.next["define"] \in Nat /\ t.next["define"] <= u.next["define"]
  /\ t.published \subseteq u.published /\ t.disorder \subseteq u.disorder

LEMMA DefineStays ==
  ASSUME NEW j, NEW w, NEW s, NEW t, NEW u, SameTo(j, t, u), ~Drawing(j, s)
  PROVE  /\ AddsDefine(j, w, s, t) => AddsDefine(j, w, s, u)
         /\ ReplacesDefine(j, w, t) =>
              ReplacesDefine(j, w, u) /\ (w.id \in DOMAIN t.defines => w.id \in DOMAIN u.defines)
         /\ RemovesDefine(j, w, t) => RemovesDefine(j, w, u)
         /\ UsesDefine(j, w, t) => UsesDefine(j, w, u)
  <1>1. AddsDefine(j, w, s, t) => AddsDefine(j, w, s, u)
    <2> SUFFICES ASSUME AddsDefine(j, w, s, t) PROVE AddsDefine(j, w, s, u)
      OBVIOUS
    <2>1. NewId(j, s, u, "define", w.id, DOMAIN u.defines)
      BY DEF AddsDefine, NewId
    <2>2. /\ Named(u, w.row.name) = Named(t, w.row.name)
          /\ \A i \in Named(t, w.row.name) : u.defines[i] = t.defines[i]
      BY DEF AddsDefine, SameTo, SameDefines
    <2>3. u.disorder = {} => t.disorder = {}
      BY DEF SameTo
    <2> QED
      BY <2>1, <2>2, <2>3 DEF AddsDefine
  <1>2. ReplacesDefine(j, w, t) =>
          ReplacesDefine(j, w, u) /\ (w.id \in DOMAIN t.defines => w.id \in DOMAIN u.defines)
    <2> SUFFICES ASSUME ReplacesDefine(j, w, t)
                 PROVE  ReplacesDefine(j, w, u) /\ (w.id \in DOMAIN t.defines => w.id \in DOMAIN u.defines)
      OBVIOUS
    <2>1. w.id < u.next["define"]
      BY DEF ReplacesDefine, SameTo
    <2>2. CASE Row("define", w.id) \in j.read
      BY <2>1, <2>2 DEF ReplacesDefine, SameTo, SameDefines
    <2>3. CASE w.id \in DOMAIN t.defines /\ NameRow(t.defines[w.id].name) \in j.read
      <3>1. w.id \in Named(t, t.defines[w.id].name)
        BY <2>3 DEF Named
      <3>2. w.id \in Named(u, t.defines[w.id].name) /\ u.defines[w.id] = t.defines[w.id]
        BY <2>3, <3>1 DEF SameTo, SameDefines
      <3>3. w.id \in DOMAIN u.defines
        BY <3>2 DEF Named
      <3> QED
        BY <2>1, <2>3, <3>2, <3>3 DEF ReplacesDefine
    <2> QED
      BY <2>2, <2>3 DEF ReplacesDefine
  <1>3. RemovesDefine(j, w, t) => RemovesDefine(j, w, u)
    BY DEF RemovesDefine, SameTo
  <1>4. UsesDefine(j, w, t) => UsesDefine(j, w, u)
    BY DEF UsesDefine, SameTo, SameDefines
  <1> QED
    BY <1>1, <1>2, <1>3, <1>4

LEMMA DesignStays ==
  ASSUME NEW j, NEW w, NEW s, NEW t, NEW u, SameTo(j, t, u), ~Drawing(j, s)
  PROVE  /\ AddsDesign(j, w, s, t) => AddsDesign(j, w, s, u)
         /\ Keeps(j, w, t) => Keeps(j, w, u)
         /\ AddsShot(j, w, s, t) => AddsShot(j, w, s, u)
         /\ Unmarked(j, w.design, t) => Unmarked(j, w.design, u)
         /\ \A v : FirstShot(j, v, w, s, t) => FirstShot(j, v, w, s, u)
  <1>1. AddsDesign(j, w, s, t) => AddsDesign(j, w, s, u)
    BY DEF AddsDesign, NewId
  <1>2. Keeps(j, w, t) => Keeps(j, w, u)
    BY DEF Keeps, OnDesign, SameTo, SameDesigns
  <1>3. AddsShot(j, w, s, t) => AddsShot(j, w, s, u)
    BY DEF AddsShot, NewId
  <1>4. Unmarked(j, w.design, t) => Unmarked(j, w.design, u)
    BY DEF Unmarked, SameTo, SameDesigns
  <1>5. \A v : FirstShot(j, v, w, s, t) => FirstShot(j, v, w, s, u)
    BY DEF FirstShot, NewId
  <1> QED
    BY <1>1, <1>2, <1>3, <1>4, <1>5

LEMMA ShowsStays ==
  ASSUME NEW j, NEW t, NEW u, SameTo(j, t, u), NEW d, NEW content
  PROVE  Shows(j, d, content, t) => Shows(j, d, content, u) /\ LastShot(u, d) = LastShot(t, d)
  <1> SUFFICES ASSUME Shows(j, d, content, t)
               PROVE  Shows(j, d, content, u) /\ LastShot(u, d) = LastShot(t, d)
    OBVIOUS
  <1>1. Shots(u, d) = Shots(t, d)
    BY DEF Shows, SameTo, SameDesigns
  <1> QED
    BY <1>1 DEF Shows, LastShot

LEMMA MarksStays ==
  ASSUME NEW j, NEW w, NEW t, NEW u, SameTo(j, t, u), NEW content, Marks(j, w, content, t)
  PROVE  Marks(j, w, content, u) /\ LastShot(u, w.id) = LastShot(t, w.id)
  <1>1. Shows(j, w.id, content, u) /\ LastShot(u, w.id) = LastShot(t, w.id)
    BY ShowsStays DEF Marks
  <1> QED
    BY <1>1 DEF Marks, OnDesign, SameTo, SameDesigns

LEMMA LastStays ==
  ASSUME NEW j, NEW w, NEW s, NEW t, NEW u, SameTo(j, t, u), ~Drawing(j, s), Last(j, w, s, t)
  PROVE  Last(j, w, s, u)
  <1>1. CASE Marks(j, w, LastShot(t, w.id).content, t) /\ LastShot(t, w.id).content \in t.published
    <2>1. Marks(j, w, LastShot(t, w.id).content, u) /\ LastShot(u, w.id) = LastShot(t, w.id)
      BY <1>1, MarksStays
    <2>2. LastShot(t, w.id).content \in u.published
      BY <1>1 DEF SameTo
    <2> QED
      BY <2>1, <2>2 DEF Last
  <1>2. CASE AddsShot(j, w, s, t) /\ Unmarked(j, w.design, t)
    BY <1>2, DesignStays DEF Last
  <1> QED
    BY <1>1, <1>2, DefineStays, DesignStays DEF Last

LEMMA PairStays ==
  ASSUME NEW j, NEW v, NEW w, NEW s, NEW t, NEW u, SameTo(j, t, u), ~Drawing(j, s), Pair(j, v, w, s, t)
  PROVE  Pair(j, v, w, s, u)
  <1>1. CASE AddsDefine(j, v, s, t) /\ Marks(j, w, v.row.content, t)
    BY <1>1, DefineStays, MarksStays DEF Pair
  <1>2. CASE ReplacesDefine(j, v, t) /\ v.id \in DOMAIN t.defines /\ Marks(j, w, v.row.content, t)
    BY <1>2, DefineStays, MarksStays DEF Pair
  <1>3. CASE RemovesDefine(j, v, t) /\ RemovesDefine(j, w, t)
    BY <1>3, DefineStays DEF Pair
  <1>4. CASE AddsDesign(j, v, s, t) /\ FirstShot(j, v, w, s, t)
    BY <1>4, DesignStays DEF Pair
  <1>5. CASE Unmarks(v) /\ AddsShot(j, w, s, t) /\ w.design = v.id
    BY <1>5, DesignStays DEF Pair
  <1>6. CASE AddsShot(j, v, s, t) /\ Unmarks(w) /\ v.design = w.id
    BY <1>6, DesignStays DEF Pair
  <1> QED
    BY <1>1, <1>2, <1>3, <1>4, <1>5, <1>6 DEF Pair

LEMMA ReliesStays ==
  ASSUME NEW j, NEW s, NEW t, NEW u, SameTo(j, t, u), ~Drawing(j, s), Relies(j, s, t)
  PROVE  Relies(j, s, u)
  <1>1. Planned(j, s, t) => Planned(j, s, u)
    BY LastStays, PairStays DEF Planned
  <1>2. Asking(j, t) => Asking(j, u)
    BY DEF Asking, Asked, SameTo
  <1>3. \A d : OnDesign(j, d, t) => OnDesign(j, d, u) /\ u.designs[d] = t.designs[d]
    BY DEF OnDesign, SameTo, SameDesigns
  <1>4. \A d, content : Shows(j, d, content, t) => Shows(j, d, content, u)
    BY ShowsStays
  <1>5. \A i : i \in Nat /\ i < t.next["define"] => i < u.next["define"]
    BY DEF SameTo
  <1>6. Reading(j, t) => Reading(j, u)
    BY <1>2, <1>3, <1>4, <1>5 DEF Reading
  <1> QED
    BY <1>1, <1>6 DEF Relies
-----------------------------------------------------------------------------
(* Sequences of one and of two. *)

LEMMA TwoLong ==
  ASSUME NEW S, NEW q \in Seq(S), Len(q) = 2
  PROVE  q = <<q[1], q[2]>>
  <1>1. DOMAIN q = {1, 2}
    OBVIOUS
  <1>2. q = [k \in {1, 2} |-> q[k]]
    BY <1>1
  <1>3. <<q[1], q[2]>> = [k \in {1, 2} |-> q[k]]
    OBVIOUS
  <1> QED
    BY <1>2, <1>3

LEMMA Joined ==
  ASSUME NEW a, NEW b
  PROVE  <<a>> \o <<b>> = <<a, b>> /\ <<a>> \o <<>> = <<a>> /\ <<>> \o <<a>> = <<a>>
  <1>1. <<a>> \in Seq({a, b}) /\ <<b>> \in Seq({a, b})
    OBVIOUS
  <1>2. PICK q : q = <<a>> \o <<b>>
    OBVIOUS
  <1>3. q \in Seq({a, b}) /\ Len(q) = 2 /\ q[1] = a /\ q[2] = b
    BY <1>1, <1>2
  <1>4. q = <<q[1], q[2]>>
    BY <1>3, TwoLong
  <1>5. <<a>> \o <<>> = <<a>> /\ <<>> \o <<a>> = <<a>>
    OBVIOUS
  <1> QED
    BY <1>2, <1>3, <1>4, <1>5

LEMMA Long ==
  ASSUME NEW a, NEW b
  PROVE  /\ Len(<<a>>) = 1 /\ <<a>>[1] = a /\ Head(<<a>>) = a
         /\ Len(<<a, b>>) = 2 /\ <<a, b>>[1] = a /\ <<a, b>>[2] = b /\ Head(<<a, b>>) = a
  OBVIOUS

LEMMA PlannedOne ==
  ASSUME NEW j, NEW s, NEW t, NEW w, j.plan = <<w>>, Last(j, w, s, t)
  PROVE  Planned(j, s, t)
  <1>1. Len(j.plan) = 1 /\ j.plan[1] = w
    BY Long
  <1> QED
    BY <1>1 DEF Planned

LEMMA PlannedTwo ==
  ASSUME NEW j, NEW s, NEW t, NEW v, NEW w, j.plan = <<v, w>>, Pair(j, v, w, s, t)
  PROVE  Planned(j, s, t)
  <1>1. Len(j.plan) = 2 /\ j.plan[1] = v /\ j.plan[2] = w
    BY Long
  <1> QED
    BY <1>1 DEF Planned

-----------------------------------------------------------------------------
(* The first state, and steps that only read. *)

LEMMA IdleOK ==
  ASSUME NEW s, NEW t
  PROVE  JobOK(Idle, s, t)
  BY DEF JobOK, Shaped, Relies, Reading, Steps, Idle

LEMMA InitInv == Init => IInv
  <1> SUFFICES ASSUME Init PROVE IInv
    OBVIOUS
  <1>1. DOMAIN defines = {} /\ DOMAIN designs = {} /\ Tabled(defines) /\ Tabled(designs)
    BY DEF Init, Nothing, Tabled
  <1>2. NextOK
    BY DEF Init, NextOK
  <1>3. DefinesOK /\ DesignsOK /\ HistoryOK /\ uses \subseteq DOMAIN defines /\ InOrder /\ MarksOK
    BY <1>1 DEF Init, DefinesOK, DesignsOK, HistoryOK, InOrder, MarksOK
  <1>4. TablesOK
    BY <1>2, <1>3, StoresAssumption DEF TablesOK, Init
  <1>5. \A c \in Client : JobOK(job[c], store, Now) /\ job[c].pc # "write"
    BY IdleOK DEF Init, Idle
  <1> QED
    BY <1>4, <1>5 DEF IInv, Inv, OneWriter, Init

\* A step that writes nothing and leaves its request in order.
Reads(c) == \E k :
  /\ job' = [job EXCEPT ![c] = k] /\ UNCHANGED <<store, mix, tables>>
  /\ job[c].pc # "write" /\ Quiet(c) /\ JobOK(k, store, Now)

LEMMA ReadKeeps ==
  ASSUME Inv, NEW c \in Client, Reads(c)
  PROVE  Inv'
  <1>1. PICK k : job' = [job EXCEPT ![c] = k] /\ JobOK(k, store, Now)
    BY DEF Reads
  <1>2. UNCHANGED <<store, defines, designs, history, uses, next, published, disorder>>
        /\ job[c].pc # "write" /\ Quiet(c)
    BY DEF Reads, tables
  <1>3. Now' = Now
    BY <1>2 DEF Now
  <1>4. job' = [d \in Client |-> IF d = c THEN k ELSE job[d]]
    BY <1>1 DEF Inv
  <1>5. ASSUME NEW d \in Client PROVE JobOK(job'[d], store', Now')
    BY <1>1, <1>2, <1>3, <1>4 DEF Inv
  <1>6. MarksOK'
    <2> SUFFICES ASSUME NEW d \in DOMAIN designs, designs[d].deployed = 1, ~Justified(Now, d)
                 PROVE  \E e \in Client : Clearing(job'[e], d)
      BY <1>2, <1>3 DEF MarksOK
    <2>1. PICK e \in Client : Clearing(job[e], d)
      BY DEF Inv, TablesOK, MarksOK
    <2>2. e # c
      BY <1>2, <2>1 DEF Clearing
    <2> QED
      BY <1>4, <2>1, <2>2
  <1>7. TablesOK'
    BY <1>2, <1>6 DEF Inv, TablesOK, NextOK, DefinesOK, DesignsOK, HistoryOK, InOrder
  <1>8. OneWriter'
    <2> SUFFICES ASSUME store = "jdbc", NEW d \in Client, NEW e \in Client,
                        job'[d].pc = "write", job'[e].pc = "write"
                 PROVE  d = e
      BY <1>2 DEF OneWriter
    <2>1. \A f \in Client \ {c} : job'[f].pc # "write"
      BY <1>2, <1>4 DEF Quiet
    <2> QED
      BY <2>1
  <1> QED
    BY <1>4, <1>5, <1>7, <1>8 DEF Inv

-----------------------------------------------------------------------------
(* The first call of a request. *)

\* A request that has read what it needs.
LEMMA Plans ==
  ASSUME NEW j, NEW writes, NEW k, Shaped(j), k = Planning(j, writes)
  PROVE  /\ Shaped(k) /\ k.op = j.op /\ k.read = j.read /\ k.overtaken = j.overtaken
         /\ k.plan = writes /\ k.pc = IF store = "jdbc" THEN "number" ELSE "write"
  <1>1. PICK pc, b : pc = (IF store = "jdbc" THEN "number" ELSE "write") /\ b = j.overtaken /\ b \in BOOLEAN
    BY DEF Shaped
  <1>2. k = [op |-> j.op, pc |-> pc, id |-> 0, arg |-> "-", ids |-> <<>>,
             row |-> [name |-> "-", deployed |-> 0], content |-> "-", plan |-> writes,
             read |-> j.read, overtaken |-> b]
    BY <1>1 DEF Planning, Idle
  <1> QED
    BY <1>1, <1>2 DEF Shaped

LEMMA PlansOK ==
  ASSUME TablesOK, NEW k, Shaped(k), k.pc = IF store = "jdbc" THEN "number" ELSE "write",
         ~k.overtaken => Planned(k, store, Now)
  PROVE  JobOK(k, store, Now)
  <1>1. k.pc \in {"number", "write"} /\ (k.pc = "number" => store = "jdbc")
    OBVIOUS
  <1>2. Reading(k, Now)
    BY <1>1 DEF Reading
  <1> QED
    BY <1>1, <1>2 DEF JobOK, Relies, Steps

LEMMA Enters ==
  ASSUME Inv, NEW c \in Client, NEW op, NEW k, Enter(c, op, k), JobOK(k, store, Now)
  PROVE  Reads(c)
  BY DEF Enter, Reads

LEMMA deployReads ==
  ASSUME Inv, NEW c \in Client, deploy(c)
  PROVE  Reads(c)
  <1>1. PICK k, j : j = [Request("deploy", "name", 0, "-") EXCEPT !.content = k] /\ Enter(c, "deploy", j)
    BY DEF deploy
  <1>2. Shaped(j) /\ j.op = "deploy" /\ j.pc = "name"
    BY <1>1 DEF Request, Idle, Shaped
  <1>3. JobOK(j, store, Now)
    BY <1>2 DEF JobOK, Relies, Reading, Steps
  <1> QED
    BY <1>1, <1>3, Enters

LEMMA SeenDefine ==
  ASSUME Inv, NEW i \in Seen("define")
  PROVE  i \in Nat \ {0} /\ i < Now.next["define"]
  BY DEF Seen, Now, Inv, TablesOK, NextOK

LEMMA redeployReads ==
  ASSUME Inv, NEW c \in Client, redeploy(c)
  PROVE  Reads(c)
  <1>0. PICK i \in Seen("define"), k \in Content :
          Enter(c, "redeploy", [Request("redeploy", "define", i, "-") EXCEPT !.content = k])
    BY DEF redeploy
  <1>1. PICK j : j = [Request("redeploy", "define", i, "-") EXCEPT !.content = k] /\ Enter(c, "redeploy", j)
    BY <1>0
  <1>2. Shaped(j) /\ j.pc = "define" /\ j.id = i
    BY <1>1 DEF Request, Idle, Shaped
  <1>3. JobOK(j, store, Now)
    BY <1>2, SeenDefine DEF JobOK, Relies, Reading, Steps
  <1> QED
    BY <1>1, <1>3, Enters

LEMMA startAndExecuteReads ==
  ASSUME Inv, NEW c \in Client, startAndExecute(c)
  PROVE  Reads(c)
  <1>1a. PICK i \in Seen("define") : \E j :
          j = Request("startAndExecute", "define", i, "-") /\ Enter(c, "startAndExecute", j)
    BY DEF startAndExecute
  <1>1. PICK j :
          j = Request("startAndExecute", "define", i, "-") /\ Enter(c, "startAndExecute", j)
    BY <1>1a
  <1>2. Shaped(j) /\ j.pc = "define" /\ j.id = i
    BY <1>1 DEF Request, Idle, Shaped
  <1>3. JobOK(j, store, Now)
    BY <1>2, SeenDefine DEF JobOK, Relies, Reading, Steps
  <1> QED
    BY <1>1, <1>3, Enters

\* A batch is of one or two.
LEMMA BatchOf ==
  ASSUME NextOK, NEW table \in {"define", "design"}, NEW b \in Batches(table)
  PROVE  \/ \E i \in Nat \ {0} : b = <<i>>
         \/ \E i \in Nat \ {0}, k \in Nat \ {0} : b = <<i, k>>
  <1>1. next[table] \in Nat \ {0}
    BY DEF NextOK
  <1>2. CASE b \in {<<i>> : i \in Seen(table)}
    <2>1. PICK i \in Seen(table) : b = <<i>>
      BY <1>2
    <2>2. i \in Nat \ {0}
      BY <1>1 DEF Seen
    <2> QED
      BY <2>1, <2>2
  <1>3. CASE b \in {<<i, i + 1>> : i \in 1 .. next[table] - 2}
    <2>1. PICK i \in 1 .. next[table] - 2 : b = <<i, i + 1>>
      BY <1>3
    <2>2. i \in Nat \ {0} /\ i + 1 \in Nat \ {0}
      BY <1>1
    <2> QED
      BY <2>1, <2>2
  <1> QED
    BY <1>2, <1>3 DEF Batches

LEMMA removeDefineReads ==
  ASSUME Inv, NEW c \in Client, removeDefine(c)
  PROVE  Reads(c)
  <1>1a. PICK b \in Batches("define") : \E j :
          j = [Request("removeDefine", "uses", 1, "-") EXCEPT !.ids = b] /\ Enter(c, "removeDefine", j)
    BY DEF removeDefine
  <1>1. PICK j :
          j = [Request("removeDefine", "uses", 1, "-") EXCEPT !.ids = b] /\ Enter(c, "removeDefine", j)
    BY <1>1a
  <1>2. Shaped(j) /\ j.pc = "uses" /\ j.id = 1 /\ j.ids = b
    BY <1>1 DEF Request, Idle, Shaped
  <1>3. Asking(j, Now)
    <2>1. CASE \E i \in Nat \ {0} : b = <<i>>
      <3>1. PICK i \in Nat \ {0} : b = <<i>>
        BY <2>1
      <3>2. DOMAIN b = {1} /\ Len(b) = 1 /\ b[1] = i
        BY <3>1, Long
      <3> QED
        BY <1>2, <3>1, <3>2 DEF Asking
    <2>2. CASE \E i \in Nat \ {0}, k \in Nat \ {0} : b = <<i, k>>
      <3>1. PICK i \in Nat \ {0}, k \in Nat \ {0} : b = <<i, k>>
        BY <2>2
      <3>2. DOMAIN b = {1, 2} /\ Len(b) = 2 /\ b[1] = i /\ b[2] = k
        BY <3>1, Long
      <3> QED
        BY <1>2, <3>1, <3>2 DEF Asking
    <2> QED
      BY <2>1, <2>2, BatchOf DEF Inv, TablesOK
  <1>4. JobOK(j, store, Now)
    BY <1>2, <1>3 DEF JobOK, Relies, Reading, Steps
  <1> QED
    BY <1>1, <1>4, Enters

\* A request that starts with a plan.
LEMMA EntersPlanned ==
  ASSUME Inv, NEW c \in Client, NEW op, NEW j, NEW writes, NEW k, Shaped(j), k = Planning(j, writes),
         Enter(c, op, k), Planned(k, store, Now)
  PROVE  Reads(c)
  <1>1. /\ Shaped(k) /\ k.pc = IF store = "jdbc" THEN "number" ELSE "write"
    BY Plans
  <1>2. JobOK(k, store, Now)
    BY <1>1, PlansOK DEF Inv
  <1> QED
    BY <1>2, Enters

LEMMA upAndDownReads ==
  ASSUME Inv, NEW c \in Client, upAndDown(c)
  PROVE  Reads(c)
  <1>1a. PICK b \in Batches("define") : \E state, j, writes, k :
          /\ j = [Request("upAndDown", "write", 0, "-") EXCEPT !.ids = b] /\ k = Planning(j, writes)
          /\ writes = [l \in DOMAIN b |-> [kind |-> "UpdateDefineState", id |-> b[l], state |-> state]]
          /\ Enter(c, "upAndDown", k)
    BY DEF upAndDown
  <1>1. PICK state, j, writes, k :
          /\ j = [Request("upAndDown", "write", 0, "-") EXCEPT !.ids = b] /\ k = Planning(j, writes)
          /\ writes = [l \in DOMAIN b |-> [kind |-> "UpdateDefineState", id |-> b[l], state |-> state]]
          /\ Enter(c, "upAndDown", k)
    BY <1>1a
  <1>2. Shaped(j) /\ j.op = "upAndDown"
    BY <1>1 DEF Request, Idle, Shaped
  <1>3. k.op = "upAndDown" /\ k.plan = writes
    <2>1. k = Planning(j, writes)
      BY <1>1
    <2>2. k.op = j.op /\ k.plan = writes
      BY <1>2, <2>1, Plans
    <2> QED
      BY <1>2, <2>2
  <1>4. Planned(k, store, Now)
    <2>1. CASE \E i \in Nat \ {0} : b = <<i>>
      <3>1a. PICK i \in Nat \ {0} : \E w :
                b = <<i>> /\ w = [kind |-> "UpdateDefineState", id |-> i, state |-> state]
        BY <2>1
      <3>1. PICK w :
                b = <<i>> /\ w = [kind |-> "UpdateDefineState", id |-> i, state |-> state]
        BY <3>1a
      <3>2. writes = <<w>>
        BY <1>1, <3>1
      <3>3. Last(k, w, store, Now)
        BY <1>3, <3>1 DEF Last, SwitchesDefine
      <3> QED
        BY <1>3, <3>2, <3>3, PlannedOne
    <2>2. CASE \E i \in Nat \ {0}, m \in Nat \ {0} : b = <<i, m>>
      <3>1a. PICK i \in Nat \ {0}, m \in Nat \ {0} : \E v, w :
              /\ b = <<i, m>> /\ v = [kind |-> "UpdateDefineState", id |-> i, state |-> state]
              /\ w = [kind |-> "UpdateDefineState", id |-> m, state |-> state]
        BY <2>2
      <3>1. PICK v, w :
              /\ b = <<i, m>> /\ v = [kind |-> "UpdateDefineState", id |-> i, state |-> state]
              /\ w = [kind |-> "UpdateDefineState", id |-> m, state |-> state]
        BY <3>1a
      <3>2. writes = <<v, w>>
        BY <1>1, <3>1
      <3>3. Pair(k, v, w, store, Now)
        BY <1>3, <3>1 DEF Pair, SwitchesDefine
      <3> QED
        BY <1>3, <3>2, <3>3, PlannedTwo
    <2> QED
      BY <2>1, <2>2, BatchOf DEF Inv, TablesOK
  <1> QED
    BY <1>1, <1>2, <1>4, EntersPlanned

LEMMA designRemoveReads ==
  ASSUME Inv, NEW c \in Client, designRemove(c)
  PROVE  Reads(c)
  <1>1a. PICK b \in Batches("design") : \E j, writes, k :
          /\ j = [Request("designRemove", "write", 0, "-") EXCEPT !.ids = b] /\ k = Planning(j, writes)
          /\ writes = [l \in DOMAIN b |-> [kind |-> "RemoveDesign", id |-> b[l]]]
          /\ Enter(c, "designRemove", k)
    BY DEF designRemove
  <1>1. PICK j, writes, k :
          /\ j = [Request("designRemove", "write", 0, "-") EXCEPT !.ids = b] /\ k = Planning(j, writes)
          /\ writes = [l \in DOMAIN b |-> [kind |-> "RemoveDesign", id |-> b[l]]]
          /\ Enter(c, "designRemove", k)
    BY <1>1a
  <1>2. Shaped(j)
    BY <1>1 DEF Request, Idle, Shaped
  <1>3. k.plan = writes
    BY <1>1, <1>2, Plans
  <1>4. Planned(k, store, Now)
    <2>1. CASE \E i \in Nat \ {0} : b = <<i>>
      <3>1a. PICK i \in Nat \ {0} : \E w :
                b = <<i>> /\ w = [kind |-> "RemoveDesign", id |-> i]
        BY <2>1
      <3>1. PICK w :
                b = <<i>> /\ w = [kind |-> "RemoveDesign", id |-> i]
        BY <3>1a
      <3>2. writes = <<w>>
        BY <1>1, <3>1
      <3>3. Last(k, w, store, Now)
        BY <3>1 DEF Last, RemovesDesign
      <3> QED
        BY <1>3, <3>2, <3>3, PlannedOne
    <2>2. CASE \E i \in Nat \ {0}, m \in Nat \ {0} : b = <<i, m>>
      <3>1a. PICK i \in Nat \ {0}, m \in Nat \ {0} : \E v, w :
              /\ b = <<i, m>> /\ v = [kind |-> "RemoveDesign", id |-> i]
              /\ w = [kind |-> "RemoveDesign", id |-> m]
        BY <2>2
      <3>1. PICK v, w :
              /\ b = <<i, m>> /\ v = [kind |-> "RemoveDesign", id |-> i]
              /\ w = [kind |-> "RemoveDesign", id |-> m]
        BY <3>1a
      <3>2. writes = <<v, w>>
        BY <1>1, <3>1
      <3>3. Pair(k, v, w, store, Now)
        BY <3>1 DEF Pair, RemovesDesign
      <3> QED
        BY <1>3, <3>2, <3>3, PlannedTwo
    <2> QED
      BY <2>1, <2>2, BatchOf DEF Inv, TablesOK
  <1> QED
    BY <1>1, <1>2, <1>4, EntersPlanned

\* What a request that is only planned has drawn: nothing.
LEMMA NotDrawing ==
  ASSUME NEW k, k.pc = IF store = "jdbc" THEN "number" ELSE "write"
  PROVE  ~Drawing(k, store) /\ \A table, used : NewId(k, store, Now, table, 0, used)
  BY DEF Drawing, NewId

LEMMA designSaveNewReads ==
  ASSUME Inv, NEW c \in Client, designSaveNew(c)
  PROVE  Reads(c)
  <1>1a. PICK n \in Names : \E content, j, v, w, writes, k :
          /\ j = [Request("designSave", "write", 0, n) EXCEPT !.content = content] /\ k = Planning(j, writes)
          /\ v = RowWrite("SaveDesign", 0, [name |-> n, deployed |-> 0]) /\ w = Snapshot(0, content)
          /\ writes = <<v>> \o (IF content = "-" THEN <<>> ELSE <<w>>)
          /\ Enter(c, "designSave", k)
    BY DEF designSaveNew
  <1>1. PICK content, j, v, w, writes, k :
          /\ j = [Request("designSave", "write", 0, n) EXCEPT !.content = content] /\ k = Planning(j, writes)
          /\ v = RowWrite("SaveDesign", 0, [name |-> n, deployed |-> 0]) /\ w = Snapshot(0, content)
          /\ writes = <<v>> \o (IF content = "-" THEN <<>> ELSE <<w>>)
          /\ Enter(c, "designSave", k)
    BY <1>1a
  <1>2. Shaped(j)
    BY <1>1 DEF Request, Idle, Shaped
  <1>3. k.plan = writes /\ k.pc = IF store = "jdbc" THEN "number" ELSE "write"
    <2>1. k = Planning(j, writes)
      BY <1>1
    <2> QED
      BY <1>2, <2>1, Plans
  <1>4. AddsDesign(k, v, store, Now)
    BY <1>1, <1>3, NotDrawing DEF AddsDesign, WritesRow, RowWrite, IsDesign
  <1>5. FirstShot(k, v, w, store, Now)
    BY <1>1, <1>3, NotDrawing DEF FirstShot, WritesShot, Snapshot, RowWrite
  <1>6. Planned(k, store, Now)
    <2>1. CASE content = "-"
      <3>1. k.plan = <<v>>
        BY <1>1, <1>3, <2>1, Joined
      <3> QED
        BY <1>4, <3>1, PlannedOne DEF Last
    <2>2. CASE content # "-"
      <3>1. k.plan = <<v, w>>
        BY <1>1, <1>3, <2>2, Joined
      <3> QED
        BY <1>4, <1>5, <3>1, PlannedTwo DEF Pair
    <2> QED
      BY <2>1, <2>2
  <1> QED
    BY <1>1, <1>2, <1>6, EntersPlanned

LEMMA SeenDesign ==
  ASSUME Inv, NEW d \in Seen("design")
  PROVE  d # 0
  BY DEF Seen, Inv, TablesOK, NextOK

LEMMA DesignAsked ==
  ASSUME Inv, NEW c \in Client, NEW op, NEW arg, NEW content, NEW d \in Seen("design"),
         NEW j, j \in {Request(op, "design", d, arg),
                       [Request(op, "design", d, "-") EXCEPT !.content = content]},
         Enter(c, op, j)
  PROVE  Reads(c)
  <1>1. Shaped(j) /\ j.pc = "design" /\ j.id = d
    BY DEF Request, Idle, Shaped
  <1>2. JobOK(j, store, Now)
    BY <1>1, SeenDesign DEF JobOK, Relies, Reading, Steps
  <1> QED
    BY <1>2, Enters

LEMMA DesignReads ==
  ASSUME Inv, NEW c \in Client,
         designSave(c) \/ designUpdate(c) \/ designUpdateDefine(c) \/ designDeploy(c) \/ designRedeploy(c)
  PROVE  Reads(c)
  BY DesignAsked DEF designSave, designUpdate, designUpdateDefine, designDeploy, designRedeploy

-----------------------------------------------------------------------------
(* The reads. *)

\* The newest row of a name, in both ways of looking for it.
LEMMA NewestExists ==
  ASSUME TablesOK, NEW n, NEW i \in Rows(n)
  PROVE  \E m \in Rows(n) : NewestById(n) = {m} /\ i <= m
  <1>1. next["define"] \in Nat /\ \A k \in Rows(n) : k \in Nat \ {0} /\ k < next["define"]
    BY DEF TablesOK, NextOK, DefinesOK, Rows
  <1>2. PICK below : below = {next["define"] - k : k \in Rows(n)}
    OBVIOUS
  <1>3. below \subseteq Nat /\ below # {}
    BY <1>1, <1>2
  <1>4. PICK b \in below : \A a \in below : <<a, b>> \notin OpToRel(<, Nat)
    BY <1>3, WFMin, NatLessThanWellFounded
  <1>5. PICK m \in Rows(n) : b = next["define"] - m
    BY <1>2, <1>4
  <1>6. ASSUME NEW k \in Rows(n) PROVE k <= m
    <2>1. next["define"] - k \in below /\ next["define"] - k \in Nat /\ b \in Nat
      BY <1>1, <1>2, <1>3
    <2>2. ~(next["define"] - k < b)
      BY <1>4, <2>1 DEF OpToRel
    <2> QED
      BY <1>1, <1>5, <2>1, <2>2
  <1>7. \A k \in NewestById(n) : k = m
    BY <1>1, <1>6 DEF NewestById
  <1> QED
    BY <1>1, <1>6, <1>7 DEF NewestById

LEMMA NewestAgree ==
  ASSUME TablesOK, disorder = {}, NEW n
  PROVE  NewestByVersion(n) = NewestById(n)
  <1>1. CASE Rows(n) = {}
    BY <1>1 DEF NewestByVersion, NewestById
  <1>2. CASE Rows(n) # {}
    <2>1. PICK m \in Rows(n) : NewestById(n) = {m} /\ \A k \in Rows(n) : k <= m
      BY <1>2, NewestExists DEF NewestById
    <2>2. \A k \in Rows(n) : k \in Nat /\ defines[k].version \in Nat
      BY DEF TablesOK, DefinesOK, IsDefine, Rows
    <2>3. ASSUME NEW k \in Rows(n), k # m PROVE defines[k].version < defines[m].version
      <3>1. k < m
        BY <2>1, <2>2, <2>3
      <3> QED
        BY <2>3, <3>1 DEF TablesOK, InOrder, Rows
    <2>4. m \in NewestByVersion(n)
      BY <2>2, <2>3 DEF NewestByVersion
    <2>5. \A k \in NewestByVersion(n) : k = m
      BY <2>2, <2>3 DEF NewestByVersion
    <2> QED
      BY <2>1, <2>4, <2>5
  <1> QED
    BY <1>1, <1>2

LEMMA NewestFound ==
  ASSUME TablesOK, NEW n
  PROVE  /\ FindDefineByName(n) \subseteq Rows(n)
         /\ disorder = {} /\ FindDefineByName(n) = {} => Rows(n) = {}
         /\ disorder = {} => \A i \in FindDefineByName(n), k \in Rows(n) : defines[k].version <= defines[i].version
  <1>1. FindDefineByName(n) \subseteq Rows(n)
    BY DEF FindDefineByName, NewestById, NewestByVersion
  <1>2. disorder = {} => FindDefineByName(n) = NewestByVersion(n) /\ FindDefineByName(n) = NewestById(n)
    BY NewestAgree DEF FindDefineByName
  <1>3. disorder = {} /\ FindDefineByName(n) = {} => Rows(n) = {}
    BY <1>2, NewestExists
  <1> QED
    BY <1>1, <1>2, <1>3 DEF NewestByVersion

\* A request that read objects and goes on with another read, or with its plan.
Wider(j, objects) == [j EXCEPT !.read = @ \union objects]
PlansWider(j, writes, objects) == Wider(Planning(j, writes), objects)

LEMMA Extended ==
  ASSUME NEW j, NEW objects, NEW k, Shaped(j), k = Wider(j, objects)
  PROVE  /\ Shaped(k) /\ k.op = j.op /\ k.pc = j.pc /\ k.id = j.id /\ k.arg = j.arg /\ k.ids = j.ids
         /\ k.row = j.row /\ k.content = j.content /\ k.plan = j.plan
         /\ k.read = j.read \union objects /\ k.overtaken = j.overtaken
  <1>1. PICK b : b = j.overtaken /\ b \in BOOLEAN
    BY DEF Shaped
  <1>2. k = [op |-> j.op, pc |-> j.pc, id |-> j.id, arg |-> j.arg, ids |-> j.ids, row |-> j.row,
             content |-> j.content, plan |-> j.plan, read |-> j.read \union objects, overtaken |-> b]
    BY <1>1 DEF Shaped, Wider
  <1> QED
    BY <1>1, <1>2 DEF Shaped

LEMMA GoesOn ==
  ASSUME Inv, NEW c \in Client, NEW pc, At(c, pc), pc # "write", NEW j, NEW objects,
         Proceed(c, j, objects), JobOK(Wider(j, objects), store, Now)
  PROVE  Reads(c)
  BY DEF At, Proceed, Reads, Wider

LEMMA GoesOnReading ==
  ASSUME Inv, NEW c \in Client, NEW pc, At(c, pc), pc # "write", NEW j, NEW objects,
         Proceed(c, j, objects), Shaped(j), NEW k, k = Wider(j, objects),
         k.pc \in {"his", "name", "uses"}, ~k.overtaken => Reading(k, Now)
  PROVE  Reads(c)
  <1>1. Shaped(k)
    BY Extended
  <1>2. JobOK(k, store, Now)
    BY <1>1 DEF JobOK, Relies, Steps
  <1> QED
    BY <1>2, GoesOn

LEMMA PlansWith ==
  ASSUME NEW j, NEW writes, NEW objects, NEW k, Shaped(j),
         k = PlansWider(j, writes, objects)
  PROVE  /\ Shaped(k) /\ k.op = j.op /\ k.overtaken = j.overtaken /\ k.plan = writes
         /\ k.read = j.read \union objects /\ k.pc = IF store = "jdbc" THEN "number" ELSE "write"
  <1>1. PICK i : i = Planning(j, writes)
    OBVIOUS
  <1>2. /\ Shaped(i) /\ i.op = j.op /\ i.read = j.read /\ i.overtaken = j.overtaken
        /\ i.plan = writes /\ i.pc = IF store = "jdbc" THEN "number" ELSE "write"
    BY <1>1, Plans
  <1>3. k = Wider(i, objects)
    BY <1>1 DEF PlansWider
  <1>4. /\ Shaped(k) /\ k.op = i.op /\ k.pc = i.pc /\ k.plan = i.plan
        /\ k.read = i.read \union objects /\ k.overtaken = i.overtaken
    BY <1>2, <1>3, Extended
  <1> QED
    BY <1>2, <1>4

LEMMA GoesOnPlanned ==
  ASSUME Inv, NEW c \in Client, NEW pc, At(c, pc), pc # "write", NEW j, NEW writes, NEW objects,
         Proceed(c, Planning(j, writes), objects), Shaped(j),
         NEW k, k = PlansWider(j, writes, objects),
         ~j.overtaken => Planned(k, store, Now)
  PROVE  Reads(c)
  <1>1. /\ Shaped(k) /\ k.pc = IF store = "jdbc" THEN "number" ELSE "write"
        /\ k.overtaken = j.overtaken
    BY PlansWith
  <1>2. JobOK(k, store, Now)
    BY <1>1, PlansOK DEF Inv
  <1> QED
    BY <1>2, GoesOn DEF PlansWider

LEMMA Failed ==
  ASSUME Inv, NEW c \in Client, NEW pc, At(c, pc), pc # "write", Fail(c)
  PROVE  Reads(c)
  BY IdleOK DEF Fail, At, Reads

\* What a request has when it comes to a read.
LEMMA Reader ==
  ASSUME Inv, NEW c \in Client, NEW pc, At(c, pc), NEW j, j = job[c]
  PROVE  Shaped(j) /\ j.pc = pc /\ TablesOK /\ (~j.overtaken => Relies(j, store, Now))
  BY DEF Inv, JobOK, At

\* One field of a request is changed.
WithRow(j, row) == [j EXCEPT !.row = row]
WithPc(j, pc) == [j EXCEPT !.pc = pc]
WithContent(j, content) == [j EXCEPT !.content = content]
WithArg(j, arg) == [j EXCEPT !.arg = arg]
WithId(j, id) == [j EXCEPT !.id = id]

LEMMA HasRow ==
  ASSUME NEW j, Shaped(j), NEW row, NEW i, i = WithRow(j, row)
  PROVE  /\ Shaped(i) /\ i.op = j.op /\ i.pc = j.pc /\ i.id = j.id /\ i.arg = j.arg /\ i.ids = j.ids /\ i.row = row
         /\ i.content = j.content /\ i.plan = j.plan /\ i.read = j.read /\ i.overtaken = j.overtaken
  <1>1. PICK b : b = j.overtaken /\ b \in BOOLEAN
    BY DEF Shaped
  <1>2. i = [op |-> j.op, pc |-> j.pc, id |-> j.id, arg |-> j.arg, ids |-> j.ids, row |-> row,
             content |-> j.content, plan |-> j.plan, read |-> j.read, overtaken |-> b]
    BY <1>1 DEF Shaped, WithRow
  <1> QED
    BY <1>1, <1>2 DEF Shaped

LEMMA HasPc ==
  ASSUME NEW j, Shaped(j), NEW pc, NEW i, i = WithPc(j, pc)
  PROVE  /\ Shaped(i) /\ i.op = j.op /\ i.pc = pc /\ i.id = j.id /\ i.arg = j.arg /\ i.ids = j.ids /\ i.row = j.row
         /\ i.content = j.content /\ i.plan = j.plan /\ i.read = j.read /\ i.overtaken = j.overtaken
  <1>1. PICK b : b = j.overtaken /\ b \in BOOLEAN
    BY DEF Shaped
  <1>2. i = [op |-> j.op, pc |-> pc, id |-> j.id, arg |-> j.arg, ids |-> j.ids, row |-> j.row,
             content |-> j.content, plan |-> j.plan, read |-> j.read, overtaken |-> b]
    BY <1>1 DEF Shaped, WithPc
  <1> QED
    BY <1>1, <1>2 DEF Shaped

LEMMA HasContent ==
  ASSUME NEW j, Shaped(j), NEW content, NEW i, i = WithContent(j, content)
  PROVE  /\ Shaped(i) /\ i.op = j.op /\ i.pc = j.pc /\ i.id = j.id /\ i.arg = j.arg /\ i.ids = j.ids /\ i.row = j.row
         /\ i.content = content /\ i.plan = j.plan /\ i.read = j.read /\ i.overtaken = j.overtaken
  <1>1. PICK b : b = j.overtaken /\ b \in BOOLEAN
    BY DEF Shaped
  <1>2. i = [op |-> j.op, pc |-> j.pc, id |-> j.id, arg |-> j.arg, ids |-> j.ids, row |-> j.row,
             content |-> content, plan |-> j.plan, read |-> j.read, overtaken |-> b]
    BY <1>1 DEF Shaped, WithContent
  <1> QED
    BY <1>1, <1>2 DEF Shaped

LEMMA HasArg ==
  ASSUME NEW j, Shaped(j), NEW arg, NEW i, i = WithArg(j, arg)
  PROVE  /\ Shaped(i) /\ i.op = j.op /\ i.pc = j.pc /\ i.id = j.id /\ i.arg = arg /\ i.ids = j.ids /\ i.row = j.row
         /\ i.content = j.content /\ i.plan = j.plan /\ i.read = j.read /\ i.overtaken = j.overtaken
  <1>1. PICK b : b = j.overtaken /\ b \in BOOLEAN
    BY DEF Shaped
  <1>2. i = [op |-> j.op, pc |-> j.pc, id |-> j.id, arg |-> arg, ids |-> j.ids, row |-> j.row,
             content |-> j.content, plan |-> j.plan, read |-> j.read, overtaken |-> b]
    BY <1>1 DEF Shaped, WithArg
  <1> QED
    BY <1>1, <1>2 DEF Shaped

LEMMA HasId ==
  ASSUME NEW j, Shaped(j), NEW id, NEW i, i = WithId(j, id)
  PROVE  /\ Shaped(i) /\ i.op = j.op /\ i.pc = j.pc /\ i.id = id /\ i.arg = j.arg /\ i.ids = j.ids /\ i.row = j.row
         /\ i.content = j.content /\ i.plan = j.plan /\ i.read = j.read /\ i.overtaken = j.overtaken
  <1>1. PICK b : b = j.overtaken /\ b \in BOOLEAN
    BY DEF Shaped
  <1>2. i = [op |-> j.op, pc |-> j.pc, id |-> id, arg |-> j.arg, ids |-> j.ids, row |-> j.row,
             content |-> j.content, plan |-> j.plan, read |-> j.read, overtaken |-> b]
    BY <1>1 DEF Shaped, WithId
  <1> QED
    BY <1>1, <1>2 DEF Shaped

\* The snapshot of an existing design, and a write that takes the mark off it.
LEMMA PlansShot ==
  ASSUME NEW k, k.pc = (IF store = "jdbc" THEN "number" ELSE "write"), NEW d, d # 0, NEW content,
         NEW w, w = Snapshot(d, content)
  PROVE  AddsShot(k, w, store, Now) /\ w.design = d
  BY NotDrawing DEF AddsShot, WritesShot, Snapshot

LEMMA PlansUnmark ==
  ASSUME NEW d, d # 0, NEW row, IsDesign(row), row.deployed = 0, NEW v, v = RowWrite("UpdateDesign", d, row)
  PROVE  Unmarks(v) /\ v.id = d
  BY DEF Unmarks, WritesDesign, WritesRow, RowWrite

LEMMA PlansKeep ==
  ASSUME NEW k, NEW d, d # 0, OnDesign(k, d, Now), NEW row, IsDesign(row),
         row.deployed = designs[d].deployed, NEW v, v = RowWrite("UpdateDesign", d, row)
  PROVE  Keeps(k, v, Now)
  BY DEF Keeps, WritesDesign, WritesRow, RowWrite, Now

LEMMA FindDesignReads ==
  ASSUME Inv, NEW c \in Client, FindDesign(c)
  PROVE  Reads(c)
  <1>1. PICK j, objects : j = job[c] /\ objects = {Row("design", j.id)}
    OBVIOUS
  <1>2. At(c, "design")
    BY DEF FindDesign
  <1>3. Shaped(j) /\ j.pc = "design" /\ TablesOK /\ (~j.overtaken => Relies(j, store, Now))
    BY <1>1, <1>2, Reader
  <1>4. ~j.overtaken => j.id # 0
    BY <1>3 DEF Relies, Reading
  <1>5. CASE j.id \notin DOMAIN designs
    <2>1. Fail(c)
      BY <1>1, <1>5 DEF FindDesign
    <2> QED
      BY <1>2, <2>1, Failed
  <1>6. CASE j.id \in DOMAIN designs
    <2>1. PICK found, on : found = designs[j.id] /\ on = WithRow(j, found)
      OBVIOUS
    <2>2. IsDesign(found)
      BY <1>3, <1>6, <2>1 DEF TablesOK, DesignsOK
    <2>3. /\ Shaped(on) /\ on.op = j.op /\ on.id = j.id /\ on.row = found /\ on.read = j.read
          /\ on.overtaken = j.overtaken
      BY <1>3, <2>1, HasRow
    <2>4. \A k : k.read = j.read \union objects => OnDesign(k, j.id, Now)
      BY <1>1, <1>6 DEF OnDesign, Now
    <2>5. CASE j.op = "designSave"
      <3>1. PICK v, w, writes :
              /\ v = RowWrite("UpdateDesign", j.id, Saved(found, j.content)) /\ w = Snapshot(j.id, j.content)
              /\ writes = <<v>> \o (IF j.content = "-" THEN <<>> ELSE <<w>>)
        OBVIOUS
      <3>2. Proceed(c, Planning(on, writes), objects)
        BY <1>1, <1>6, <2>1, <2>5, <3>1 DEF FindDesign, WithRow
      <3>3. PICK k : k = PlansWider(on, writes, objects)
        OBVIOUS
      <3>4. /\ k.plan = writes /\ k.read = j.read \union objects
            /\ k.pc = IF store = "jdbc" THEN "number" ELSE "write"
        BY <2>3, <3>3, PlansWith
      <3>5. ASSUME ~on.overtaken, j.content = "-" PROVE Planned(k, store, Now)
        <4>1. k.plan = <<v>>
          BY <3>1, <3>4, <3>5, Joined
        <4>2. Keeps(k, v, Now)
          BY <1>4, <2>1, <2>2, <2>3, <2>4, <3>1, <3>4, <3>5, PlansKeep DEF Saved
        <4> QED
          BY <4>1, <4>2, PlannedOne DEF Last
      <3>6. ASSUME ~on.overtaken, j.content # "-" PROVE Planned(k, store, Now)
        <4>1. k.plan = <<v, w>>
          BY <3>1, <3>4, <3>6, Joined
        <4>2. PICK row : row = [found EXCEPT !.deployed = 0] /\ IsDesign(row) /\ row.deployed = 0
          <5>1. PICK row : row = [name |-> found.name, deployed |-> 0]
            OBVIOUS
          <5>2. row = [found EXCEPT !.deployed = 0] /\ IsDesign(row) /\ row.deployed = 0
            BY <2>2, <5>1 DEF IsDesign
          <5> QED
            BY <5>2
        <4>3. v = RowWrite("UpdateDesign", j.id, row)
          BY <3>1, <3>6, <4>2 DEF Saved
        <4>4. Unmarks(v) /\ v.id = j.id
          <5>1. j.id # 0 /\ IsDesign(row) /\ row.deployed = 0
            BY <1>4, <2>3, <3>6, <4>2
          <5> QED
            BY <4>3, <5>1, PlansUnmark
        <4>5. AddsShot(k, w, store, Now) /\ w.design = j.id
          BY <1>4, <2>3, <3>1, <3>4, <3>6, PlansShot
        <4> QED
          BY <4>1, <4>4, <4>5, PlannedTwo DEF Pair
      <3> QED
        BY <1>2, <2>3, <3>2, <3>3, <3>5, <3>6, GoesOnPlanned
    <2>6. CASE j.op = "designUpdate"
      <3>1. PICK row, v : /\ row = (IF j.arg = "-" THEN found ELSE [found EXCEPT !.name = j.arg])
                          /\ v = RowWrite("UpdateDesign", j.id, row)
        OBVIOUS
      <3>2. Proceed(c, Planning(on, <<v>>), objects)
        BY <1>1, <1>6, <2>1, <2>6, <3>1 DEF FindDesign, WithRow
      <3>3. PICK k : k = PlansWider(on, <<v>>, objects)
        OBVIOUS
      <3>4. k.plan = <<v>> /\ k.read = j.read \union objects
        BY <2>3, <3>3, PlansWith
      <3>5. IsDesign(row) /\ row.deployed = found.deployed
        BY <2>2, <3>1 DEF IsDesign
      <3>6. ASSUME ~on.overtaken PROVE Planned(k, store, Now)
        <4>1. Keeps(k, v, Now)
          BY <1>4, <2>1, <2>3, <2>4, <3>1, <3>4, <3>5, <3>6, PlansKeep
        <4> QED
          BY <3>4, <4>1, PlannedOne DEF Last
      <3> QED
        BY <1>2, <2>3, <3>2, <3>3, <3>6, GoesOnPlanned
    <2>7. CASE j.op # "designSave" /\ j.op # "designUpdate"
      <3>1. PICK i : i = WithPc(on, "his")
        OBVIOUS
      <3>2. Proceed(c, i, objects)
        BY <1>1, <1>6, <2>1, <2>7, <3>1 DEF FindDesign, WithPc, WithRow
      <3>3. PICK k : k = Wider(i, objects)
        OBVIOUS
      <3>4. /\ Shaped(i) /\ k.pc = "his" /\ k.id = j.id /\ k.row = found /\ k.read = j.read \union objects
            /\ k.overtaken = j.overtaken
        <4>1. /\ Shaped(i) /\ i.pc = "his" /\ i.id = on.id /\ i.row = on.row /\ i.read = on.read
              /\ i.overtaken = on.overtaken
          BY <2>3, <3>1, HasPc
        <4>2. /\ k.pc = i.pc /\ k.id = i.id /\ k.row = i.row /\ k.read = i.read \union objects
              /\ k.overtaken = i.overtaken
          BY <3>3, <4>1, Extended
        <4> QED
          BY <2>3, <4>1, <4>2
      <3>5. ASSUME ~k.overtaken PROVE Reading(k, Now)
        BY <1>4, <2>1, <2>4, <3>4, <3>5 DEF Reading, Now
      <3> QED
        BY <1>2, <3>1, <3>2, <3>3, <3>4, <3>5, GoesOnReading
    <2> QED
      BY <2>5, <2>6, <2>7
  <1> QED
    BY <1>5, <1>6

LEMMA ListDesignHisReads ==
  ASSUME Inv, NEW c \in Client, ListDesignHis(c)
  PROVE  Reads(c)
  <1>1. PICK j, objects, content : j = job[c] /\ objects = {Row("his", j.id)} /\ content = Latest(j.id).content
    OBVIOUS
  <1>2. At(c, "his")
    BY DEF ListDesignHis
  <1>3. Shaped(j) /\ j.pc = "his" /\ TablesOK /\ (~j.overtaken => Relies(j, store, Now))
    BY <1>1, <1>2, Reader
  <1>4. ~j.overtaken => j.id # 0 /\ OnDesign(j, j.id, Now) /\ j.row = designs[j.id]
    BY <1>3 DEF Relies, Reading, Now
  <1>5. CASE j.op = "designUpdateDefine"
    <2>1. PICK row, v, w, new, writes :
            /\ row = [name |-> NameOf[j.content], deployed |-> 0] /\ v = RowWrite("UpdateDesign", j.id, row)
            /\ w = Snapshot(j.id, j.content)
            /\ new = IF Snapshots(j.id) # {} /\ content = j.content THEN <<>> ELSE <<w>>
            /\ writes = new \o <<v>>
      OBVIOUS
    <2>2. Proceed(c, Planning(j, writes), objects)
      BY <1>1, <1>5, <2>1 DEF ListDesignHis
    <2>3. PICK k : k = PlansWider(j, writes, objects)
      OBVIOUS
    <2>4. k.plan = writes /\ k.pc = IF store = "jdbc" THEN "number" ELSE "write"
      BY <1>3, <2>3, PlansWith
    <2>5. ASSUME ~j.overtaken PROVE Planned(k, store, Now)
      <3>1. j.id # 0 /\ IsDesign(row) /\ row.deployed = 0
        BY <1>4, <2>1, <2>5 DEF IsDesign
      <3>2. Unmarks(v) /\ v.id = j.id
        BY <2>1, <3>1, PlansUnmark
      <3>3. AddsShot(k, w, store, Now) /\ w.design = j.id
        BY <2>1, <2>4, <3>1, PlansShot
      <3>4. k.plan = <<v>> \/ k.plan = <<w, v>>
        BY <2>1, <2>4, Joined
      <3> QED
        BY <3>2, <3>3, <3>4, PlannedOne, PlannedTwo DEF Last, Pair
    <2> QED
      BY <1>2, <1>3, <2>2, <2>3, <2>5, GoesOnPlanned
  <1>6. CASE j.op # "designUpdateDefine" /\ Snapshots(j.id) = {}
    <2>1. Fail(c)
      BY <1>1, <1>6 DEF ListDesignHis
    <2> QED
      BY <1>2, <2>1, Failed
  <1>7. CASE j.op # "designUpdateDefine" /\ Snapshots(j.id) # {}
    <2>1. PICK h, i : h = WithPc(j, "name") /\ i = WithContent(h, content)
      OBVIOUS
    <2>2. Proceed(c, i, objects)
      <3>1. i = [j EXCEPT !.pc = "name", !.content = content]
        BY <2>1 DEF WithPc, WithContent
      <3> QED
        BY <1>1, <1>7, <3>1 DEF ListDesignHis
    <2>3. PICK k : k = Wider(i, objects)
      OBVIOUS
    <2>4. /\ Shaped(i) /\ k.pc = "name" /\ k.op = j.op /\ k.id = j.id /\ k.row = j.row /\ k.content = content
          /\ k.read = j.read \union objects /\ k.overtaken = j.overtaken
      <3>1. /\ Shaped(h) /\ h.pc = "name" /\ h.op = j.op /\ h.id = j.id /\ h.row = j.row /\ h.read = j.read
            /\ h.overtaken = j.overtaken
        BY <1>3, <2>1, HasPc
      <3>2. /\ Shaped(i) /\ i.pc = h.pc /\ i.op = h.op /\ i.id = h.id /\ i.row = h.row /\ i.content = content
            /\ i.read = h.read /\ i.overtaken = h.overtaken
        BY <2>1, <3>1, HasContent
      <3>3. /\ k.pc = i.pc /\ k.op = i.op /\ k.id = i.id /\ k.row = i.row /\ k.content = i.content
            /\ k.read = i.read \union objects /\ k.overtaken = i.overtaken
        BY <2>3, <3>2, Extended
      <3> QED
        BY <3>1, <3>2, <3>3
    <2>5. ASSUME ~k.overtaken PROVE Reading(k, Now)
      <3>1. j.id # 0 /\ OnDesign(j, j.id, Now) /\ j.row = designs[j.id]
        BY <1>4, <2>4, <2>5
      <3>2. OnDesign(k, k.id, Now) /\ k.row = designs[k.id] /\ k.id # 0
        BY <2>4, <3>1 DEF OnDesign
      <3>3. Shows(k, k.id, k.content, Now)
        BY <1>1, <1>7, <2>4 DEF Shows, Shots, LastShot, Snapshots, Latest, Now
      <3> QED
        BY <2>4, <3>2, <3>3 DEF Reading, Now
    <2> QED
      BY <1>2, <2>2, <2>3, <2>4, <2>5, GoesOnReading
  <1> QED
    BY <1>5, <1>6, <1>7

LEMMA FindDefineReads ==
  ASSUME Inv, NEW c \in Client, FindDefine(c)
  PROVE  Reads(c)
  <1>1. PICK j, objects : j = job[c] /\ objects = {Row("define", j.id)}
    OBVIOUS
  <1>2. At(c, "define")
    BY DEF FindDefine
  <1>3. Shaped(j) /\ j.pc = "define" /\ TablesOK /\ (~j.overtaken => Relies(j, store, Now))
    BY <1>1, <1>2, Reader
  <1>4. ~j.overtaken => j.id \in Nat \ {0} /\ j.id < Now.next["define"]
    BY <1>3 DEF Relies, Reading
  <1>5. CASE j.op = "redeploy"
    <2>1. PICK row, v : /\ row = IF j.id \in DOMAIN defines THEN Replacement(j.content, j.id)
                                 ELSE Define(j.content, 0, 0)
                        /\ v = RowWrite("UpdateDefine", j.id, row)
      OBVIOUS
    <2>2. Proceed(c, Planning(j, <<v>>), objects)
      BY <1>1, <1>5, <2>1 DEF FindDefine
    <2>3. PICK k : k = PlansWider(j, <<v>>, objects)
      OBVIOUS
    <2>4. k.plan = <<v>> /\ k.read = j.read \union objects
      BY <1>3, <2>3, PlansWith
    <2>5. IsDefine(row) /\ (j.id \in DOMAIN defines =>
                              row.version = defines[j.id].version /\ row.state = defines[j.id].state)
      BY <1>3, <2>1 DEF Replacement, Define, IsDefine, TablesOK, DefinesOK
    <2>6. ASSUME ~j.overtaken PROVE ReplacesDefine(k, v, Now)
      BY <1>1, <1>4, <2>1, <2>4, <2>5, <2>6 DEF ReplacesDefine, WritesRow, RowWrite, Now
    <2>7. ~j.overtaken => Planned(k, store, Now)
      BY <2>4, <2>6, PlannedOne DEF Last
    <2> QED
      BY <1>2, <1>3, <2>2, <2>3, <2>7, GoesOnPlanned
  <1>6. CASE j.op # "redeploy" /\ j.id \notin DOMAIN defines
    <2>1. Fail(c)
      BY <1>1, <1>6 DEF FindDefine
    <2> QED
      BY <1>2, <2>1, Failed
  <1>7. CASE j.op # "redeploy" /\ j.id \in DOMAIN defines
    <2>1. PICK w : w = [kind |-> "SaveInstance", id |-> j.id]
      OBVIOUS
    <2>2. Proceed(c, Planning(j, <<w>>), objects)
      BY <1>1, <1>7, <2>1 DEF FindDefine
    <2>3. PICK k : k = PlansWider(j, <<w>>, objects)
      OBVIOUS
    <2>4. k.plan = <<w>> /\ k.read = j.read \union objects
      BY <1>3, <2>3, PlansWith
    <2>5. ~j.overtaken => UsesDefine(k, w, Now)
      BY <1>1, <1>4, <1>7, <2>1, <2>4 DEF UsesDefine, Now
    <2>6. ~j.overtaken => Planned(k, store, Now)
      BY <2>4, <2>5, PlannedOne DEF Last
    <2> QED
      BY <1>2, <1>3, <2>2, <2>3, <2>6, GoesOnPlanned
  <1> QED
    BY <1>5, <1>6, <1>7

\* The mark of a publication, and its two ways of writing the definition.
LEMMA MarkPlanned ==
  ASSUME NEW j, Shaped(j), j.pc = "name", j.op # "deploy", Relies(j, store, Now), DesignsOK,
         NEW objects, NEW k, k.read = j.read \union objects,
         NEW w, w = RowWrite("UpdateDesign", j.id, [j.row EXCEPT !.deployed = 1])
  PROVE  Marks(k, w, j.content, Now)
  <1>1. j.id # 0 /\ OnDesign(j, j.id, Now) /\ j.row = designs[j.id] /\ Shows(j, j.id, j.content, Now)
    BY DEF Relies, Reading, Now
  <1>2. IsDesign(j.row)
    BY <1>1 DEF OnDesign, Now, DesignsOK
  <1>3. PICK row : row = [name |-> j.row.name, deployed |-> 1]
    OBVIOUS
  <1>4. row = [j.row EXCEPT !.deployed = 1] /\ IsDesign(row) /\ row.deployed = 1
    BY <1>2, <1>3 DEF IsDesign
  <1>5. WritesDesign(w) /\ w.id = j.id /\ w.row.deployed = 1
    BY <1>1, <1>4 DEF WritesDesign, WritesRow, RowWrite
  <1>6. OnDesign(k, j.id, Now) /\ Shows(k, j.id, j.content, Now)
    BY <1>1 DEF OnDesign, Shows
  <1> QED
    BY <1>5, <1>6 DEF Marks

LEMMA PublicationPlanned ==
  ASSUME TablesOK, NEW j, Shaped(j), j.pc = "name", Relies(j, store, Now), NEW objects,
         NEW k, k.read = j.read \union objects, NEW v, k.plan = <<v>> \o MarkDeployed(j),
         \/ AddsDefine(k, v, store, Now)
         \/ ReplacesDefine(k, v, Now) /\ v.id \in DOMAIN defines,
         v.row.content = j.content
  PROVE  Planned(k, store, Now)
  <1>1. CASE j.op = "deploy"
    <2>1. k.plan = <<v>>
      BY <1>1, Joined DEF MarkDeployed
    <2> QED
      BY <2>1, PlannedOne DEF Last
  <1>2. CASE j.op # "deploy"
    <2>1. PICK w : w = RowWrite("UpdateDesign", j.id, [j.row EXCEPT !.deployed = 1])
      OBVIOUS
    <2>2. k.plan = <<v, w>>
      BY <1>2, <2>1, Joined DEF MarkDeployed
    <2>3. Marks(k, w, v.row.content, Now)
      BY <1>2, <2>1, MarkPlanned DEF TablesOK
    <2>4. Pair(k, v, w, store, Now)
      BY <2>3 DEF Pair, Now
    <2> QED
      BY <2>2, <2>4, PlannedTwo
  <1> QED
    BY <1>1, <1>2

LEMMA AddPlanned ==
  ASSUME NEW k, k.pc = (IF store = "jdbc" THEN "number" ELSE "write"), NEW content, NEW version \in Nat,
         NameRow(NameOf[content]) \in k.read,
         disorder = {} => \A i \in Rows(NameOf[content]) : defines[i].version < version,
         NEW v, v = RowWrite("SaveDefine", 0, Define(content, version, 1))
  PROVE  AddsDefine(k, v, store, Now) /\ v.row.content = content
  <1>1. PICK row : row = Define(content, version, 1)
    OBVIOUS
  <1>2. /\ IsDefine(row) /\ row.name = NameOf[content] /\ row.version = version
        /\ row.content = content
    BY <1>1 DEF Define, IsDefine
  <1>3. v.kind = "SaveDefine" /\ v.id = 0 /\ v.row = row /\ WritesRow(v)
    BY <1>1 DEF RowWrite, WritesRow
  <1>4. NewId(k, store, Now, "define", v.id, DOMAIN Now.defines)
    BY <1>3, NotDrawing
  <1>5. Now.disorder = {} => \A i \in Named(Now, v.row.name) : Now.defines[i].version < v.row.version
    BY <1>2, <1>3 DEF Named, Rows, Now
  <1> QED
    BY <1>2, <1>3, <1>4, <1>5 DEF AddsDefine

LEMMA FindNameReads ==
  ASSUME Inv, NEW c \in Client, FindName(c)
  PROVE  Reads(c)
  <1>1. PICK j, n, objects, newest :
          j = job[c] /\ n = NameOf[j.content] /\ objects = {NameRow(n)} /\ newest = FindDefineByName(n)
    OBVIOUS
  <1>2. At(c, "name")
    BY DEF FindName
  <1>3. Shaped(j) /\ j.pc = "name" /\ TablesOK /\ (~j.overtaken => Relies(j, store, Now))
    BY <1>1, <1>2, Reader
  <1>4. /\ newest \subseteq Rows(n) /\ (disorder = {} /\ newest = {} => Rows(n) = {})
        /\ disorder = {} => \A i \in newest, m \in Rows(n) : defines[m].version <= defines[i].version
    BY <1>1, <1>3, NewestFound
  <1>5. \A i \in Rows(n) : i \in Nat \ {0} /\ i < next["define"] /\ IsDefine(defines[i]) /\ defines[i].name = n
    BY <1>3 DEF TablesOK, DefinesOK, Rows
  <1>6. CASE newest = {} /\ j.op = "designRedeploy" /\ j.arg # "deploy"
    <2>1. PICK i : i = WithArg(j, "deploy")
      OBVIOUS
    <2>2. Proceed(c, i, objects)
      BY <1>1, <1>6, <2>1 DEF FindName, WithArg
    <2>3. PICK k : k = Wider(i, objects)
      OBVIOUS
    <2>4. /\ Shaped(i) /\ k.pc = "name" /\ k.op = j.op /\ k.id = j.id /\ k.row = j.row /\ k.content = j.content
          /\ k.read = j.read \union objects /\ k.overtaken = j.overtaken
      <3>1. /\ Shaped(i) /\ i.pc = j.pc /\ i.op = j.op /\ i.id = j.id /\ i.row = j.row
            /\ i.content = j.content /\ i.read = j.read /\ i.overtaken = j.overtaken
        BY <1>3, <2>1, HasArg
      <3>2. /\ k.pc = i.pc /\ k.op = i.op /\ k.id = i.id /\ k.row = i.row /\ k.content = i.content
            /\ k.read = i.read \union objects /\ k.overtaken = i.overtaken
        BY <2>3, <3>1, Extended
      <3> QED
        BY <1>3, <3>1, <3>2
    <2>5. ASSUME ~k.overtaken PROVE Reading(k, Now)
      <3>1. Relies(j, store, Now)
        BY <1>3, <2>4, <2>5
      <3> QED
        BY <1>3, <1>6, <2>4, <3>1 DEF Relies, Reading, OnDesign, Shows
    <2> QED
      BY <1>2, <2>2, <2>3, <2>4, <2>5, GoesOnReading
  <1>7. ASSUME NEW v, Proceed(c, Planning(j, <<v>> \o MarkDeployed(j)), objects),
               \/ \E version \in Nat : /\ v = RowWrite("SaveDefine", 0, Define(j.content, version, 1))
                                       /\ disorder = {} => \A i \in Rows(n) : defines[i].version < version
               \/ \E i \in Rows(n) : v = RowWrite("UpdateDefine", i, Replacement(j.content, i))
        PROVE  Reads(c)
    <2>1. PICK writes, k : writes = <<v>> \o MarkDeployed(j) /\ k = PlansWider(j, writes, objects)
      OBVIOUS
    <2>2. /\ k.plan = writes /\ k.read = j.read \union objects
          /\ k.pc = IF store = "jdbc" THEN "number" ELSE "write"
      <3>1. k = PlansWider(j, writes, objects)
        BY <2>1
      <3> QED
        BY <1>3, <3>1, PlansWith
    <2>3. NameRow(n) \in k.read
      BY <1>1, <2>2
    <2>4. \/ AddsDefine(k, v, store, Now) /\ v.row.content = j.content
          \/ ReplacesDefine(k, v, Now) /\ v.id \in DOMAIN defines /\ v.row.content = j.content
      <3>1. CASE \E version \in Nat : /\ v = RowWrite("SaveDefine", 0, Define(j.content, version, 1))
                                      /\ disorder = {} => \A i \in Rows(n) : defines[i].version < version
        BY <1>1, <2>2, <2>3, <3>1, AddPlanned
      <3>2. CASE \E i \in Rows(n) : v = RowWrite("UpdateDefine", i, Replacement(j.content, i))
        <4>1a. PICK i \in Rows(n) : \E row :
                  row = Replacement(j.content, i) /\ v = RowWrite("UpdateDefine", i, row)
          BY <3>2
        <4>1. PICK row :
                  row = Replacement(j.content, i) /\ v = RowWrite("UpdateDefine", i, row)
          BY <4>1a
        <4>2. /\ IsDefine(row) /\ row.version = defines[i].version /\ row.state = defines[i].state
              /\ row.content = j.content
          BY <1>5, <4>1 DEF Replacement, Define, IsDefine
        <4>3. v.kind = "UpdateDefine" /\ v.id = i /\ v.row = row /\ WritesRow(v)
          BY <4>1 DEF RowWrite, WritesRow
        <4>4. i \in DOMAIN defines /\ defines[i].name = n
          BY DEF Rows
        <4> QED
          BY <1>5, <2>3, <4>2, <4>3, <4>4 DEF ReplacesDefine, Now
      <3> QED
        BY <1>7, <3>1, <3>2
    <2>5. ~j.overtaken => Planned(k, store, Now)
      BY <1>3, <2>1, <2>2, <2>4, PublicationPlanned
    <2> QED
      BY <1>2, <1>3, <1>7, <2>1, <2>5, GoesOnPlanned
  <1>8. CASE newest = {} /\ ~(j.op = "designRedeploy" /\ j.arg # "deploy")
    <2>1. PICK v : v = RowWrite("SaveDefine", 0, Define(j.content, 0, 1))
      OBVIOUS
    <2>2. Proceed(c, Planning(j, <<v>> \o MarkDeployed(j)), objects)
      BY <1>1, <1>8, <2>1 DEF FindName
    <2>3. disorder = {} => \A i \in Rows(n) : defines[i].version < 0
      BY <1>4, <1>8
    <2> QED
      BY <1>7, <2>1, <2>2, <2>3
  <1>9. CASE newest # {}
    <2>1a. PICK i \in newest :
              Proceed(c, Planning(j, (IF j.op = "designRedeploy" /\ j.arg # "deploy"
                                      THEN <<RowWrite("UpdateDefine", i, Replacement(j.content, i))>>
                                      ELSE <<RowWrite("SaveDefine", 0, Define(j.content, NextVersion(i), 1))>>)
                                     \o MarkDeployed(j)), objects)
      BY <1>1, <1>9 DEF FindName
    <2>1. PICK v :
            /\ v = IF j.op = "designRedeploy" /\ j.arg # "deploy"
                   THEN RowWrite("UpdateDefine", i, Replacement(j.content, i))
                   ELSE RowWrite("SaveDefine", 0, Define(j.content, NextVersion(i), 1))
            /\ Proceed(c, Planning(j, <<v>> \o MarkDeployed(j)), objects)
      BY <2>1a
    <2>2. i \in Rows(n)
      BY <1>4
    <2>3. NextVersion(i) \in Nat /\ (disorder = {} => \A m \in Rows(n) : defines[m].version < NextVersion(i))
      <3>1. \A m \in Rows(n) : defines[m].version \in Nat
        BY <1>5 DEF IsDefine
      <3> QED
        BY <1>4, <2>2, <3>1 DEF NextVersion
    <2> QED
      BY <1>7, <2>1, <2>2, <2>3
  <1> QED
    BY <1>6, <1>8, <1>9

LEMMA HasInstancesReads ==
  ASSUME Inv, NEW c \in Client, HasInstancesByDefineID(c)
  PROVE  Reads(c)
  <1>1. PICK j, asked, objects : j = job[c] /\ asked = j.ids[j.id] /\ objects = {Row("uses", asked)}
    OBVIOUS
  <1>2. At(c, "uses")
    BY DEF HasInstancesByDefineID
  <1>3. Shaped(j) /\ j.pc = "uses" /\ TablesOK /\ (~j.overtaken => Relies(j, store, Now))
    BY <1>1, <1>2, Reader
  <1>4. ~j.overtaken => Asking(j, Now)
    BY <1>3 DEF Relies, Reading
  <1>5. CASE asked \in uses
    <2>1. Fail(c)
      BY <1>1, <1>5 DEF HasInstancesByDefineID
    <2> QED
      BY <1>2, <2>1, Failed
  <1>6. CASE asked \notin uses /\ MoreToAsk(j)
    <2>1. PICK i : i = WithId(j, j.id + 1)
      OBVIOUS
    <2>2. Proceed(c, i, objects)
      BY <1>1, <1>6, <2>1 DEF HasInstancesByDefineID, WithId
    <2>3. PICK k : k = Wider(i, objects)
      OBVIOUS
    <2>4. /\ Shaped(i) /\ k.pc = "uses" /\ k.id = j.id + 1 /\ k.ids = j.ids
          /\ k.read = j.read \union objects /\ k.overtaken = j.overtaken
      <3>1. /\ Shaped(i) /\ i.pc = j.pc /\ i.id = j.id + 1 /\ i.ids = j.ids
            /\ i.read = j.read /\ i.overtaken = j.overtaken
        BY <1>3, <2>1, HasId
      <3>2. /\ k.pc = i.pc /\ k.id = i.id /\ k.ids = i.ids
            /\ k.read = i.read \union objects /\ k.overtaken = i.overtaken
        BY <2>3, <3>1, Extended
      <3> QED
        BY <1>3, <3>1, <3>2
    <2>5. ASSUME ~k.overtaken PROVE Reading(k, Now)
      <3>1. Asking(j, Now)
        BY <1>4, <2>4, <2>5
      <3>2. Len(j.ids) = 2 /\ j.id = 1
        <4>1. j.id < Len(j.ids)
          BY <1>6 DEF MoreToAsk
        <4>2. ~(j.id = 1 /\ Len(j.ids) = 1) /\ ~(j.id = 2 /\ Len(j.ids) = 2)
          <5>1. \A a, b : a < b => ~(a = 1 /\ b = 1) /\ ~(a = 2 /\ b = 2)
            OBVIOUS
          <5> QED
            BY <4>1, <5>1
        <4> QED
          BY <3>1, <4>2 DEF Asking
      <3>3. Asking(k, Now)
        BY <1>1, <1>6, <2>4, <3>1, <3>2 DEF Asking, Asked, Now
      <3> QED
        BY <2>4, <3>3 DEF Reading
    <2> QED
      BY <1>2, <2>2, <2>3, <2>4, <2>5, GoesOnReading
  <1>7. CASE asked \notin uses /\ ~MoreToAsk(j)
    <2>1. PICK writes, k : /\ writes = [m \in DOMAIN j.ids |-> [kind |-> "RemoveDefine", id |-> j.ids[m]]]
                           /\ k = PlansWider(j, writes, objects)
      OBVIOUS
    <2>2. Proceed(c, Planning(j, writes), objects)
      BY <1>1, <1>7, <2>1 DEF HasInstancesByDefineID
    <2>3. k.plan = writes /\ k.read = j.read \union objects
      BY <1>3, <2>1, PlansWith
    <2>4. \A w : w = [kind |-> "RemoveDefine", id |-> asked] /\ asked # 0 => RemovesDefine(k, w, Now)
      BY <1>1, <1>7, <2>3 DEF RemovesDefine, Now
    <2>5. ASSUME ~j.overtaken, Len(j.ids) = 1 PROVE Planned(k, store, Now)
      <3>1. j.ids = <<j.ids[1]>> /\ j.id = 1 /\ \A m \in DOMAIN j.ids : j.ids[m] # 0
        BY <1>4, <2>5 DEF Asking
      <3>2. PICK a, w : a = j.ids[1] /\ j.ids = <<a>> /\ w = [kind |-> "RemoveDefine", id |-> a]
        BY <3>1
      <3>3. writes = <<w>> /\ asked = a /\ a # 0
        BY <1>1, <2>1, <3>1, <3>2
      <3> QED
        BY <2>3, <2>4, <3>2, <3>3, PlannedOne DEF Last
    <2>6. ASSUME ~j.overtaken, Len(j.ids) # 1 PROVE Planned(k, store, Now)
      <3>1. /\ Len(j.ids) = 2 /\ j.ids = <<j.ids[1], j.ids[2]>> /\ \A m \in DOMAIN j.ids : j.ids[m] # 0
            /\ j.id = 2 /\ Asked(j, j.ids[1], Now)
        BY <1>4, <1>7, <2>6 DEF Asking, MoreToAsk
      <3>2. PICK a, b, v, w : /\ a = j.ids[1] /\ b = j.ids[2] /\ j.ids = <<a, b>>
                              /\ v = [kind |-> "RemoveDefine", id |-> a] /\ w = [kind |-> "RemoveDefine", id |-> b]
        BY <3>1
      <3>3. writes = <<v, w>> /\ asked = b /\ a # 0 /\ b # 0
        BY <1>1, <2>1, <3>1, <3>2
      <3>4. RemovesDefine(k, w, Now)
        BY <2>4, <3>2, <3>3
      <3>5. RemovesDefine(k, v, Now)
        BY <2>3, <3>1, <3>2, <3>3 DEF RemovesDefine, Asked
      <3> QED
        BY <2>3, <3>3, <3>4, <3>5, PlannedTwo DEF Pair
    <2> QED
      BY <1>2, <1>3, <2>1, <2>2, <2>5, <2>6, GoesOnPlanned
  <1> QED
    BY <1>5, <1>6, <1>7

-----------------------------------------------------------------------------
(* Drawing ids. *)

\* The ids a table has given out only grow.
Later == NextOK' /\ \A table \in {"define", "design", "his"} : next[table] <= next'[table]

LEMMA Advanced ==
  ASSUME NextOK, NEW drawn, next' = Advance(drawn)
  PROVE  Later /\ \A table \in {"define", "design", "his"} :
                    (table \in drawn => next'[table] = next[table] + 1)
                    /\ (table \notin drawn => next'[table] = next[table])
  BY DEF NextOK, Advance, Later

\* Which write gets which id.
LEMMA NumberedKnown ==
  ASSUME NEW w, w.id # 0
  PROVE  Numbered(w) = w
  BY DEF Numbered

LEMMA NumberedRow ==
  ASSUME NEW w, WritesRow(w), w.id = 0, NEW table, NEW kind,
         \/ kind = "SaveDefine" /\ table = "define"
         \/ kind = "SaveDesign" /\ table = "design",
         w.kind = kind
  PROVE  TableOf(w) = table /\ Numbered(w) = RowWrite(kind, next[table], w.row)
  <1>1. TableOf(w) = table /\ table # "-" /\ table # "his"
    BY DEF TableOf
  <1>2. Numbered(w) = [w EXCEPT !.id = next[table]]
    BY <1>1 DEF Numbered
  <1> QED
    BY <1>1, <1>2 DEF WritesRow, RowWrite

LEMMA NumberedShot ==
  ASSUME NEW w, w.kind = "SaveDesignHis", WritesShot(w), w.id = 0,
         NEW d, d = IF w.design = 0 THEN next["design"] ELSE w.design
  PROVE  /\ TableOf(w) = "his"
         /\ Numbered(w) = [kind |-> "SaveDesignHis", id |-> next["his"], design |-> d, content |-> w.content]
  <1>1. TableOf(w) = "his"
    BY DEF TableOf
  <1>2. CASE w.design = 0
    <2>1. Numbered(w) = [w EXCEPT !.id = next["his"], !.design = next["design"]]
      BY <1>1, <1>2 DEF Numbered
    <2> QED
      BY <1>1, <1>2, <2>1 DEF WritesShot
  <1>3. CASE w.design # 0
    <2>1. Numbered(w) = [w EXCEPT !.id = next["his"]]
      BY <1>1, <1>3 DEF Numbered
    <2> QED
      BY <1>1, <1>3, <2>1 DEF WritesShot
  <1> QED
    BY <1>2, <1>3

\* The request j becomes k, which has drawn its ids; the rows stay as they are.
Drew(j, k) ==
  /\ k.read = j.read /\ k.op = j.op /\ ~Drawing(j, store) /\ Drawing(k, store)
  /\ UNCHANGED <<store, defines, designs, history, uses, published, disorder>>
  /\ TablesOK /\ Later

LEMMA DrewSame ==
  ASSUME NEW j, NEW k, Drew(j, k)
  PROVE  \A i : SameTo(i, Now, Now')
  BY DEF Drew, SameTo, SameDefines, SameDesigns, Named, Shots, Now, Later, TablesOK, NextOK

LEMMA DrewOld ==
  ASSUME NEW j, NEW k, Drew(j, k), NEW w
  PROVE  /\ ReplacesDefine(j, w, Now) => ReplacesDefine(k, Numbered(w), Now') /\ Numbered(w) = w
         /\ SwitchesDefine(j, w) => SwitchesDefine(k, Numbered(w))
         /\ RemovesDefine(j, w, Now) => RemovesDefine(k, Numbered(w), Now')
         /\ UsesDefine(j, w, Now) => UsesDefine(k, Numbered(w), Now')
         /\ RemovesDesign(w) => RemovesDesign(Numbered(w))
         /\ Unmarks(w) => Unmarks(Numbered(w)) /\ Numbered(w) = w
         /\ Keeps(j, w, Now) => Keeps(k, Numbered(w), Now')
         /\ \A content : Marks(j, w, content, Now) =>
              Marks(k, Numbered(w), content, Now') /\ LastShot(Now', w.id) = LastShot(Now, w.id) /\ Numbered(w) = w
  <1>1. SameTo(j, Now, Now') /\ k.read = j.read /\ k.op = j.op /\ ~Drawing(j, store)
    BY DrewSame DEF Drew
  <1>2. ReplacesDefine(j, w, Now) => ReplacesDefine(k, Numbered(w), Now') /\ Numbered(w) = w
    <2>1. ReplacesDefine(j, w, Now) => ReplacesDefine(j, w, Now')
      BY <1>1, DefineStays
    <2>2. ReplacesDefine(j, w, Now) => w.id # 0
      BY DEF ReplacesDefine
    <2> QED
      BY <1>1, <2>1, <2>2, NumberedKnown DEF ReplacesDefine
  <1>3. SwitchesDefine(j, w) => SwitchesDefine(k, Numbered(w))
    BY <1>1, NumberedKnown DEF SwitchesDefine
  <1>4. RemovesDefine(j, w, Now) => RemovesDefine(k, Numbered(w), Now')
    BY <1>1, DefineStays, NumberedKnown DEF RemovesDefine
  <1>5. UsesDefine(j, w, Now) => UsesDefine(k, Numbered(w), Now')
    BY <1>1, DefineStays, NumberedKnown DEF UsesDefine
  <1>6. /\ RemovesDesign(w) => RemovesDesign(Numbered(w))
        /\ Unmarks(w) => Unmarks(Numbered(w)) /\ Numbered(w) = w
    BY NumberedKnown DEF RemovesDesign, Unmarks, WritesDesign
  <1>7. Keeps(j, w, Now) => Keeps(k, Numbered(w), Now')
    <2>1. Keeps(j, w, Now) => Keeps(j, w, Now')
      BY <1>1, DesignStays
    <2>2. Keeps(j, w, Now) => w.id # 0
      BY DEF Keeps, WritesDesign
    <2> QED
      BY <1>1, <2>1, <2>2, NumberedKnown DEF Keeps, OnDesign
  <1>8. ASSUME NEW content, Marks(j, w, content, Now)
        PROVE  /\ Marks(k, Numbered(w), content, Now') /\ LastShot(Now', w.id) = LastShot(Now, w.id)
               /\ Numbered(w) = w
    <2>1. Marks(j, w, content, Now') /\ LastShot(Now', w.id) = LastShot(Now, w.id) /\ w.id # 0
      BY <1>1, <1>8, MarksStays DEF Marks, WritesDesign
    <2> QED
      BY <1>1, <2>1, NumberedKnown DEF Marks, OnDesign, Shows
  <1> QED
    BY <1>2, <1>3, <1>4, <1>5, <1>6, <1>7, <1>8

LEMMA DrewNew ==
  ASSUME NEW j, NEW k, Drew(j, k), NEW w
  PROVE  /\ AddsDefine(j, w, store, Now) /\ next'["define"] = next["define"] + 1 =>
              AddsDefine(k, Numbered(w), store, Now') /\ Numbered(w).row = w.row
         /\ AddsDesign(j, w, store, Now) /\ next'["design"] = next["design"] + 1 =>
              AddsDesign(k, Numbered(w), store, Now') /\ Numbered(w).id = next["design"]
         /\ AddsShot(j, w, store, Now) /\ next'["his"] = next["his"] + 1 =>
              AddsShot(k, Numbered(w), store, Now') /\ Numbered(w).design = w.design
         /\ \A v : FirstShot(j, v, w, store, Now) /\ v.id = 0 /\ next'["his"] = next["his"] + 1 =>
              \A u : u.id = next["design"] => FirstShot(k, u, Numbered(w), store, Now')
  <1>1. /\ k.read = j.read /\ ~Drawing(j, store) /\ Drawing(k, store) /\ TablesOK
        /\ UNCHANGED <<defines, designs, history, disorder>>
    BY DEF Drew
  <1>2. NextOK /\ DefinesOK /\ HistoryOK
    BY <1>1 DEF TablesOK
  <1>3. Now.next = next /\ Now'.next = next' /\ Now'.defines = defines /\ Now'.history = history
        /\ Now.defines = defines /\ Now.history = history /\ Now.disorder = disorder /\ Now'.disorder = disorder
    BY <1>1 DEF Now
  <1>4. ASSUME AddsDefine(j, w, store, Now), next'["define"] = next["define"] + 1
        PROVE  AddsDefine(k, Numbered(w), store, Now') /\ Numbered(w).row = w.row
    <2>1. w.id = 0 /\ w.kind = "SaveDefine" /\ WritesRow(w) /\ IsDefine(w.row)
      BY <1>1, <1>4 DEF AddsDefine, NewId
    <2>2. PICK u : u = Numbered(w) /\ u = RowWrite("SaveDefine", next["define"], w.row)
      BY <2>1, NumberedRow
    <2>3. u.kind = "SaveDefine" /\ u.id = next["define"] /\ u.row = w.row /\ WritesRow(u)
      BY <2>2 DEF RowWrite, WritesRow
    <2>4. NewId(k, store, Now', "define", u.id, DOMAIN Now'.defines)
      BY <1>1, <1>2, <1>3, <1>4, <2>3 DEF NewId, NextOK, DefinesOK
    <2>5. AddsDefine(k, u, store, Now')
      BY <1>1, <1>3, <1>4, <2>1, <2>3, <2>4 DEF AddsDefine, Named
    <2> QED
      BY <2>2, <2>3, <2>5
  <1>5. ASSUME AddsDesign(j, w, store, Now), next'["design"] = next["design"] + 1
        PROVE  AddsDesign(k, Numbered(w), store, Now') /\ Numbered(w).id = next["design"]
    <2>1. w.id = 0 /\ w.kind = "SaveDesign" /\ WritesRow(w) /\ IsDesign(w.row) /\ w.row.deployed = 0
      BY <1>1, <1>5 DEF AddsDesign, NewId
    <2>2. PICK u : u = Numbered(w) /\ u = RowWrite("SaveDesign", next["design"], w.row)
      BY <2>1, NumberedRow
    <2>3. u.kind = "SaveDesign" /\ u.id = next["design"] /\ u.row = w.row /\ WritesRow(u)
      BY <2>2 DEF RowWrite, WritesRow
    <2>4. NewId(k, store, Now', "design", u.id, {})
      BY <1>1, <1>2, <1>3, <1>5, <2>3 DEF NewId, NextOK
    <2>5. AddsDesign(k, u, store, Now')
      BY <2>1, <2>3, <2>4 DEF AddsDesign
    <2> QED
      BY <2>2, <2>3, <2>5
  <1>6. ASSUME w.kind = "SaveDesignHis", WritesShot(w), NewId(j, store, Now, "his", w.id, {h.id : h \in history}),
               next'["his"] = next["his"] + 1
        PROVE  \A d : d = (IF w.design = 0 THEN next["design"] ELSE w.design) =>
                 /\ Numbered(w).kind = "SaveDesignHis" /\ WritesShot(Numbered(w)) /\ Numbered(w).design = d
                 /\ NewId(k, store, Now', "his", Numbered(w).id, {h.id : h \in history})
    <2> SUFFICES ASSUME NEW d, d = IF w.design = 0 THEN next["design"] ELSE w.design
                 PROVE  /\ Numbered(w).kind = "SaveDesignHis" /\ WritesShot(Numbered(w)) /\ Numbered(w).design = d
                        /\ NewId(k, store, Now', "his", Numbered(w).id, {h.id : h \in history})
      OBVIOUS
    <2>1. w.id = 0
      BY <1>1, <1>6 DEF NewId
    <2>2. PICK u : /\ u = Numbered(w)
                   /\ u = [kind |-> "SaveDesignHis", id |-> next["his"], design |-> d, content |-> w.content]
      BY <1>6, <2>1, NumberedShot
    <2>3. u.kind = "SaveDesignHis" /\ u.id = next["his"] /\ u.design = d /\ WritesShot(u)
      BY <2>2 DEF WritesShot
    <2>4. NewId(k, store, Now', "his", u.id, {h.id : h \in history})
      BY <1>1, <1>2, <1>3, <1>6, <2>3 DEF NewId, NextOK, HistoryOK
    <2> QED
      BY <2>2, <2>3, <2>4
  <1>7. ASSUME AddsShot(j, w, store, Now), next'["his"] = next["his"] + 1
        PROVE  AddsShot(k, Numbered(w), store, Now') /\ Numbered(w).design = w.design
    BY <1>3, <1>6, <1>7 DEF AddsShot
  <1>8. ASSUME NEW v, FirstShot(j, v, w, store, Now), v.id = 0, next'["his"] = next["his"] + 1,
               NEW u, u.id = next["design"]
        PROVE  FirstShot(k, u, Numbered(w), store, Now')
    BY <1>3, <1>6, <1>8 DEF FirstShot
  <1> QED
    BY <1>4, <1>5, <1>7, <1>8

LEMMA DrawsFor ==
  ASSUME NEW j, NEW k, Drew(j, k), next' = Advance(Drawn(j.plan)), NEW l \in DOMAIN j.plan,
         NEW w, w = j.plan[l]
  PROVE  /\ AddsDefine(j, w, store, Now) => next'["define"] = next["define"] + 1
         /\ AddsDesign(j, w, store, Now) => next'["design"] = next["design"] + 1 /\ w.id = 0
         /\ AddsShot(j, w, store, Now) => next'["his"] = next["his"] + 1
         /\ \A v : FirstShot(j, v, w, store, Now) => next'["his"] = next["his"] + 1
  <1>1. NextOK /\ ~Drawing(j, store)
    BY DEF Drew, TablesOK
  <1>2. w.id = 0 => TableOf(w) \in Drawn(j.plan)
    BY DEF Drawn
  <1>3. \A table \in {"define", "design", "his"} :
          w.id = 0 /\ TableOf(w) = table => next'[table] = next[table] + 1
    BY <1>1, <1>2, Advanced
  <1>4. /\ AddsDefine(j, w, store, Now) => w.id = 0 /\ TableOf(w) = "define"
        /\ AddsDesign(j, w, store, Now) => w.id = 0 /\ TableOf(w) = "design"
        /\ AddsShot(j, w, store, Now) => w.id = 0 /\ TableOf(w) = "his"
        /\ \A v : FirstShot(j, v, w, store, Now) => w.id = 0 /\ TableOf(w) = "his"
    BY <1>1 DEF AddsDefine, AddsDesign, AddsShot, FirstShot, NewId, TableOf
  <1> QED
    BY <1>3, <1>4

LEMMA DrawsLast ==
  ASSUME NEW j, NEW k, Drew(j, k), next' = Advance(Drawn(j.plan)), NEW w, j.plan = <<w>>,
         Last(j, w, store, Now)
  PROVE  Last(k, Numbered(w), store, Now')
  <1>1. 1 \in DOMAIN j.plan /\ w = j.plan[1]
    OBVIOUS
  <1>2. Now'.published = Now.published
    BY DEF Drew, Now
  <1>3. CASE AddsDefine(j, w, store, Now)
    BY <1>1, <1>3, DrawsFor, DrewNew DEF Last
  <1>4. CASE AddsDesign(j, w, store, Now)
    BY <1>1, <1>4, DrawsFor, DrewNew DEF Last
  <1>5. CASE AddsShot(j, w, store, Now) /\ Unmarked(j, w.design, Now)
    <2>1. AddsShot(k, Numbered(w), store, Now') /\ Numbered(w).design = w.design
      BY <1>1, <1>5, DrawsFor, DrewNew
    <2>2. Unmarked(k, w.design, Now')
      BY <1>5 DEF Unmarked, Drew, Now
    <2> QED
      BY <2>1, <2>2 DEF Last
  <1>6. CASE Marks(j, w, LastShot(Now, w.id).content, Now) /\ LastShot(Now, w.id).content \in Now.published
    <2>1. /\ Marks(k, Numbered(w), LastShot(Now, w.id).content, Now')
          /\ LastShot(Now', w.id) = LastShot(Now, w.id) /\ Numbered(w) = w
      BY <1>6, DrewOld
    <2> QED
      BY <1>2, <1>6, <2>1 DEF Last
  <1>7. CASE \/ ReplacesDefine(j, w, Now) \/ SwitchesDefine(j, w) \/ RemovesDefine(j, w, Now)
             \/ UsesDefine(j, w, Now) \/ RemovesDesign(w) \/ Unmarks(w) \/ Keeps(j, w, Now)
    BY <1>7, DrewOld DEF Last
  <1> QED
    BY <1>3, <1>4, <1>5, <1>6, <1>7 DEF Last

LEMMA DrawsPair ==
  ASSUME NEW j, NEW k, Drew(j, k), next' = Advance(Drawn(j.plan)), NEW v, NEW w, j.plan = <<v, w>>,
         Pair(j, v, w, store, Now)
  PROVE  Pair(k, Numbered(v), Numbered(w), store, Now')
  <1>1. 1 \in DOMAIN j.plan /\ v = j.plan[1] /\ 2 \in DOMAIN j.plan /\ w = j.plan[2]
    OBVIOUS
  <1>2. CASE AddsDefine(j, v, store, Now) /\ Marks(j, w, v.row.content, Now)
    <2>1. AddsDefine(k, Numbered(v), store, Now') /\ Numbered(v).row = v.row
      BY <1>1, <1>2, DrawsFor, DrewNew
    <2>2. Marks(k, Numbered(w), v.row.content, Now')
      BY <1>2, DrewOld
    <2> QED
      BY <2>1, <2>2 DEF Pair
  <1>3. CASE ReplacesDefine(j, v, Now) /\ v.id \in DOMAIN Now.defines /\ Marks(j, w, v.row.content, Now)
    <2>1. ReplacesDefine(k, Numbered(v), Now') /\ Numbered(v) = v
      BY <1>3, DrewOld
    <2>2. Marks(k, Numbered(w), v.row.content, Now')
      BY <1>3, DrewOld
    <2>3. v.id \in DOMAIN Now'.defines
      BY <1>3 DEF Drew, Now
    <2> QED
      BY <2>1, <2>2, <2>3 DEF Pair
  <1>4. CASE SwitchesDefine(j, v) /\ SwitchesDefine(j, w)
    BY <1>4, DrewOld DEF Pair
  <1>5. CASE RemovesDefine(j, v, Now) /\ RemovesDefine(j, w, Now)
    BY <1>5, DrewOld DEF Pair
  <1>6. CASE RemovesDesign(v) /\ RemovesDesign(w)
    BY <1>6, DrewOld DEF Pair
  <1>7. CASE AddsDesign(j, v, store, Now) /\ FirstShot(j, v, w, store, Now)
    <2>1. AddsDesign(k, Numbered(v), store, Now') /\ Numbered(v).id = next["design"] /\ v.id = 0
      BY <1>1, <1>7, DrawsFor, DrewNew
    <2>2. next'["his"] = next["his"] + 1
      BY <1>1, <1>7, DrawsFor
    <2>3. FirstShot(k, Numbered(v), Numbered(w), store, Now')
      BY <1>7, <2>1, <2>2, DrewNew
    <2> QED
      BY <2>1, <2>3 DEF Pair
  <1>8. CASE Unmarks(v) /\ AddsShot(j, w, store, Now) /\ w.design = v.id
    <2>1. AddsShot(k, Numbered(w), store, Now') /\ Numbered(w).design = w.design
      BY <1>1, <1>8, DrawsFor, DrewNew
    <2>2. Unmarks(Numbered(v)) /\ Numbered(v) = v
      BY <1>8, DrewOld
    <2> QED
      BY <1>8, <2>1, <2>2 DEF Pair
  <1>9. CASE AddsShot(j, v, store, Now) /\ Unmarks(w) /\ v.design = w.id
    <2>1. AddsShot(k, Numbered(v), store, Now') /\ Numbered(v).design = v.design
      BY <1>1, <1>9, DrawsFor, DrewNew
    <2>2. Unmarks(Numbered(w)) /\ Numbered(w) = w
      BY <1>9, DrewOld
    <2> QED
      BY <1>9, <2>1, <2>2 DEF Pair
  <1> QED
    BY <1>2, <1>3, <1>4, <1>5, <1>6, <1>7, <1>8, <1>9 DEF Pair

LEMMA DrawsPlanned ==
  ASSUME NEW j, NEW k, Drew(j, k), next' = Advance(Drawn(j.plan)), Planned(j, store, Now),
         k.plan = [l \in DOMAIN j.plan |-> Numbered(j.plan[l])]
  PROVE  Planned(k, store, Now')
  <1>1. CASE Len(j.plan) = 1 /\ j.plan = <<j.plan[1]>> /\ Last(j, j.plan[1], store, Now)
    <2>1. PICK w : j.plan = <<w>> /\ Last(j, w, store, Now)
      BY <1>1
    <2>2. k.plan = <<Numbered(w)>>
      BY <2>1
    <2> QED
      BY <2>1, <2>2, DrawsLast, PlannedOne
  <1>2. CASE Len(j.plan) = 2 /\ j.plan = <<j.plan[1], j.plan[2]>> /\ Pair(j, j.plan[1], j.plan[2], store, Now)
    <2>1. PICK v, w : j.plan = <<v, w>> /\ Pair(j, v, w, store, Now)
      BY <1>2
    <2>2. k.plan = <<Numbered(v), Numbered(w)>>
      BY <2>1
    <2> QED
      BY <2>1, <2>2, DrawsPair, PlannedTwo
  <1> QED
    BY <1>1, <1>2 DEF Planned

LEMMA DrawIdsKeeps ==
  ASSUME Inv, NEW c \in Client, DrawIds(c)
  PROVE  Inv'
  <1>1. PICK j, plan : j = job[c] /\ plan = [l \in DOMAIN j.plan |-> Numbered(j.plan[l])]
    OBVIOUS
  <1>2. /\ j.pc = "number" /\ Quiet(c) /\ next' = Advance(Drawn(j.plan))
        /\ UNCHANGED <<store, defines, designs, history, uses, published, disorder>>
    BY <1>1 DEF DrawIds, At
  <1>3. Shaped(j) /\ (~j.overtaken => Relies(j, store, Now)) /\ TablesOK
    BY <1>1 DEF Inv, JobOK
  <1>4. PICK k : k = [[j EXCEPT !.pc = "write"] EXCEPT !.plan = plan]
    OBVIOUS
  <1>5. Shaped(k) /\ k.op = j.op /\ k.pc = "write" /\ k.plan = plan /\ k.read = j.read /\ k.overtaken = j.overtaken
    <2>1. PICK b : b = j.overtaken /\ b \in BOOLEAN
      BY <1>3 DEF Shaped
    <2>2. PICK l : l = [op |-> j.op, pc |-> "write", id |-> j.id, arg |-> j.arg, ids |-> j.ids, row |-> j.row,
                        content |-> j.content, plan |-> j.plan, read |-> j.read, overtaken |-> b]
      OBVIOUS
    <2>3. l = [j EXCEPT !.pc = "write"]
      BY <1>3, <2>1, <2>2 DEF Shaped
    <2>4. k = [op |-> j.op, pc |-> "write", id |-> j.id, arg |-> j.arg, ids |-> j.ids, row |-> j.row,
               content |-> j.content, plan |-> plan, read |-> j.read, overtaken |-> b]
      <3>1. k = [l EXCEPT !.plan = plan]
        BY <1>4, <2>3
      <3> QED
        BY <2>2, <3>1
    <2> QED
      BY <2>1, <2>4 DEF Shaped
  <1>6. job' = [d \in Client |-> IF d = c THEN k ELSE job[d]]
    <2>1. job' = [job EXCEPT ![c] = k]
      BY <1>1, <1>4 DEF DrawIds
    <2> QED
      BY <2>1 DEF Inv
  <1>7. Later
    BY <1>2, <1>3, Advanced DEF TablesOK
  <1>8. \A i : SameTo(i, Now, Now')
    BY <1>2, <1>3, <1>7 DEF SameTo, SameDefines, SameDesigns, Named, Shots, Now, Later, TablesOK, NextOK
  <1>9. ASSUME ~k.overtaken PROVE Relies(k, store, Now')
    <2>1. store = "jdbc" /\ Planned(j, store, Now)
      BY <1>2, <1>3, <1>5, <1>9 DEF Relies
    <2>2. Drew(j, k)
      BY <1>2, <1>3, <1>5, <1>7, <2>1 DEF Drew, Drawing
    <2>3. Planned(k, store, Now')
      BY <1>1, <1>2, <1>5, <2>1, <2>2, DrawsPlanned
    <2> QED
      BY <1>5, <2>3 DEF Relies, Reading, Steps
  <1>10. ASSUME NEW d \in Client PROVE JobOK(job'[d], store, Now')
    <2>1. CASE d = c
      BY <1>5, <1>6, <1>9, <2>1 DEF JobOK
    <2>2. CASE d # c
      <3>1. job'[d] = job[d] /\ ~Drawing(job[d], store)
        BY <1>2, <1>6, <2>2 DEF Quiet, Drawing
      <3>2. JobOK(job[d], store, Now)
        BY DEF Inv
      <3> QED
        BY <1>8, <3>1, <3>2, ReliesStays DEF JobOK
    <2> QED
      BY <2>1, <2>2
  <1>11. \A d : Justified(Now, d) => Justified(Now', d)
    BY <1>2 DEF Justified, Shots, LastShot, Now
  <1>12. MarksOK'
    <2> SUFFICES ASSUME NEW d \in DOMAIN designs, designs[d].deployed = 1, ~Justified(Now, d)
                 PROVE  \E e \in Client : Clearing(job'[e], d)
      BY <1>2, <1>11 DEF MarksOK
    <2>1. PICK e \in Client : Clearing(job[e], d)
      BY <1>3 DEF TablesOK, MarksOK
    <2>2. e # c
      BY <1>1, <1>2, <2>1 DEF Clearing
    <2> QED
      BY <1>6, <2>1, <2>2
  <1>13. DefinesOK' /\ DesignsOK' /\ HistoryOK' /\ (uses \subseteq DOMAIN defines)' /\ InOrder'
    <2>1. DesignsOK' /\ (uses \subseteq DOMAIN defines)' /\ InOrder'
      BY <1>2, <1>3 DEF TablesOK, DesignsOK, InOrder
    <2>2. DefinesOK'
      BY <1>2, <1>3, <1>7 DEF TablesOK, DefinesOK, Later, NextOK
    <2>3. HistoryOK'
      BY <1>2, <1>3, <1>7 DEF TablesOK, HistoryOK, Later, NextOK
    <2> QED
      BY <2>1, <2>2, <2>3
  <1>14. TablesOK'
    BY <1>2, <1>3, <1>7, <1>12, <1>13 DEF TablesOK, Later
  <1>15. OneWriter'
    <2> SUFFICES ASSUME store = "jdbc", NEW d \in Client, NEW e \in Client,
                        job'[d].pc = "write", job'[e].pc = "write"
                 PROVE  d = e
      BY <1>2 DEF OneWriter
    <2>1. \A f \in Client \ {c} : job'[f].pc # "write"
      BY <1>2, <1>6 DEF Quiet
    <2> QED
      BY <2>1
  <1> QED
    BY <1>2, <1>6, <1>10, <1>14, <1>15 DEF Inv

-----------------------------------------------------------------------------
(* What each write does to the tables. *)

LEMMA SaveDefineDoes ==
  ASSUME NEW w, w.kind = "SaveDefine", IsDefine(w.row), NEW t, t = Apply(Tables, w)
  PROVE  /\ t.designs = designs /\ t.history = history /\ t.uses = uses
         /\ \E r : /\ IsDefine(r) /\ r.name = w.row.name /\ r.content = w.row.content
                   /\ w.row.version <= r.version /\ t.defines = Put(defines, w.id, r)
  <1>1. PICK r : r = IF store = "jdbc" /\ w.row.version = 0 THEN [w.row EXCEPT !.version = 1] ELSE w.row
    OBVIOUS
  <1>2. IsDefine(r) /\ r.name = w.row.name /\ r.content = w.row.content /\ w.row.version <= r.version
    <2>1. CASE store = "jdbc" /\ w.row.version = 0
      <3>1. PICK q : q = [name |-> w.row.name, content |-> w.row.content, version |-> 1, state |-> w.row.state]
        OBVIOUS
      <3>2. q = r
        BY <1>1, <2>1, <3>1 DEF IsDefine
      <3>3. IsDefine(q) /\ q.version = 1 /\ q.name = w.row.name /\ q.content = w.row.content
        BY <3>1 DEF IsDefine
      <3> QED
        BY <2>1, <3>2, <3>3
    <2>2. CASE ~(store = "jdbc" /\ w.row.version = 0)
      <3>1. r = w.row
        BY <1>1, <2>2
      <3> QED
        BY <3>1 DEF IsDefine
    <2> QED
      BY <2>1, <2>2
  <1>3. t = SaveDefine(Tables, w)
    BY DEF Apply
  <1>4. t = [Tables EXCEPT !.defines = Put(@, w.id, r)]
    BY <1>1, <1>3 DEF SaveDefine
  <1>5. t.designs = designs /\ t.history = history /\ t.uses = uses /\ t.defines = Put(defines, w.id, r)
    BY <1>4 DEF Tables
  <1> QED
    BY <1>2, <1>5

LEMMA UpdateDefineDoes ==
  ASSUME NEW w, w.kind = "UpdateDefine", NEW t, t = Apply(Tables, w)
  PROVE  /\ t.designs = designs /\ t.history = history /\ t.uses = uses
         /\ t.defines = Overwrite(defines, w.id, w.row)
  <1>1. t = UpdateDefine(Tables, w)
    BY DEF Apply
  <1> QED
    BY <1>1 DEF UpdateDefine, Tables

LEMMA UpdateDefineStateDoes ==
  ASSUME NEW w, w.kind = "UpdateDefineState", NEW t, t = Apply(Tables, w), DefinesOK
  PROVE  /\ t.designs = designs /\ t.history = history /\ t.uses = uses
         /\ DOMAIN t.defines = DOMAIN defines /\ Tabled(t.defines)
         /\ \A i \in DOMAIN defines \ {w.id} : t.defines[i] = defines[i]
         /\ w.id \in DOMAIN defines =>
              /\ t.defines[w.id].name = defines[w.id].name /\ IsDefine(t.defines[w.id])
              /\ t.defines[w.id].version = defines[w.id].version
  <1>1. t = UpdateDefineState(Tables, w)
    BY DEF Apply
  <1>2. CASE w.id \in DOMAIN defines
    <2>1. PICK old, r : old = defines[w.id] /\ r = [old EXCEPT !.state = w.state]
      OBVIOUS
    <2>2. t = [Tables EXCEPT !.defines = [@ EXCEPT ![w.id] = r]]
      BY <1>1, <1>2, <2>1 DEF UpdateDefineState, Tables
    <2>3. /\ t.designs = designs /\ t.history = history /\ t.uses = uses
          /\ t.defines = [defines EXCEPT ![w.id] = r]
      BY <2>2 DEF Tables
    <2>4. IsDefine(old)
      BY <1>2, <2>1 DEF DefinesOK
    <2>5. PICK q : q = [name |-> old.name, content |-> old.content, version |-> old.version, state |-> w.state]
      OBVIOUS
    <2>6. q = r /\ IsDefine(q) /\ q.name = old.name /\ q.version = old.version
      BY <2>1, <2>4, <2>5 DEF IsDefine
    <2>7. t.defines = [i \in DOMAIN defines |-> IF i = w.id THEN r ELSE defines[i]]
      BY <2>3 DEF DefinesOK, Tabled
    <2> QED
      BY <1>2, <2>1, <2>3, <2>6, <2>7 DEF Tabled
  <1>3. CASE w.id \notin DOMAIN defines
    <2>1. t = Tables
      BY <1>1, <1>3 DEF UpdateDefineState, Tables
    <2> QED
      BY <1>3, <2>1 DEF Tables, DefinesOK
  <1> QED
    BY <1>2, <1>3

LEMMA RemoveDefineDoes ==
  ASSUME NEW w, w.kind = "RemoveDefine", NEW t, t = Apply(Tables, w)
  PROVE  /\ t.designs = designs /\ t.history = history /\ t.uses = uses
         /\ t.defines = [i \in DOMAIN defines \ {w.id} |-> defines[i]]
  <1>1. t = RemoveDefine(Tables, w)
    BY DEF Apply
  <1> QED
    BY <1>1 DEF RemoveDefine, Tables, Restrict

LEMMA SaveInstanceDoes ==
  ASSUME NEW w, w.kind = "SaveInstance", NEW t, t = Apply(Tables, w)
  PROVE  /\ t.defines = defines /\ t.designs = designs /\ t.history = history
         /\ t.uses = uses \union {w.id}
  <1>1. t = SaveInstance(Tables, w)
    BY DEF Apply
  <1> QED
    BY <1>1 DEF SaveInstance, Tables

LEMMA SaveDesignDoes ==
  ASSUME NEW w, w.kind = "SaveDesign", NEW t, t = Apply(Tables, w)
  PROVE  /\ t.defines = defines /\ t.history = history /\ t.uses = uses
         /\ t.designs = Put(designs, w.id, w.row)
  <1>1. t = SaveDesign(Tables, w)
    BY DEF Apply
  <1> QED
    BY <1>1 DEF SaveDesign, Tables

LEMMA UpdateDesignDoes ==
  ASSUME NEW w, w.kind = "UpdateDesign", NEW t, t = Apply(Tables, w)
  PROVE  /\ t.defines = defines /\ t.history = history /\ t.uses = uses
         /\ t.designs = Overwrite(designs, w.id, w.row)
  <1>1. t = UpdateDesign(Tables, w)
    BY DEF Apply
  <1> QED
    BY <1>1 DEF UpdateDesign, Tables

LEMMA SaveDesignHisDoes ==
  ASSUME NEW w, w.kind = "SaveDesignHis", NEW t, t = Apply(Tables, w)
  PROVE  /\ t.defines = defines /\ t.designs = designs /\ t.uses = uses
         /\ t.history = history \union {[id |-> w.id, design |-> w.design, content |-> w.content]}
  <1>1. t = SaveDesignHis(Tables, w)
    BY DEF Apply
  <1> QED
    BY <1>1 DEF SaveDesignHis, Tables

LEMMA RemoveDesignDoes ==
  ASSUME NEW w, w.kind = "RemoveDesign", NEW t, t = Apply(Tables, w)
  PROVE  /\ t.defines = defines /\ t.uses = uses
         /\ t.designs = [d \in DOMAIN designs \ {w.id} |-> designs[d]]
         /\ t.history = {h \in history : h.design # w.id}
  <1>1. t = RemoveDesign(Tables, w)
    BY DEF Apply
  <1>2. PICK f, g : f = Restrict(designs, DOMAIN designs \ {w.id}) /\ g = {h \in history : h.design # w.id}
    OBVIOUS
  <1>3. t = [[Tables EXCEPT !.designs = f] EXCEPT !.history = g]
    BY <1>1, <1>2 DEF RemoveDesign, Tables
  <1>4. t = [defines |-> defines, designs |-> f, history |-> g, uses |-> uses]
    BY <1>3 DEF Tables
  <1> QED
    BY <1>2, <1>4 DEF Restrict

-----------------------------------------------------------------------------
(* The tables stay in order, and who has not read what a write changes is    *)
(* left alone.                                                               *)

Stored(w) ==
  /\ \E t : /\ t = Apply(Tables, w) /\ defines' = t.defines /\ designs' = t.designs
            /\ history' = t.history /\ uses' = t.uses
  /\ published \subseteq published' /\ disorder \subseteq disorder' /\ store' = store
  /\ TablesOK /\ Later

Done(w) ==
  /\ DefinesOK' /\ DesignsOK' /\ HistoryOK' /\ (uses \subseteq DOMAIN defines)' /\ InOrder'
  /\ \A j : j.read \intersect Changes(w) = {} => SameTo(j, Now, Now')

LEMMA SameUnless ==
  ASSUME NEW w, Stored(w), NEW j, SameDefines(j, Now, Now'), SameDesigns(j, Now, Now'),
         \A i : Row("uses", i) \in j.read => (i \in uses' <=> i \in uses)
  PROVE  SameTo(j, Now, Now')
  BY DEF Stored, SameTo, Now, Later, TablesOK, NextOK

LEMMA SameDefinesUnless ==
  ASSUME NEW w, NEW j, Row("define", w.id) \notin j.read,
         \A i : i # w.id => /\ i \in DOMAIN defines' <=> i \in DOMAIN defines
                            /\ i \in DOMAIN defines => defines'[i] = defines[i],
         \A n : NameRow(n) \in j.read =>
           /\ w.id \in DOMAIN defines => defines[w.id].name # n
           /\ w.id \in DOMAIN defines' => defines'[w.id].name # n
  PROVE  SameDefines(j, Now, Now')
  <1>1. \A i : Row("define", i) \in j.read => i # w.id
    OBVIOUS
  <1>2. ASSUME NEW n, NameRow(n) \in j.read
        PROVE  Named(Now', n) = Named(Now, n) /\ \A i \in Named(Now, n) : defines'[i] = defines[i]
    <2>1. w.id \notin Named(Now, n) /\ w.id \notin Named(Now', n)
      BY <1>2 DEF Named, Now
    <2> QED
      BY <2>1 DEF Named, Now
  <1> QED
    BY <1>1, <1>2 DEF SameDefines, Now

LEMMA SameDesignsAlways ==
  ASSUME designs' = designs, history' = history, NEW j
  PROVE  SameDesigns(j, Now, Now')
  BY DEF SameDesigns, Shots, Now

LEMMA SameDefinesAlways ==
  ASSUME defines' = defines, NEW j
  PROVE  SameDefines(j, Now, Now')
  BY DEF SameDefines, Named, Now

\* What is left alone by a write to the definitions, and to the designs.
LEMMA DesignsAlone ==
  ASSUME NEW w, Stored(w), designs' = designs, history' = history
  PROVE  DesignsOK' /\ HistoryOK'
  <1>1. DesignsOK'
    BY DEF Stored, TablesOK, DesignsOK
  <1>2. HistoryOK'
    BY DEF Stored, TablesOK, HistoryOK, Later, NextOK
  <1> QED
    BY <1>1, <1>2

LEMMA DefinesAlone ==
  ASSUME NEW w, Stored(w), defines' = defines
  PROVE  DefinesOK' /\ InOrder'
  <1>1. DefinesOK'
    BY DEF Stored, TablesOK, DefinesOK, Later, NextOK
  <1>2. InOrder'
    BY DEF Stored, TablesOK, InOrder
  <1> QED
    BY <1>1, <1>2

LEMMA SaveDefineDone ==
  ASSUME NEW w, Stored(w), w.kind = "SaveDefine", IsDefine(w.row), w.id \in Nat \ {0}, w.id < next'["define"],
         \A i \in DOMAIN defines : i < w.id,
         disorder = {} => \A i \in Rows(w.row.name) : defines[i].version < w.row.version
  PROVE  /\ Done(w) /\ designs' = designs /\ history' = history
         /\ w.id \in DOMAIN defines' /\ defines'[w.id].content = w.row.content
  <1>1. TablesOK /\ Later /\ disorder \subseteq disorder' /\ NextOK /\ DefinesOK
    BY DEF Stored, TablesOK
  <1>2. PICK r : /\ IsDefine(r) /\ r.name = w.row.name /\ r.content = w.row.content
                 /\ w.row.version <= r.version /\ defines' = Put(defines, w.id, r)
                 /\ designs' = designs /\ history' = history /\ uses' = uses
    BY SaveDefineDoes DEF Stored
  <1>3. /\ DOMAIN defines' = DOMAIN defines \union {w.id} /\ defines'[w.id] = r /\ Tabled(defines')
        /\ \A i \in DOMAIN defines : i # w.id /\ defines'[i] = defines[i]
    <2>1. \A i \in DOMAIN defines : i # w.id
      BY <1>1 DEF DefinesOK
    <2> QED
      BY <1>2, <2>1 DEF Put, Tabled
  <1>4. DefinesOK'
    BY <1>1, <1>2, <1>3 DEF DefinesOK, Later, NextOK
  <1>5. InOrder'
    <2> SUFFICES ASSUME disorder' = {}, NEW i \in DOMAIN defines', NEW j \in DOMAIN defines',
                        defines'[i].name = defines'[j].name, i < j
                 PROVE  defines'[i].version < defines'[j].version
      BY DEF InOrder
    <2>1. disorder = {}
      BY <1>1
    <2>2. CASE i \in DOMAIN defines /\ j \in DOMAIN defines
      BY <1>1, <1>3, <2>1, <2>2 DEF TablesOK, InOrder
    <2>3. CASE i \in DOMAIN defines /\ j = w.id
      <3>1. defines[i].version < w.row.version
        BY <1>2, <1>3, <2>1, <2>3 DEF Rows
      <3>2. defines[i].version \in Nat /\ w.row.version \in Nat /\ r.version \in Nat
        BY <1>1, <1>2, <2>3 DEF DefinesOK, IsDefine
      <3> QED
        BY <1>2, <1>3, <2>3, <3>1, <3>2
    <2>4. CASE i = w.id
      <3>1. j \in Nat /\ i \in Nat /\ (j = w.id \/ j < i)
        BY <1>1, <1>3, <2>4 DEF DefinesOK
      <3> QED
        BY <2>4, <3>1
    <2> QED
      BY <1>3, <2>2, <2>3, <2>4
  <1>6. ASSUME NEW j, j.read \intersect Changes(w) = {} PROVE SameTo(j, Now, Now')
    <2>1. Row("define", w.id) \notin j.read /\ NameRow(w.row.name) \notin j.read
      BY <1>6 DEF Changes
    <2>2. SameDefines(j, Now, Now')
      BY <1>2, <1>3, <2>1, SameDefinesUnless
    <2> QED
      BY <1>2, <2>2, SameDesignsAlways, SameUnless
  <1>7. (uses \subseteq DOMAIN defines)'
    BY <1>1, <1>2, <1>3 DEF TablesOK
  <1> QED
    BY <1>2, <1>3, <1>4, <1>5, <1>6, <1>7, DesignsAlone DEF Done

LEMMA UpdateDefineDone ==
  ASSUME NEW w, Stored(w), w.kind = "UpdateDefine", IsDefine(w.row), w.id \in Nat \ {0}, w.id < next["define"],
         w.id \in DOMAIN defines => w.row.version = defines[w.id].version,
         disorder' = {} => w.id \in DOMAIN defines /\ defines[w.id].name = w.row.name
  PROVE  /\ Done(w) /\ designs' = designs /\ history' = history
         /\ w.id \in DOMAIN defines => w.id \in DOMAIN defines' /\ defines'[w.id].content = w.row.content
  <1>1. TablesOK /\ Later /\ disorder \subseteq disorder' /\ NextOK /\ DefinesOK
    BY DEF Stored, TablesOK
  <1>2. /\ defines' = Overwrite(defines, w.id, w.row)
        /\ designs' = designs /\ history' = history /\ uses' = uses
    BY UpdateDefineDoes DEF Stored
  <1>3. w.id < next'["define"]
    BY <1>1 DEF Later, NextOK
  <1>4. CASE w.id \in DOMAIN defines \/ store = "memory"
    <2>1. /\ DOMAIN defines' = DOMAIN defines \union {w.id} /\ defines'[w.id] = w.row /\ Tabled(defines')
          /\ \A i \in DOMAIN defines \ {w.id} : defines'[i] = defines[i]
      BY <1>2, <1>4 DEF Overwrite, Put, Tabled
    <2>2. DefinesOK'
      BY <1>1, <1>3, <2>1 DEF DefinesOK, Later, NextOK
    <2>3. InOrder'
      <3> SUFFICES ASSUME disorder' = {}, NEW i \in DOMAIN defines', NEW j \in DOMAIN defines',
                          defines'[i].name = defines'[j].name, i < j
                   PROVE  defines'[i].version < defines'[j].version
        BY DEF InOrder
      <3>1. disorder = {}
        BY <1>1
      <3>2. \A k \in DOMAIN defines' :
              /\ k \in DOMAIN defines /\ defines'[k].name = defines[k].name
              /\ defines'[k].version = defines[k].version
        BY <2>1
      <3> QED
        BY <1>1, <3>1, <3>2 DEF TablesOK, InOrder
    <2>4. ASSUME NEW j, j.read \intersect Changes(w) = {} PROVE SameTo(j, Now, Now')
      <3>1. /\ Row("define", w.id) \notin j.read /\ NameRow(w.row.name) \notin j.read
            /\ w.id \in DOMAIN defines => NameRow(defines[w.id].name) \notin j.read
        BY <2>4 DEF Changes
      <3>2. SameDefines(j, Now, Now')
        BY <2>1, <3>1, SameDefinesUnless
      <3> QED
        BY <1>2, <3>2, SameDesignsAlways, SameUnless
    <2>5. (uses \subseteq DOMAIN defines)'
      BY <1>1, <1>2, <2>1 DEF TablesOK
    <2> QED
      BY <1>2, <2>1, <2>2, <2>3, <2>4, <2>5, DesignsAlone DEF Done
  <1>5. CASE ~(w.id \in DOMAIN defines \/ store = "memory")
    <2>1. defines' = defines
      BY <1>2, <1>5 DEF Overwrite
    <2>2. \A j : SameTo(j, Now, Now')
      BY <1>2, <2>1, SameDefinesAlways, SameDesignsAlways, SameUnless
    <2>3. (uses \subseteq DOMAIN defines)'
      BY <1>1, <1>2, <2>1 DEF TablesOK
    <2> QED
      BY <1>2, <1>5, <2>1, <2>2, <2>3, DefinesAlone, DesignsAlone DEF Done
  <1> QED
    BY <1>4, <1>5

LEMMA UpdateDefineStateDone ==
  ASSUME NEW w, Stored(w), w.kind = "UpdateDefineState"
  PROVE  Done(w) /\ designs' = designs /\ history' = history
  <1>1. TablesOK /\ Later /\ disorder \subseteq disorder' /\ NextOK /\ DefinesOK
    BY DEF Stored, TablesOK
  <1>2. /\ designs' = designs /\ history' = history /\ uses' = uses
        /\ DOMAIN defines' = DOMAIN defines /\ Tabled(defines')
        /\ \A i \in DOMAIN defines \ {w.id} : defines'[i] = defines[i]
        /\ w.id \in DOMAIN defines =>
             /\ defines'[w.id].name = defines[w.id].name /\ IsDefine(defines'[w.id])
             /\ defines'[w.id].version = defines[w.id].version
    BY <1>1, UpdateDefineStateDoes DEF Stored
  <1>3. \A i \in DOMAIN defines :
          /\ defines'[i].name = defines[i].name /\ IsDefine(defines'[i])
          /\ defines'[i].version = defines[i].version
    BY <1>1, <1>2 DEF DefinesOK
  <1>4. DefinesOK'
    BY <1>1, <1>2, <1>3 DEF DefinesOK, Later, NextOK
  <1>5. InOrder'
    BY <1>1, <1>2, <1>3 DEF TablesOK, InOrder
  <1>6. ASSUME NEW j, j.read \intersect Changes(w) = {} PROVE SameTo(j, Now, Now')
    <2>1. Row("define", w.id) \notin j.read
          /\ (w.id \in DOMAIN defines => NameRow(defines[w.id].name) \notin j.read)
      BY <1>6 DEF Changes
    <2>2. SameDefines(j, Now, Now')
      BY <1>2, <1>3, <2>1, SameDefinesUnless
    <2> QED
      BY <1>2, <2>2, SameDesignsAlways, SameUnless
  <1>7. (uses \subseteq DOMAIN defines)'
    BY <1>1, <1>2 DEF TablesOK
  <1> QED
    BY <1>2, <1>4, <1>5, <1>6, <1>7, DesignsAlone DEF Done

LEMMA RemoveDefineDone ==
  ASSUME NEW w, Stored(w), w.kind = "RemoveDefine", w.id \notin uses
  PROVE  Done(w) /\ designs' = designs /\ history' = history /\ uses' = uses
  <1>1. TablesOK /\ Later /\ disorder \subseteq disorder' /\ NextOK /\ DefinesOK
    BY DEF Stored, TablesOK
  <1>2. /\ designs' = designs /\ history' = history /\ uses' = uses
        /\ defines' = [i \in DOMAIN defines \ {w.id} |-> defines[i]]
    BY RemoveDefineDoes DEF Stored
  <1>3. DOMAIN defines' = DOMAIN defines \ {w.id} /\ Tabled(defines') /\ \A i \in DOMAIN defines' : defines'[i] = defines[i]
    BY <1>2 DEF Tabled
  <1>4. DefinesOK'
    BY <1>1, <1>3 DEF DefinesOK, Later, NextOK
  <1>5. InOrder'
    BY <1>1, <1>3 DEF TablesOK, InOrder
  <1>6. ASSUME NEW j, j.read \intersect Changes(w) = {} PROVE SameTo(j, Now, Now')
    <2>1. Row("define", w.id) \notin j.read
          /\ (w.id \in DOMAIN defines => NameRow(defines[w.id].name) \notin j.read)
      BY <1>6 DEF Changes
    <2>2. SameDefines(j, Now, Now')
      BY <1>3, <2>1, SameDefinesUnless
    <2> QED
      BY <1>2, <2>2, SameDesignsAlways, SameUnless
  <1>7. (uses \subseteq DOMAIN defines)'
    BY <1>1, <1>2, <1>3 DEF TablesOK
  <1> QED
    BY <1>2, <1>4, <1>5, <1>6, <1>7, DesignsAlone DEF Done

LEMMA SaveInstanceDone ==
  ASSUME NEW w, Stored(w), w.kind = "SaveInstance", w.id \in DOMAIN defines
  PROVE  Done(w) /\ designs' = designs /\ history' = history
  <1>1. TablesOK
    BY DEF Stored
  <1>2. defines' = defines /\ designs' = designs /\ history' = history /\ uses' = uses \union {w.id}
    BY SaveInstanceDoes DEF Stored
  <1>3. ASSUME NEW j, j.read \intersect Changes(w) = {} PROVE SameTo(j, Now, Now')
    <2>1. Row("uses", w.id) \notin j.read
      BY <1>3 DEF Changes
    <2> QED
      BY <1>2, <2>1, SameDefinesAlways, SameDesignsAlways, SameUnless
  <1>4. (uses \subseteq DOMAIN defines)'
    BY <1>1, <1>2 DEF TablesOK
  <1> QED
    BY <1>2, <1>3, <1>4, DefinesAlone, DesignsAlone DEF Done

\* A row of the designs is written.
LEMMA DesignWritten ==
  ASSUME NEW w, Stored(w), IsDesign(w.row), Changes(w) = {Row("design", w.id)},
         defines' = defines, history' = history, uses' = uses,
         designs' \in {designs, Put(designs, w.id, w.row)}
  PROVE  /\ Done(w)
         /\ \A d \in DOMAIN designs' \ {w.id} : d \in DOMAIN designs /\ designs'[d] = designs[d]
         /\ w.id \in DOMAIN designs => w.id \in DOMAIN designs'
  <1>1. TablesOK /\ Later /\ NextOK /\ DesignsOK
    BY DEF Stored, TablesOK
  <1>2. /\ Tabled(designs')
        /\ \A d : d # w.id => (d \in DOMAIN designs' <=> d \in DOMAIN designs)
        /\ \A d \in DOMAIN designs : d # w.id => designs'[d] = designs[d]
        /\ w.id \in DOMAIN designs => w.id \in DOMAIN designs'
        /\ w.id \in DOMAIN designs' => IsDesign(designs'[w.id])
    <2>1. CASE designs' = designs
      BY <1>1, <2>1 DEF DesignsOK
    <2>2. CASE designs' = Put(designs, w.id, w.row)
      BY <1>1, <2>2 DEF DesignsOK, Put, Tabled
    <2> QED
      BY <2>1, <2>2
  <1>3. DesignsOK'
    BY <1>1, <1>2 DEF DesignsOK
  <1>4. HistoryOK'
    BY <1>1 DEF TablesOK, HistoryOK, Later, NextOK
  <1>5. ASSUME NEW j, j.read \intersect Changes(w) = {} PROVE SameTo(j, Now, Now')
    <2>1. \A d : Row("design", d) \in j.read => d # w.id
      BY <1>5
    <2>2. SameDesigns(j, Now, Now')
      BY <1>2, <2>1 DEF SameDesigns, Shots, Now
    <2> QED
      BY <2>2, SameDefinesAlways, SameUnless
  <1>6. (uses \subseteq DOMAIN defines)'
    BY <1>1 DEF TablesOK
  <1> QED
    BY <1>2, <1>3, <1>4, <1>5, <1>6, DefinesAlone DEF Done

LEMMA SaveDesignDone ==
  ASSUME NEW w, Stored(w), w.kind = "SaveDesign", IsDesign(w.row)
  PROVE  /\ Done(w) /\ history' = history
         /\ \A d \in DOMAIN designs' \ {w.id} : d \in DOMAIN designs /\ designs'[d] = designs[d]
         /\ w.id \in DOMAIN designs' /\ designs'[w.id] = w.row
  <1>1. /\ defines' = defines /\ history' = history /\ uses' = uses
        /\ designs' = Put(designs, w.id, w.row)
    BY SaveDesignDoes DEF Stored
  <1>2. Changes(w) = {Row("design", w.id)}
    BY DEF Changes
  <1>3. w.id \in DOMAIN designs' /\ designs'[w.id] = w.row
    BY <1>1 DEF Put
  <1> QED
    BY <1>1, <1>2, <1>3, DesignWritten

LEMMA UpdateDesignDone ==
  ASSUME NEW w, Stored(w), w.kind = "UpdateDesign", IsDesign(w.row)
  PROVE  /\ Done(w) /\ history' = history
         /\ \A d \in DOMAIN designs' \ {w.id} : d \in DOMAIN designs /\ designs'[d] = designs[d]
         /\ w.id \in DOMAIN designs => w.id \in DOMAIN designs'
         /\ w.id \in DOMAIN designs' => designs'[w.id] = w.row
  <1>1. /\ defines' = defines /\ history' = history /\ uses' = uses
        /\ designs' = Overwrite(designs, w.id, w.row)
    BY UpdateDesignDoes DEF Stored
  <1>2. Changes(w) = {Row("design", w.id)}
    BY DEF Changes
  <1>3. designs' \in {designs, Put(designs, w.id, w.row)}
    BY <1>1 DEF Overwrite
  <1>4. w.id \in DOMAIN designs' => designs'[w.id] = w.row
    BY <1>1 DEF Overwrite, Put
  <1>5. /\ Done(w)
        /\ \A d \in DOMAIN designs' \ {w.id} : d \in DOMAIN designs /\ designs'[d] = designs[d]
        /\ w.id \in DOMAIN designs => w.id \in DOMAIN designs'
    BY <1>1, <1>2, <1>3, DesignWritten
  <1> QED
    BY <1>1, <1>4, <1>5

LEMMA SaveDesignHisDone ==
  ASSUME NEW w, Stored(w), w.kind = "SaveDesignHis", w.id \in Nat, w.id < next'["his"]
  PROVE  /\ Done(w) /\ designs' = designs
         /\ \A d : d # w.design => Shots(Now', d) = Shots(Now, d)
  <1>1. TablesOK /\ Later /\ NextOK /\ HistoryOK
    BY DEF Stored, TablesOK
  <1>2. PICK h : h = [id |-> w.id, design |-> w.design, content |-> w.content]
    OBVIOUS
  <1>3. /\ defines' = defines /\ designs' = designs /\ uses' = uses
        /\ history' = history \union {h}
    BY <1>2, SaveDesignHisDoes DEF Stored
  <1>4. h.id = w.id /\ h.design = w.design
    BY <1>2
  <1>5. HistoryOK'
    <2> SUFFICES ASSUME NEW g \in history' PROVE g.id \in Nat /\ g.id < next'["his"]
      BY DEF HistoryOK
    <2>1. CASE g \in history
      BY <1>1, <2>1 DEF HistoryOK, Later, NextOK
    <2>2. CASE g = h
      BY <1>4, <2>2
    <2> QED
      BY <1>3, <2>1, <2>2
  <1>6. \A d : d # w.design => Shots(Now', d) = Shots(Now, d)
    BY <1>3, <1>4 DEF Shots, Now
  <1>7. ASSUME NEW j, j.read \intersect Changes(w) = {} PROVE SameTo(j, Now, Now')
    <2>1. Row("his", w.design) \notin j.read
      BY <1>7 DEF Changes
    <2>2. SameDesigns(j, Now, Now')
      BY <1>3, <1>6, <2>1 DEF SameDesigns, Now
    <2> QED
      BY <1>3, <2>2, SameDefinesAlways, SameUnless
  <1>8. DesignsOK' /\ (uses \subseteq DOMAIN defines)'
    BY <1>1, <1>3 DEF TablesOK, DesignsOK
  <1> QED
    BY <1>3, <1>5, <1>6, <1>7, <1>8, DefinesAlone DEF Done

LEMMA RemoveDesignDone ==
  ASSUME NEW w, Stored(w), w.kind = "RemoveDesign"
  PROVE  /\ Done(w)
         /\ DOMAIN designs' = DOMAIN designs \ {w.id} /\ \A d \in DOMAIN designs' : designs'[d] = designs[d]
         /\ \A d : d # w.id => Shots(Now', d) = Shots(Now, d)
  <1>1. TablesOK /\ Later /\ NextOK /\ HistoryOK /\ DesignsOK
    BY DEF Stored, TablesOK
  <1>2. /\ defines' = defines /\ uses' = uses
        /\ designs' = [d \in DOMAIN designs \ {w.id} |-> designs[d]]
        /\ history' = {h \in history : h.design # w.id}
    BY RemoveDesignDoes DEF Stored
  <1>3. /\ DOMAIN designs' = DOMAIN designs \ {w.id} /\ \A d \in DOMAIN designs' : designs'[d] = designs[d]
        /\ Tabled(designs')
    BY <1>2 DEF Tabled
  <1>4. DesignsOK'
    BY <1>1, <1>3 DEF DesignsOK
  <1>5. HistoryOK'
    BY <1>1, <1>2 DEF HistoryOK, Later, NextOK
  <1>6. \A d : d # w.id => Shots(Now', d) = Shots(Now, d)
    BY <1>2 DEF Shots, Now
  <1>7. ASSUME NEW j, j.read \intersect Changes(w) = {} PROVE SameTo(j, Now, Now')
    <2>1. Row("design", w.id) \notin j.read /\ Row("his", w.id) \notin j.read
      BY <1>7 DEF Changes
    <2>2. SameDesigns(j, Now, Now')
      BY <1>3, <1>6, <2>1 DEF SameDesigns, Now
    <2> QED
      BY <1>2, <2>2, SameDefinesAlways, SameUnless
  <1>8. (uses \subseteq DOMAIN defines)'
    BY <1>1, <1>2 DEF TablesOK
  <1> QED
    BY <1>2, <1>3, <1>4, <1>5, <1>6, <1>7, <1>8, DefinesAlone DEF Done

-----------------------------------------------------------------------------
(* A write. *)

\* Caller c with request j writes w, which is v with its id; rest is left.
After(c, j, w, rest) ==
  IF rest = <<>> THEN Idle ELSE [j EXCEPT !.plan = rest, !.read = @ \union Changes(w)]
Wrote(c, j, v, w, rest) ==
  /\ c \in Client /\ j = job[c] /\ v = Head(j.plan) /\ w = Numbered(v) /\ At(c, "write")
  /\ rest = [k \in DOMAIN Tail(j.plan) |->
               IF w.kind = "SaveDesign" /\ TableOf(Tail(j.plan)[k]) = "his"
               THEN [Tail(j.plan)[k] EXCEPT !.design = w.id] ELSE Tail(j.plan)[k]]
  /\ \E t : /\ t = Apply(Tables, w) /\ defines' = t.defines /\ designs' = t.designs
            /\ history' = t.history /\ uses' = t.uses
  /\ next' = Advance(Drawn(<<v>>))
  /\ published' = published \union {defines'[i].content : i \in DOMAIN defines'}
  /\ disorder' = disorder \union Unusual(c, w)
  /\ job' = [d \in Client |->
       IF d = c THEN After(c, j, w, rest)
       ELSE [job[d] EXCEPT !.overtaken = @ \/ job[d].read \intersect Changes(w) # {}]]
  /\ store' = store

LEMMA WriteNextWrote ==
  ASSUME NEW c \in Client, WriteNext(c)
  PROVE  \E j, v, w, rest : Wrote(c, j, v, w, rest)
  <1> DEFINE j == job[c]
             v == Head(j.plan)
             w == Numbered(v)
             rest == [k \in DOMAIN Tail(j.plan) |->
                        IF w.kind = "SaveDesign" /\ TableOf(Tail(j.plan)[k]) = "his"
                        THEN [Tail(j.plan)[k] EXCEPT !.design = w.id] ELSE Tail(j.plan)[k]]
             t == Apply(Tables, w)
  <1>1. /\ At(c, "write")
        /\ defines' = t.defines /\ designs' = t.designs /\ history' = t.history /\ uses' = t.uses
        /\ next' = Advance(Drawn(<<v>>))
        /\ published' = published \union {defines'[i].content : i \in DOMAIN defines'}
        /\ disorder' = disorder \union Unusual(c, w)
        /\ store' = store
    BY Zenon DEF WriteNext
  <1>2. job' = [d \in Client |->
                  IF d = c THEN After(c, j, w, rest)
                  ELSE [job[d] EXCEPT !.overtaken = @ \/ job[d].read \intersect Changes(w) # {}]]
    BY Zenon DEF WriteNext, After
  <1>3. Wrote(c, j, v, w, rest)
    <2>1. \E u : /\ u = Apply(Tables, w) /\ defines' = u.defines /\ designs' = u.designs
                 /\ history' = u.history /\ uses' = u.uses
      BY <1>1, Zenon
    <2> QED
      BY <1>1, <1>2, <2>1, Zenon DEF Wrote
  <1> QED
    BY <1>3, Zenon

LEMMA WroteStored ==
  ASSUME Inv, NEW c, NEW j, NEW v, NEW w, NEW rest, Wrote(c, j, v, w, rest)
  PROVE  Stored(w)
  <1>1. TablesOK
    BY DEF Inv
  <1>2. Later
    BY <1>1, Advanced DEF Wrote, TablesOK
  <1> QED
    BY <1>1, <1>2 DEF Wrote, Stored

LEMMA WroteUnusual ==
  ASSUME NEW c, NEW j, NEW v, NEW w, NEW rest, Wrote(c, j, v, w, rest), "overtaken" \notin disorder'
  PROVE  /\ ~j.overtaken
         /\ w.kind = "UpdateDefine" /\ disorder' = {} => w.id \in DOMAIN defines /\ defines[w.id].name = w.row.name
  <1>1. j.overtaken => "overtaken" \in Unusual(c, w)
    BY DEF Unusual, Wrote
  <1>2. w.kind = "UpdateDefine" /\ w.id \notin DOMAIN defines => "revived" \in Unusual(c, w)
    BY DEF Unusual
  <1>3. w.kind = "UpdateDefine" /\ w.id \in DOMAIN defines /\ defines[w.id].name # w.row.name
          => "renamed" \in Unusual(c, w)
    BY DEF Unusual
  <1> QED
    BY <1>1, <1>2, <1>3 DEF Wrote

\* The write once it has its id.
LEMMA WroteNumbered ==
  ASSUME Inv, NEW c, NEW j, NEW v, NEW w, NEW rest, Wrote(c, j, v, w, rest)
  PROVE  /\ v.id # 0 => w = v
         /\ AddsDefine(j, v, store, Now) =>
              /\ w.kind = "SaveDefine" /\ w.row = v.row /\ w.id \in Nat \ {0} /\ w.id < next'["define"]
              /\ \A i \in DOMAIN defines : i < w.id
         /\ AddsDesign(j, v, store, Now) =>
              w.kind = "SaveDesign" /\ w.row = v.row /\ w.id \in Nat \ {0}
         /\ AddsShot(j, v, store, Now) =>
              w.kind = "SaveDesignHis" /\ w.design = v.design /\ w.id \in Nat /\ w.id < next'["his"]
  <1>1. w = Numbered(v) /\ NextOK /\ DefinesOK /\ next' = Advance(Drawn(<<v>>))
    BY DEF Wrote, Inv, TablesOK
  <1>2. v.id # 0 => w = v
    BY <1>1, NumberedKnown
  <1>3. Later /\ \A table \in {"define", "design", "his"} :
                   table \in Drawn(<<v>>) => next'[table] = next[table] + 1
    BY <1>1, Advanced
  <1>4. v.id = 0 => TableOf(v) \in Drawn(<<v>>)
    <2>1. PICK p : p = <<v>>
      OBVIOUS
    <2>2. 1 \in DOMAIN p /\ p[1] = v
      BY <2>1
    <2> QED
      BY <2>1, <2>2 DEF Drawn
  <1>5. Now.next = next /\ Now.defines = defines /\ Now.history = history
    BY DEF Now
  <1>6. ASSUME AddsDefine(j, v, store, Now)
        PROVE  /\ w.kind = "SaveDefine" /\ w.row = v.row /\ w.id \in Nat \ {0} /\ w.id < next'["define"]
               /\ \A i \in DOMAIN defines : i < w.id
    <2>1. v.kind = "SaveDefine" /\ WritesRow(v) /\ NewId(j, store, Now, "define", v.id, DOMAIN defines)
      BY <1>5, <1>6 DEF AddsDefine
    <2>2. CASE Drawing(j, store)
      <3>1. v.id \in Nat \ {0} /\ v.id < next["define"] /\ \A i \in DOMAIN defines : i < v.id
        BY <1>5, <2>1, <2>2 DEF NewId
      <3> QED
        BY <1>1, <1>2, <1>3, <2>1, <3>1 DEF Later, NextOK
    <2>3. CASE ~Drawing(j, store)
      <3>1. v.id = 0
        BY <2>1, <2>3 DEF NewId
      <3>2. TableOf(v) = "define" /\ w = RowWrite("SaveDefine", next["define"], v.row)
        BY <1>1, <2>1, <3>1, NumberedRow
      <3>3. next'["define"] = next["define"] + 1
        BY <1>3, <1>4, <3>1, <3>2
      <3>4. w.kind = "SaveDefine" /\ w.row = v.row /\ w.id = next["define"]
        BY <3>2 DEF RowWrite
      <3> QED
        BY <1>1, <3>3, <3>4 DEF NextOK, DefinesOK
    <2> QED
      BY <2>2, <2>3
  <1>7. ASSUME AddsDesign(j, v, store, Now)
        PROVE  w.kind = "SaveDesign" /\ w.row = v.row /\ w.id \in Nat \ {0}
    <2>1. v.kind = "SaveDesign" /\ WritesRow(v) /\ NewId(j, store, Now, "design", v.id, {})
      BY <1>7 DEF AddsDesign
    <2>2. CASE Drawing(j, store)
      BY <1>2, <2>1, <2>2 DEF NewId
    <2>3. CASE ~Drawing(j, store)
      <3>1. v.id = 0
        BY <2>1, <2>3 DEF NewId
      <3>2. w = RowWrite("SaveDesign", next["design"], v.row)
        BY <1>1, <2>1, <3>1, NumberedRow
      <3> QED
        BY <1>1, <3>2 DEF RowWrite, NextOK
    <2> QED
      BY <2>2, <2>3
  <1>8. ASSUME AddsShot(j, v, store, Now)
        PROVE  w.kind = "SaveDesignHis" /\ w.design = v.design /\ w.id \in Nat /\ w.id < next'["his"]
    <2>1. /\ v.kind = "SaveDesignHis" /\ WritesShot(v) /\ v.design # 0
          /\ NewId(j, store, Now, "his", v.id, {h.id : h \in history})
      BY <1>5, <1>8 DEF AddsShot
    <2>2. CASE Drawing(j, store)
      <3>1. v.id \in Nat \ {0} /\ v.id < next["his"]
        BY <1>5, <2>1, <2>2 DEF NewId
      <3> QED
        BY <1>1, <1>2, <1>3, <2>1, <3>1 DEF Later, NextOK
    <2>3. CASE ~Drawing(j, store)
      <3>1. v.id = 0
        BY <2>1, <2>3 DEF NewId
      <3>2. /\ TableOf(v) = "his"
            /\ w = [kind |-> "SaveDesignHis", id |-> next["his"], design |-> v.design, content |-> v.content]
        BY <1>1, <2>1, <3>1, NumberedShot
      <3>3. next'["his"] = next["his"] + 1
        BY <1>3, <1>4, <3>1, <3>2
      <3> QED
        BY <1>1, <3>2, <3>3 DEF NextOK
    <2> QED
      BY <2>2, <2>3
  <1> QED
    BY <1>2, <1>6, <1>7, <1>8

LEMMA AfterLast ==
  ASSUME NEW c, NEW j, NEW v, NEW w, NEW rest, Wrote(c, j, v, w, rest), j.plan = <<v>>
  PROVE  job'[c] = Idle
  <1>1. Tail(j.plan) = <<>>
    OBVIOUS
  <1>2. rest = <<>>
    BY <1>1 DEF Wrote
  <1> QED
    BY <1>2 DEF Wrote, After

LEMMA AfterPair ==
  ASSUME NEW c, NEW j, NEW v, NEW w, NEW rest, Wrote(c, j, v, w, rest), Shaped(j), NEW b, j.plan = <<v, b>>,
         NEW k, k = job'[c]
  PROVE  /\ Shaped(k) /\ k.op = j.op /\ k.pc = "write" /\ k.overtaken = j.overtaken
         /\ k.read = j.read \union Changes(w)
         /\ \/ w.kind # "SaveDesign" /\ k.plan = <<b>>
            \/ w.kind = "SaveDesign" /\ TableOf(b) = "his" /\ k.plan = <<[b EXCEPT !.design = w.id]>>
            \/ w.kind = "SaveDesign" /\ TableOf(b) # "his" /\ k.plan = <<b>>
  <1>1. Tail(j.plan) = <<b>>
    OBVIOUS
  <1>2. PICK a : a = IF w.kind = "SaveDesign" /\ TableOf(b) = "his" THEN [b EXCEPT !.design = w.id] ELSE b
    OBVIOUS
  <1>3. rest = <<a>>
    <2> DEFINE moved(x) == IF w.kind = "SaveDesign" /\ TableOf(x) = "his" THEN [x EXCEPT !.design = w.id] ELSE x
    <2>1. rest = [i \in DOMAIN Tail(j.plan) |-> moved(Tail(j.plan)[i])]
      BY DEF Wrote
    <2>2. a = moved(b)
      BY <1>2
    <2> HIDE DEF moved
    <2> QED
      BY <1>1, <2>1, <2>2
  <1>4. Shaped(j) /\ j.pc = "write"
    BY DEF Wrote, At
  <1>5. k = [[j EXCEPT !.plan = rest] EXCEPT !.read = @ \union Changes(w)]
    <2>1. rest # <<>>
      BY <1>3
    <2> QED
      BY <2>1 DEF Wrote, After
  <1>6. /\ Shaped(k) /\ k.op = j.op /\ k.pc = "write" /\ k.overtaken = j.overtaken /\ k.plan = rest
        /\ k.read = j.read \union Changes(w)
    <2>1. PICK b2 : b2 = j.overtaken /\ b2 \in BOOLEAN
      BY <1>4 DEF Shaped
    <2>2. PICK i : i = [op |-> j.op, pc |-> "write", id |-> j.id, arg |-> j.arg, ids |-> j.ids, row |-> j.row,
                        content |-> j.content, plan |-> rest, read |-> j.read, overtaken |-> b2]
      OBVIOUS
    <2>3. i = [j EXCEPT !.plan = rest]
      BY <1>4, <2>1, <2>2 DEF Shaped
    <2>4. k = Wider(i, Changes(w))
      BY <1>5, <2>3 DEF Wider
    <2>5. Shaped(i) /\ i.overtaken = j.overtaken
      BY <2>1, <2>2 DEF Shaped
    <2>6. /\ Shaped(k) /\ k.op = i.op /\ k.pc = i.pc /\ k.overtaken = i.overtaken /\ k.plan = i.plan
          /\ k.read = i.read \union Changes(w)
      BY <2>4, <2>5, Extended
    <2> QED
      BY <2>2, <2>5, <2>6
  <1> QED
    BY <1>2, <1>3, <1>6

\* The other callers after a write.
LEMMA OthersAfter ==
  ASSUME Inv, NEW c, NEW j, NEW v, NEW w, NEW rest, Wrote(c, j, v, w, rest), Done(w),
         NEW d \in Client, d # c
  PROVE  JobOK(job'[d], store', Now') /\ job'[d].pc = job[d].pc /\ job'[d].plan = job[d].plan
  <1>1. PICK i, b : i = job[d] /\ b = (i.overtaken \/ i.read \intersect Changes(w) # {})
    OBVIOUS
  <1>2. Shaped(i) /\ (~i.overtaken => Relies(i, store, Now))
    BY <1>1 DEF Inv, JobOK
  <1>3. b \in BOOLEAN /\ (b <=> i.overtaken \/ i.read \intersect Changes(w) # {})
    BY <1>1, <1>2 DEF Shaped
  <1>4. PICK k : k = [op |-> i.op, pc |-> i.pc, id |-> i.id, arg |-> i.arg, ids |-> i.ids, row |-> i.row,
                      content |-> i.content, plan |-> i.plan, read |-> i.read, overtaken |-> b]
    OBVIOUS
  <1>5. job'[d] = [i EXCEPT !.overtaken = b]
    BY <1>1 DEF Wrote
  <1>6. k = job'[d]
    BY <1>2, <1>4, <1>5 DEF Shaped
  <1>7. Shaped(k) /\ k.pc = i.pc /\ k.plan = i.plan /\ (k.overtaken <=> b)
    BY <1>3, <1>4 DEF Shaped
  <1>8. ASSUME ~b PROVE Relies(k, store, Now')
    <2>1. k = i
      BY <1>2, <1>3, <1>4, <1>8 DEF Shaped
    <2>2. SameTo(i, Now, Now')
      BY <1>3, <1>8 DEF Done
    <2>3. ~Drawing(i, store)
      BY <1>1 DEF Drawing, Wrote, At, Quiet
    <2>4. Relies(i, store, Now)
      BY <1>2, <1>3, <1>8
    <2> QED
      BY <2>1, <2>2, <2>3, <2>4, ReliesStays
  <1>9. store' = store
    BY DEF Wrote
  <1> QED
    BY <1>1, <1>6, <1>7, <1>8, <1>9 DEF JobOK

\* The marks after a write: the request that writes clears no mark of the
\* designs it leaves alone.
LEMMA MarksAfter ==
  ASSUME Inv, NEW c, NEW j, NEW v, NEW w, NEW rest, Wrote(c, j, v, w, rest), Done(w),
         \A d \in DOMAIN designs' : designs'[d].deployed = 1 =>
           \/ Justified(Now', d)
           \/ Clearing(job'[c], d)
           \/ /\ d \in DOMAIN designs /\ designs[d].deployed = 1
              /\ Justified(Now, d) => Justified(Now', d)
              /\ ~Clearing(job[c], d)
  PROVE  MarksOK'
  <1> SUFFICES ASSUME NEW d \in DOMAIN designs', designs'[d].deployed = 1, ~Justified(Now', d),
                      ~Clearing(job'[c], d)
               PROVE  \E e \in Client : Clearing(job'[e], d)
    BY DEF MarksOK, Wrote
  <1>1. d \in DOMAIN designs /\ designs[d].deployed = 1 /\ ~Justified(Now, d) /\ ~Clearing(job[c], d)
    OBVIOUS
  <1>2. PICK e \in Client : Clearing(job[e], d)
    BY <1>1 DEF Inv, TablesOK, MarksOK
  <1>3. e # c
    BY <1>1, <1>2
  <1>4. job'[e].pc = job[e].pc /\ job'[e].plan = job[e].plan
    BY <1>3, OthersAfter
  <1>5. Clearing(job'[e], d)
    BY <1>2, <1>4 DEF Clearing
  <1> QED
    BY <1>5

LEMMA Clears ==
  ASSUME NEW j, NEW d, Clearing(j, d)
  PROVE  /\ \A v : j.plan = <<v>> => Unmarks(v) /\ v.id = d
         /\ \A v, w : j.plan = <<v, w>> => (Unmarks(v) /\ v.id = d) \/ (Unmarks(w) /\ w.id = d)
  <1>1. PICK k \in DOMAIN j.plan : Unmarks(j.plan[k]) /\ j.plan[k].id = d
    BY DEF Clearing
  <1>2. ASSUME NEW v, j.plan = <<v>> PROVE Unmarks(v) /\ v.id = d
    <2>1. k = 1 /\ j.plan[k] = v
      BY <1>2
    <2> QED
      BY <1>1, <2>1
  <1>3. ASSUME NEW v, NEW w, j.plan = <<v, w>>
        PROVE  (Unmarks(v) /\ v.id = d) \/ (Unmarks(w) /\ w.id = d)
    <2>1. (k = 1 /\ j.plan[k] = v) \/ (k = 2 /\ j.plan[k] = w)
      BY <1>3
    <2> QED
      BY <1>1, <2>1
  <1> QED
    BY <1>2, <1>3

\* What is justified stays so while the snapshots of the design are the same.
LEMMA JustifiedStays ==
  ASSUME NEW d, Shots(Now', d) = Shots(Now, d), published \subseteq published'
  PROVE  Justified(Now, d) => Justified(Now', d)
  BY DEF Justified, LastShot, Now

\* A request that is at one of these writes clears no mark.
NeverUnmarks(v) == v.kind # "UpdateDesign" \/ v.row.deployed = 1
LEMMA NotUnmarked ==
  ASSUME NEW v, NeverUnmarks(v)
  PROVE  ~Unmarks(v)
  BY DEF NeverUnmarks, Unmarks, WritesDesign

\* A write to the definitions.
LEMMA DefineMarks ==
  ASSUME Inv, NEW c, NEW j, NEW v, NEW w, NEW rest, Wrote(c, j, v, w, rest), Done(w),
         designs' = designs, history' = history, NeverUnmarks(v),
         j.plan = <<v>> \/ \E b : j.plan = <<v, b>> /\ NeverUnmarks(b)
  PROVE  MarksOK'
  <1>1. \A d : ~Clearing(j, d)
    BY Clears, NotUnmarked
  <1>2. j = job[c] /\ published \subseteq published'
    BY DEF Wrote
  <1>3. \A d : Shots(Now', d) = Shots(Now, d)
    BY DEF Shots, Now
  <1>4. \A d : Justified(Now, d) => Justified(Now', d)
    BY <1>2, <1>3, JustifiedStays
  <1> QED
    BY <1>1, <1>2, <1>4, MarksAfter

\* The other designs, when one row is written or removed.
LEMMA DesignMarks ==
  ASSUME Inv, NEW c, NEW j, NEW v, NEW w, NEW rest, Wrote(c, j, v, w, rest), Done(w),
         \A d : d # w.id => Shots(Now', d) = Shots(Now, d),
         \A d \in DOMAIN designs' \ {w.id} : d \in DOMAIN designs /\ designs'[d] = designs[d],
         \A d : Clearing(j, d) => d = w.id,
         w.id \in DOMAIN designs' /\ designs'[w.id].deployed = 1 =>
           Justified(Now', w.id) \/ (w.id \in DOMAIN designs /\ designs[w.id].deployed = 1
                                     /\ (Justified(Now, w.id) => Justified(Now', w.id))
                                     /\ ~Clearing(j, w.id))
  PROVE  MarksOK'
  <1>1. j = job[c] /\ published \subseteq published'
    BY DEF Wrote
  <1>2. \A d : d # w.id => (Justified(Now, d) => Justified(Now', d))
    BY <1>1, JustifiedStays
  <1> QED
    BY <1>1, <1>2, MarksAfter

LEMMA DefineHead ==
  ASSUME Inv, NEW c, NEW j, NEW v, NEW w, NEW rest, Wrote(c, j, v, w, rest), "overtaken" \notin disorder',
         \/ AddsDefine(j, v, store, Now) \/ ReplacesDefine(j, v, Now) \/ SwitchesDefine(j, v)
         \/ RemovesDefine(j, v, Now) \/ UsesDefine(j, v, Now)
  PROVE  /\ Done(w) /\ designs' = designs /\ history' = history /\ NeverUnmarks(v) /\ w.kind # "SaveDesign"
         /\ AddsDefine(j, v, store, Now) \/ (ReplacesDefine(j, v, Now) /\ v.id \in DOMAIN Now.defines) =>
              v.row.content \in published'
         /\ RemovesDefine(j, v, Now) => uses' = uses
  <1>1. Stored(w) /\ published' = published \union {defines'[i].content : i \in DOMAIN defines'}
    <2>1. Stored(w)
      BY WroteStored
    <2>2. published' = published \union {defines'[i].content : i \in DOMAIN defines'}
      BY DEF Wrote
    <2> QED
      BY <2>1, <2>2
  <1>2. v.id # 0 => w = v
    BY WroteNumbered
  <1>3. CASE AddsDefine(j, v, store, Now)
    <2>1. /\ w.kind = "SaveDefine" /\ w.row = v.row /\ w.id \in Nat \ {0} /\ w.id < next'["define"]
          /\ \A i \in DOMAIN defines : i < w.id
      BY <1>3, WroteNumbered
    <2>2. /\ v.kind = "SaveDefine" /\ IsDefine(v.row)
          /\ disorder = {} => \A i \in Rows(v.row.name) : defines[i].version < v.row.version
      BY <1>3 DEF AddsDefine, Named, Rows, Now
    <2>3. /\ Done(w) /\ designs' = designs /\ history' = history
          /\ w.id \in DOMAIN defines' /\ defines'[w.id].content = w.row.content
      BY <1>1, <2>1, <2>2, SaveDefineDone
    <2>4. v.row.content \in published'
      BY <1>1, <2>1, <2>3
    <2> QED
      BY <2>1, <2>2, <2>3, <2>4 DEF NeverUnmarks, RemovesDefine
  <1>4. CASE ReplacesDefine(j, v, Now)
    <2>1. /\ v.kind = "UpdateDefine" /\ IsDefine(v.row) /\ v.id \in Nat \ {0} /\ v.id < next["define"]
          /\ v.id \in DOMAIN defines => v.row.version = defines[v.id].version
      BY <1>4 DEF ReplacesDefine, Now
    <2>2. w = v
      BY <1>2, <2>1
    <2>3. disorder' = {} => v.id \in DOMAIN defines /\ defines[v.id].name = v.row.name
      BY <2>1, <2>2, WroteUnusual
    <2>4. /\ Done(w) /\ designs' = designs /\ history' = history
          /\ v.id \in DOMAIN defines => v.id \in DOMAIN defines' /\ defines'[v.id].content = v.row.content
      BY <1>1, <2>1, <2>2, <2>3, UpdateDefineDone
    <2>5. v.id \in DOMAIN Now.defines => v.row.content \in published'
      BY <1>1, <2>4 DEF Now
    <2> QED
      BY <2>1, <2>2, <2>4, <2>5 DEF NeverUnmarks, RemovesDefine, AddsDefine
  <1>5. CASE SwitchesDefine(j, v)
    <2>1. v.kind = "UpdateDefineState" /\ w = v
      BY <1>2, <1>5 DEF SwitchesDefine
    <2> QED
      BY <1>1, <2>1, UpdateDefineStateDone DEF NeverUnmarks, RemovesDefine, AddsDefine, ReplacesDefine
  <1>6. CASE RemovesDefine(j, v, Now)
    <2>1. v.kind = "RemoveDefine" /\ w = v /\ v.id \notin uses
      BY <1>2, <1>6 DEF RemovesDefine, Now
    <2> QED
      BY <1>1, <2>1, RemoveDefineDone DEF NeverUnmarks, AddsDefine, ReplacesDefine
  <1>7. CASE UsesDefine(j, v, Now)
    <2>1. v.kind = "SaveInstance" /\ w = v /\ v.id \in DOMAIN defines
      BY <1>2, <1>7 DEF UsesDefine, Now
    <2> QED
      BY <1>1, <2>1, SaveInstanceDone DEF NeverUnmarks, RemovesDefine, AddsDefine, ReplacesDefine
  <1> QED
    BY <1>3, <1>4, <1>5, <1>6, <1>7

LEMMA DesignHead ==
  ASSUME Inv, NEW c, NEW j, NEW v, NEW w, NEW rest, Wrote(c, j, v, w, rest),
         AddsDesign(j, v, store, Now) \/ RemovesDesign(v) \/ WritesDesign(v)
  PROVE  /\ Done(w) /\ \A d : d # w.id => Shots(Now', d) = Shots(Now, d)
         /\ \A d \in DOMAIN designs' \ {w.id} : d \in DOMAIN designs /\ designs'[d] = designs[d]
         /\ ~RemovesDesign(v) => history' = history /\ w.row = v.row /\ Row("design", w.id) \in Changes(w)
                                 /\ (w.id \in DOMAIN designs' => designs'[w.id] = w.row)
         /\ RemovesDesign(v) => w.id \notin DOMAIN designs'
         /\ WritesDesign(v) => w = v /\ w.kind = "UpdateDesign"
         /\ AddsDesign(j, v, store, Now) => w.kind = "SaveDesign" /\ w.id \in Nat \ {0}
  <1>1. Stored(w)
    BY WroteStored
  <1>2. v.id # 0 => w = v
    BY WroteNumbered
  <1>3. history' = history => \A d : Shots(Now', d) = Shots(Now, d)
    BY DEF Shots, Now
  <1>4. CASE AddsDesign(j, v, store, Now)
    <2>1. v.kind = "SaveDesign" /\ IsDesign(v.row) /\ w.kind = "SaveDesign" /\ w.row = v.row /\ w.id \in Nat \ {0}
      BY <1>4, WroteNumbered DEF AddsDesign
    <2>2. /\ Done(w) /\ history' = history
          /\ \A d \in DOMAIN designs' \ {w.id} : d \in DOMAIN designs /\ designs'[d] = designs[d]
          /\ designs'[w.id] = w.row
      BY <1>1, <2>1, SaveDesignDone
    <2>3. Row("design", w.id) \in Changes(w)
      BY <2>1 DEF Changes
    <2> QED
      BY <1>3, <2>1, <2>2, <2>3 DEF RemovesDesign, WritesDesign
  <1>5. CASE RemovesDesign(v)
    <2>1. w = v /\ w.kind = "RemoveDesign"
      BY <1>2, <1>5 DEF RemovesDesign
    <2>2. /\ Done(w)
          /\ DOMAIN designs' = DOMAIN designs \ {w.id} /\ \A d \in DOMAIN designs' : designs'[d] = designs[d]
          /\ \A d : d # w.id => Shots(Now', d) = Shots(Now, d)
      BY <1>1, <2>1, RemoveDesignDone
    <2> QED
      BY <1>5, <2>1, <2>2 DEF WritesDesign, AddsDesign
  <1>6. CASE WritesDesign(v)
    <2>1. w = v /\ w.kind = "UpdateDesign" /\ IsDesign(w.row)
      BY <1>2, <1>6 DEF WritesDesign
    <2>2. /\ Done(w) /\ history' = history
          /\ \A d \in DOMAIN designs' \ {w.id} : d \in DOMAIN designs /\ designs'[d] = designs[d]
          /\ w.id \in DOMAIN designs' => designs'[w.id] = w.row
      BY <1>1, <2>1, UpdateDesignDone
    <2>3. Row("design", w.id) \in Changes(w)
      BY <2>1 DEF Changes
    <2> QED
      BY <1>3, <2>1, <2>2, <2>3 DEF RemovesDesign, AddsDesign
  <1> QED
    BY <1>4, <1>5, <1>6

LEMMA ShotHead ==
  ASSUME Inv, NEW c, NEW j, NEW v, NEW w, NEW rest, Wrote(c, j, v, w, rest), AddsShot(j, v, store, Now)
  PROVE  /\ Done(w) /\ designs' = designs /\ w.design = v.design /\ w.kind = "SaveDesignHis"
         /\ \A d : d # w.design => Shots(Now', d) = Shots(Now, d)
  <1>1. Stored(w)
    BY WroteStored
  <1>2. w.kind = "SaveDesignHis" /\ w.design = v.design /\ w.id \in Nat /\ w.id < next'["his"]
    BY WroteNumbered
  <1> QED
    BY <1>1, <1>2, SaveDesignHisDone

LEMMA OneWritten ==
  ASSUME Inv, NEW c, NEW j, NEW v, NEW w, NEW rest, Wrote(c, j, v, w, rest), "overtaken" \notin disorder',
         j.plan = <<v>>, Last(j, v, store, Now)
  PROVE  Done(w) /\ MarksOK'
  <1>1. \A d : Clearing(j, d) => Unmarks(v) /\ v.id = d
    BY Clears
  <1>2. CASE \/ AddsDefine(j, v, store, Now) \/ ReplacesDefine(j, v, Now) \/ SwitchesDefine(j, v)
             \/ RemovesDefine(j, v, Now) \/ UsesDefine(j, v, Now)
    BY <1>2, DefineHead, DefineMarks
  <1>3. CASE AddsDesign(j, v, store, Now)
    <2>1. /\ Done(w) /\ \A d : d # w.id => Shots(Now', d) = Shots(Now, d)
          /\ \A d \in DOMAIN designs' \ {w.id} : d \in DOMAIN designs /\ designs'[d] = designs[d]
          /\ w.id \in DOMAIN designs' => designs'[w.id] = v.row
      BY <1>3, DesignHead DEF AddsDesign, RemovesDesign
    <2>2. ~Unmarks(v) /\ v.row.deployed = 0
      BY <1>3 DEF AddsDesign, Unmarks, WritesDesign
    <2> QED
      BY <1>1, <2>1, <2>2, DesignMarks
  <1>4. CASE RemovesDesign(v)
    <2>1. /\ Done(w) /\ \A d : d # w.id => Shots(Now', d) = Shots(Now, d)
          /\ \A d \in DOMAIN designs' \ {w.id} : d \in DOMAIN designs /\ designs'[d] = designs[d]
          /\ w.id \notin DOMAIN designs'
      BY <1>4, DesignHead
    <2>2. ~Unmarks(v)
      BY <1>4 DEF RemovesDesign, Unmarks, WritesDesign
    <2> QED
      BY <1>1, <2>1, <2>2, DesignMarks
  <1>5. ASSUME WritesDesign(v)
        PROVE  /\ Done(w) /\ \A d : Shots(Now', d) = Shots(Now, d)
               /\ \A d \in DOMAIN designs' \ {w.id} : d \in DOMAIN designs /\ designs'[d] = designs[d]
               /\ w = v /\ (w.id \in DOMAIN designs' => designs'[w.id] = v.row)
    <2>1. /\ Done(w) /\ history' = history
          /\ \A d \in DOMAIN designs' \ {w.id} : d \in DOMAIN designs /\ designs'[d] = designs[d]
          /\ w = v /\ (w.id \in DOMAIN designs' => designs'[w.id] = v.row)
      BY <1>5, DesignHead DEF WritesDesign, RemovesDesign
    <2> QED
      BY <2>1 DEF Shots, Now
  <1>6. CASE Unmarks(v)
    <2>1. WritesDesign(v) /\ v.row.deployed = 0
      BY <1>6 DEF Unmarks
    <2> QED
      BY <1>1, <1>5, <2>1, DesignMarks
  <1>7. CASE Keeps(j, v, Now)
    <2>1. WritesDesign(v) /\ v.id \in DOMAIN designs /\ v.row.deployed = designs[v.id].deployed
      BY <1>7 DEF Keeps, OnDesign, Now
    <2>2. v.row.deployed = 1 => ~Unmarks(v)
      BY DEF Unmarks
    <2>3. Justified(Now, v.id) => Justified(Now', v.id)
      BY <1>5, <2>1, JustifiedStays DEF Wrote
    <2> QED
      BY <1>1, <1>5, <2>1, <2>2, <2>3, DesignMarks
  <1>8. CASE Marks(j, v, LastShot(Now, v.id).content, Now) /\ LastShot(Now, v.id).content \in Now.published
    <2>1. WritesDesign(v) /\ Justified(Now, v.id)
      BY <1>8 DEF Marks, Shows, Justified
    <2>2. ~Unmarks(v)
      BY <1>8 DEF Marks, Unmarks
    <2>3. Justified(Now', v.id)
      BY <1>5, <2>1, JustifiedStays DEF Wrote
    <2> QED
      BY <1>1, <1>5, <2>1, <2>2, <2>3, DesignMarks
  <1>9. CASE AddsShot(j, v, store, Now) /\ Unmarked(j, v.design, Now)
    <2>1. /\ Done(w) /\ designs' = designs /\ w.design = v.design
          /\ \A d : d # v.design => Shots(Now', d) = Shots(Now, d)
      BY <1>9, ShotHead
    <2>2. v.design \in DOMAIN designs => designs[v.design].deployed = 0
      BY <1>9 DEF Unmarked, Now
    <2>3. ~Unmarks(v)
      BY <1>9 DEF AddsShot, Unmarks, WritesDesign
    <2>4. \A d : d # v.design => (Justified(Now, d) => Justified(Now', d))
      BY <2>1, JustifiedStays DEF Wrote
    <2>5. j = job[c]
      BY DEF Wrote
    <2> QED
      BY <1>1, <2>1, <2>2, <2>3, <2>4, <2>5, MarksAfter
  <1> QED
    BY <1>2, <1>3, <1>4, <1>6, <1>7, <1>8, <1>9 DEF Last

\* The request that still has one write to make relies on what it has read.
LEMMA OneLeft ==
  ASSUME NEW k, k.pc = "write", NEW s, NEW t, NEW b, k.plan = <<b>>, Last(k, b, s, t)
  PROVE  Relies(k, s, t)
  <1>1. Planned(k, s, t)
    BY PlannedOne
  <1> QED
    BY <1>1 DEF Relies, Reading, Steps

LEMMA MarkLeft ==
  ASSUME NEW j, NEW k, NEW b, NEW content, Marks(j, b, content, Now), j.read \subseteq k.read,
         designs' = designs, history' = history, content \in published'
  PROVE  Last(k, b, store, Now')
  <1>1. Shots(Now', b.id) = Shots(Now, b.id)
    BY DEF Shots, Now
  <1>2. Marks(k, b, content, Now') /\ LastShot(Now', b.id).content = content
    BY <1>1 DEF Marks, OnDesign, Shows, LastShot, Now
  <1>3. content \in Now'.published
    BY DEF Now
  <1> QED
    BY <1>2, <1>3 DEF Last

LEMMA TwoWritten ==
  ASSUME Inv, NEW c, NEW j, NEW v, NEW w, NEW rest, Wrote(c, j, v, w, rest), "overtaken" \notin disorder',
         NEW b, j.plan = <<v, b>>, Pair(j, v, b, store, Now)
  PROVE  Done(w) /\ MarksOK' /\ JobOK(job'[c], store', Now')
  <1>1. PICK k : k = job'[c]
    OBVIOUS
  <1>2. /\ Shaped(k) /\ k.op = j.op /\ k.pc = "write" /\ k.read = j.read \union Changes(w)
        /\ \/ w.kind # "SaveDesign" /\ k.plan = <<b>>
           \/ w.kind = "SaveDesign" /\ TableOf(b) = "his" /\ k.plan = <<[b EXCEPT !.design = w.id]>>
           \/ w.kind = "SaveDesign" /\ TableOf(b) # "his"
    <2>1. Shaped(j)
      BY DEF Wrote, Inv, JobOK
    <2> QED
      BY <1>1, <2>1, AfterPair
  <1>3. \A d : Clearing(j, d) => (Unmarks(v) /\ v.id = d) \/ (Unmarks(b) /\ b.id = d)
    BY Clears
  <1>4. store' = store
    BY DEF Wrote
  <1>5. ASSUME NEW a, k.plan = <<a>>, Last(k, a, store, Now')
        PROVE  JobOK(job'[c], store', Now')
    BY <1>1, <1>2, <1>4, <1>5, OneLeft DEF JobOK
  <1>6. CASE \/ AddsDefine(j, v, store, Now) /\ Marks(j, b, v.row.content, Now)
             \/ /\ ReplacesDefine(j, v, Now) /\ v.id \in DOMAIN Now.defines
                /\ Marks(j, b, v.row.content, Now)
    <2>1. /\ Done(w) /\ designs' = designs /\ history' = history /\ NeverUnmarks(v) /\ w.kind # "SaveDesign"
          /\ v.row.content \in published'
      BY <1>6, DefineHead
    <2>2. NeverUnmarks(b)
      BY <1>6 DEF Marks, NeverUnmarks
    <2>3. MarksOK'
      BY <2>1, <2>2, DefineMarks
    <2>4. Last(k, b, store, Now')
      BY <1>2, <1>6, <2>1, MarkLeft
    <2> QED
      BY <1>2, <1>5, <2>1, <2>3, <2>4
  <1>7. CASE SwitchesDefine(j, v) /\ SwitchesDefine(j, b)
    <2>1. Done(w) /\ designs' = designs /\ history' = history /\ NeverUnmarks(v) /\ w.kind # "SaveDesign"
      BY <1>7, DefineHead
    <2>2. NeverUnmarks(b)
      BY <1>7 DEF SwitchesDefine, NeverUnmarks
    <2>3. MarksOK'
      BY <2>1, <2>2, DefineMarks
    <2>4. Last(k, b, store, Now')
      BY <1>2, <1>7 DEF Last, SwitchesDefine
    <2> QED
      BY <1>2, <1>5, <2>1, <2>3, <2>4
  <1>8. CASE RemovesDefine(j, v, Now) /\ RemovesDefine(j, b, Now)
    <2>1. /\ Done(w) /\ designs' = designs /\ history' = history /\ NeverUnmarks(v) /\ w.kind # "SaveDesign"
          /\ uses' = uses
      BY <1>8, DefineHead
    <2>2. NeverUnmarks(b)
      BY <1>8 DEF RemovesDefine, NeverUnmarks
    <2>3. MarksOK'
      BY <2>1, <2>2, DefineMarks
    <2>4. RemovesDefine(k, b, Now')
      BY <1>2, <1>8, <2>1 DEF RemovesDefine, Now
    <2>5. Last(k, b, store, Now')
      BY <2>4 DEF Last
    <2> QED
      BY <1>2, <1>5, <2>1, <2>3, <2>5
  <1>9. CASE RemovesDesign(v) /\ RemovesDesign(b)
    <2>1. /\ Done(w) /\ \A d : d # w.id => Shots(Now', d) = Shots(Now, d)
          /\ \A d \in DOMAIN designs' \ {w.id} : d \in DOMAIN designs /\ designs'[d] = designs[d]
          /\ w.id \notin DOMAIN designs'
      BY <1>9, DesignHead
    <2>2. ~Unmarks(v) /\ ~Unmarks(b) /\ w.kind # "SaveDesign"
      BY <1>9, WroteNumbered DEF RemovesDesign, Unmarks, WritesDesign
    <2>3. MarksOK'
      BY <1>3, <2>1, <2>2, DesignMarks
    <2>4. Last(k, b, store, Now')
      BY <1>9 DEF Last
    <2> QED
      BY <1>2, <1>5, <2>1, <2>2, <2>3, <2>4
  <1>10. CASE AddsDesign(j, v, store, Now) /\ FirstShot(j, v, b, store, Now)
    <2>1. /\ Done(w) /\ \A d : d # w.id => Shots(Now', d) = Shots(Now, d)
          /\ \A d \in DOMAIN designs' \ {w.id} : d \in DOMAIN designs /\ designs'[d] = designs[d]
          /\ w.id \in DOMAIN designs' => designs'[w.id] = v.row
          /\ history' = history /\ Row("design", w.id) \in Changes(w)
          /\ w.kind = "SaveDesign" /\ w.id # 0
      BY <1>10, DesignHead DEF AddsDesign, RemovesDesign
    <2>2. ~Unmarks(v) /\ v.row.deployed = 0 /\ ~Unmarks(b)
      BY <1>10 DEF AddsDesign, FirstShot, Unmarks, WritesDesign
    <2>3. MarksOK'
      BY <1>3, <2>1, <2>2, DesignMarks
    <2>4. TableOf(b) = "his"
      BY <1>10 DEF FirstShot, TableOf
    <2>5. PICK a : a = [kind |-> "SaveDesignHis", id |-> b.id, design |-> w.id, content |-> b.content]
      OBVIOUS
    <2>6. a = [b EXCEPT !.design = w.id]
      BY <1>10, <2>5 DEF FirstShot, WritesShot
    <2>7. k.plan = <<a>>
      BY <1>2, <2>1, <2>4, <2>6
    <2>8. AddsShot(k, a, store, Now')
      <3>1. a.kind = "SaveDesignHis" /\ WritesShot(a) /\ a.design # 0 /\ a.id = b.id
        BY <2>1, <2>5 DEF WritesShot
      <3>2. NewId(j, store, Now, "his", b.id, {h.id : h \in history})
        BY <1>10 DEF FirstShot, Now
      <3>3. Drawing(k, store) <=> Drawing(j, store)
        BY <1>2 DEF Drawing, Wrote, At
      <3>4. NextOK /\ Later
        BY WroteStored DEF Stored, TablesOK
      <3>5. NewId(k, store, Now', "his", b.id, {h.id : h \in history})
        BY <3>2, <3>3, <3>4 DEF NewId, Now, Later, NextOK
      <3> QED
        BY <2>1, <3>1, <3>5 DEF AddsShot, Now
    <2>9. Unmarked(k, a.design, Now')
      BY <1>2, <2>1, <2>2, <2>5 DEF Unmarked, Now
    <2> QED
      BY <1>5, <2>1, <2>3, <2>7, <2>8, <2>9 DEF Last
  <1>11. CASE Unmarks(v) /\ AddsShot(j, b, store, Now) /\ b.design = v.id
    <2>1. /\ Done(w) /\ \A d : d # w.id => Shots(Now', d) = Shots(Now, d)
          /\ \A d \in DOMAIN designs' \ {w.id} : d \in DOMAIN designs /\ designs'[d] = designs[d]
          /\ w.id \in DOMAIN designs' => designs'[w.id] = v.row
          /\ history' = history /\ Row("design", w.id) \in Changes(w)
          /\ w.kind = "UpdateDesign" /\ w = v
      BY <1>11, DesignHead DEF Unmarks, WritesDesign, RemovesDesign
    <2>2. v.row.deployed = 0 /\ ~Unmarks(b)
      BY <1>11 DEF AddsShot, Unmarks, WritesDesign
    <2>3. MarksOK'
      BY <1>3, <2>1, <2>2, DesignMarks
    <2>4. AddsShot(k, b, store, Now')
      <3>1. b.kind = "SaveDesignHis" /\ WritesShot(b) /\ b.design # 0
            /\ NewId(j, store, Now, "his", b.id, {h.id : h \in history})
        BY <1>11 DEF AddsShot, Now
      <3>2. Drawing(k, store) <=> Drawing(j, store)
        BY <1>2 DEF Drawing, Wrote, At
      <3>3. NextOK /\ Later
        BY WroteStored DEF Stored, TablesOK
      <3>4. NewId(k, store, Now', "his", b.id, {h.id : h \in history})
        BY <3>1, <3>2, <3>3 DEF NewId, Now, Later, NextOK
      <3> QED
        BY <2>1, <3>1, <3>4 DEF AddsShot, Now
    <2>5. Unmarked(k, b.design, Now')
      BY <1>2, <1>11, <2>1, <2>2 DEF Unmarked, Now
    <2> QED
      BY <1>2, <1>5, <2>1, <2>3, <2>4, <2>5 DEF Last
  <1>12. CASE AddsShot(j, v, store, Now) /\ Unmarks(b) /\ v.design = b.id
    <2>1. /\ Done(w) /\ designs' = designs /\ w.design = v.design /\ w.kind = "SaveDesignHis"
          /\ \A d : d # v.design => Shots(Now', d) = Shots(Now, d)
      BY <1>12, ShotHead
    <2>2. ~Unmarks(v)
      BY <1>12 DEF AddsShot, Unmarks, WritesDesign
    <2>3. \A d : d # v.design => (Justified(Now, d) => Justified(Now', d))
      BY <2>1, JustifiedStays DEF Wrote
    <2>4. k.plan = <<b>> /\ j = job[c]
      BY <1>2, <2>1 DEF Wrote
    <2>5. Clearing(job'[c], b.id)
      <3>1. 1 \in DOMAIN k.plan /\ k.plan[1] = b
        BY <2>4
      <3> QED
        BY <1>1, <1>2, <1>12, <3>1 DEF Clearing
    <2>6. MarksOK'
      BY <1>3, <1>12, <2>1, <2>2, <2>3, <2>4, <2>5, MarksAfter
    <2>7. Last(k, b, store, Now')
      BY <1>12 DEF Last
    <2> QED
      BY <1>5, <2>1, <2>4, <2>6, <2>7
  <1> QED
    BY <1>6, <1>7, <1>8, <1>9, <1>10, <1>11, <1>12 DEF Pair

LEMMA WriteNextKeeps ==
  ASSUME Inv, NEW c \in Client, WriteNext(c), "overtaken" \notin disorder'
  PROVE  Inv'
  <1>1. PICK j, v, w, rest : Wrote(c, j, v, w, rest)
    BY WriteNextWrote
  <1>2. /\ j = job[c] /\ v = Head(j.plan) /\ At(c, "write") /\ store' = store
        /\ job' = [d \in Client |->
             IF d = c THEN After(c, j, w, rest)
             ELSE [job[d] EXCEPT !.overtaken = @ \/ job[d].read \intersect Changes(w) # {}]]
    BY <1>1 DEF Wrote
  <1>3. Shaped(j) /\ Planned(j, store, Now)
    <2>1. ~j.overtaken
      BY <1>1, WroteUnusual
    <2> QED
      BY <1>2, <2>1 DEF Inv, JobOK, Relies, At
  <1>4. Done(w) /\ MarksOK' /\ JobOK(job'[c], store', Now')
    <2>1. CASE Len(j.plan) = 1 /\ j.plan = <<j.plan[1]>> /\ Last(j, j.plan[1], store, Now)
      <3>1. j.plan = <<v>> /\ Last(j, v, store, Now)
        BY <1>2, <2>1
      <3>2. job'[c] = Idle
        BY <1>1, <3>1, AfterLast
      <3> QED
        BY <1>1, <3>1, <3>2, OneWritten, IdleOK
    <2>2. CASE Len(j.plan) = 2 /\ j.plan = <<j.plan[1], j.plan[2]>> /\ Pair(j, j.plan[1], j.plan[2], store, Now)
      <3>1. PICK b : j.plan = <<v, b>> /\ Pair(j, v, b, store, Now)
        BY <1>2, <2>2
      <3> QED
        BY <1>1, <3>1, TwoWritten
    <2> QED
      BY <1>3, <2>1, <2>2 DEF Planned
  <1>5. ASSUME NEW d \in Client PROVE JobOK(job'[d], store', Now')
    BY <1>1, <1>4, OthersAfter
  <1>6. Stored(w)
    BY <1>1, WroteStored
  <1>7. TablesOK'
    BY <1>4, <1>6 DEF TablesOK, Done, Stored, Later
  <1>8. OneWriter'
    <2> SUFFICES ASSUME store = "jdbc", NEW d \in Client, NEW e \in Client,
                        job'[d].pc = "write", job'[e].pc = "write"
                 PROVE  d = e
      BY <1>2 DEF OneWriter
    <2>1. \A f \in Client \ {c} : job'[f].pc # "write"
      <3>1. \A f \in Client \ {c} : job'[f].pc = job[f].pc
        BY <1>1, <1>4, OthersAfter
      <3>2. Quiet(c)
        BY <1>2 DEF At
      <3> QED
        BY <3>1, <3>2 DEF Quiet
    <2> QED
      BY <2>1
  <1>9. job' = [d \in Client |-> job'[d]]
    BY <1>2
  <1> QED
    BY <1>5, <1>7, <1>8, <1>9 DEF Inv

-----------------------------------------------------------------------------
(* The theorems. *)

LEMMA DisorderGrows == [Next]_vars => disorder \subseteq disorder'
  <1> SUFFICES ASSUME [Next]_vars PROVE disorder \subseteq disorder'
    OBVIOUS
  <1>1. ASSUME NEW c \in Client, NEW op, NEW r, Enter(c, op, r) PROVE disorder' = disorder
    BY <1>1 DEF Enter, tables
  <1>2. ASSUME NEW c \in Client, Fail(c) PROVE disorder' = disorder
    BY <1>2 DEF Fail, tables
  <1>3. ASSUME NEW c \in Client, NEW j, NEW objects, Proceed(c, j, objects) PROVE disorder' = disorder
    BY <1>3 DEF Proceed, tables
  <1>4. ASSUME NEW c \in Client,
               \/ deploy(c) \/ redeploy(c) \/ removeDefine(c) \/ upAndDown(c) \/ startAndExecute(c)
               \/ designSaveNew(c) \/ designSave(c) \/ designUpdate(c) \/ designUpdateDefine(c)
               \/ designDeploy(c) \/ designRedeploy(c) \/ designRemove(c)
        PROVE  disorder' = disorder
    BY <1>1, <1>4 DEF deploy, redeploy, removeDefine, upAndDown, startAndExecute, designSaveNew, designSave,
                      designUpdate, designUpdateDefine, designDeploy, designRedeploy, designRemove
  <1>5. ASSUME NEW c \in Client, FindDesign(c) PROVE disorder' = disorder
    BY <1>2, <1>3, <1>5 DEF FindDesign
  <1>6. ASSUME NEW c \in Client, ListDesignHis(c) PROVE disorder' = disorder
    BY <1>2, <1>3, <1>6 DEF ListDesignHis
  <1>7. ASSUME NEW c \in Client, FindName(c) PROVE disorder' = disorder
    BY <1>2, <1>3, <1>7 DEF FindName
  <1>8. ASSUME NEW c \in Client, FindDefine(c) PROVE disorder' = disorder
    BY <1>2, <1>3, <1>8 DEF FindDefine
  <1>9. ASSUME NEW c \in Client, HasInstancesByDefineID(c) PROVE disorder' = disorder
    BY <1>2, <1>3, <1>9 DEF HasInstancesByDefineID
  <1>10. ASSUME NEW c \in Client, DrawIds(c) PROVE disorder' = disorder
    BY <1>10 DEF DrawIds
  <1>11. ASSUME NEW c \in Client, WriteNext(c) PROVE disorder \subseteq disorder'
    BY <1>11 DEF WriteNext
  <1>12. CASE UNCHANGED vars
    BY <1>12 DEF vars
  <1> QED
    BY <1>4, <1>5, <1>6, <1>7, <1>8, <1>9, <1>10, <1>11, <1>12 DEF Next

LEMMA NextKeeps == IInv /\ [Next]_vars => IInv'
  <1> SUFFICES ASSUME IInv, [Next]_vars PROVE IInv'
    OBVIOUS
  <1>1. CASE "overtaken" \in disorder'
    BY <1>1 DEF IInv
  <1>2. CASE "overtaken" \notin disorder'
    <2>1. disorder \subseteq disorder'
      BY DisorderGrows
    <2>2. Inv
      BY <1>2, <2>1 DEF IInv
    <2>3. CASE UNCHANGED vars
      <3>1. TablesOK'
        BY <2>2, <2>3 DEF vars, Inv, TablesOK, NextOK, DefinesOK, DesignsOK, HistoryOK, InOrder, MarksOK, Now
      <3>2. Now' = Now /\ job' = job /\ store' = store
        BY <2>3 DEF vars, Now
      <3>3. Inv'
        BY <2>2, <3>1, <3>2 DEF Inv, OneWriter
      <3> QED
        BY <3>3 DEF IInv
    <2>4. CASE Next
      <3>1. PICK c \in Client :
              \/ deploy(c) \/ redeploy(c) \/ removeDefine(c) \/ upAndDown(c) \/ startAndExecute(c)
              \/ designSaveNew(c) \/ designSave(c) \/ designUpdate(c) \/ designUpdateDefine(c)
              \/ designDeploy(c) \/ designRedeploy(c) \/ designRemove(c)
              \/ FindDesign(c) \/ ListDesignHis(c) \/ FindName(c) \/ FindDefine(c)
              \/ HasInstancesByDefineID(c) \/ DrawIds(c) \/ WriteNext(c)
        BY <2>4 DEF Next
      <3>2. CASE DrawIds(c)
        BY <2>2, <3>2, DrawIdsKeeps DEF IInv
      <3>3. CASE WriteNext(c)
        BY <1>2, <2>2, <3>3, WriteNextKeeps DEF IInv
      <3>4. CASE ~DrawIds(c) /\ ~WriteNext(c)
        <4>1. Reads(c)
          BY <2>2, <3>1, <3>4, deployReads, redeployReads, removeDefineReads, upAndDownReads,
             startAndExecuteReads, designSaveNewReads, DesignReads, designRemoveReads, FindDesignReads,
             ListDesignHisReads, FindNameReads, FindDefineReads, HasInstancesReads
        <4> QED
          BY <2>2, <4>1, ReadKeeps DEF IInv
      <3> QED
        BY <3>2, <3>3, <3>4
    <2> QED
      BY <2>3, <2>4
  <1> QED
    BY <1>1, <1>2

\* As long as no request writes on the strength of rows that another request
\* has changed since, the tables and what every caller relies on stay in order.
THEOREM Inductive == Spec => []IInv
  <1>1. Init => IInv
    BY InitInv
  <1>2. IInv /\ [Next]_vars => IInv'
    BY NextKeeps
  <1> QED
    BY <1>1, <1>2, PTL DEF Spec

\* A mark on a design says that its newest snapshot was published.
THEOREM MarkIsEarned == Spec => []DeployedIsPublished
  <1>1. IInv => DeployedIsPublished
    <2> SUFFICES ASSUME Inv, "overtaken" \notin disorder, NEW d \in DOMAIN designs, designs[d].deployed = 1
                 PROVE  (Snapshots(d) # {} /\ Latest(d).content \in published) \/ Unwritten(d)
      BY DEF IInv, DeployedIsPublished
    <2>1. Justified(Now, d) \/ \E c \in Client : Clearing(job[c], d)
      BY DEF Inv, TablesOK, MarksOK
    <2>2. CASE Justified(Now, d)
      BY <2>2 DEF Justified, Shots, LastShot, Snapshots, Latest, Now
    <2>3. CASE \E c \in Client : Clearing(job[c], d)
      BY <2>3 DEF Clearing, Unmarks, WritesDesign, Unwritten
    <2> QED
      BY <2>1, <2>2, <2>3
  <1> QED
    BY <1>1, Inductive, PTL

\* Both repositories find the same newest row of a name, and there is only one.
THEOREM NewestIsOne == Spec => []LatestAgrees
  <1>1. IInv => LatestAgrees
    <2> SUFFICES ASSUME Inv, disorder = {}
                 PROVE  /\ \A n \in Names : /\ NewestById(n) = NewestByVersion(n)
                                            /\ Cardinality(NewestByVersion(n)) <= 1
                        /\ \A d \in DOMAIN designs : designListByType(d) = FindDefineByName(designs[d].name)
      BY DEF IInv, LatestAgrees
    <2>1. \A n : NewestByVersion(n) = NewestById(n)
      BY NewestAgree DEF Inv
    <2>2. \A d \in DOMAIN designs : designListByType(d) = FindDefineByName(designs[d].name)
      BY <2>1 DEF designListByType, FindDefineByName
    <2>3. ASSUME NEW n PROVE Cardinality(NewestByVersion(n)) <= 1
      <3>1. CASE Rows(n) = {}
        <4>1. NewestByVersion(n) = {}
          BY <3>1 DEF NewestByVersion
        <4> QED
          BY <4>1, FS_EmptySet
      <3>2. CASE Rows(n) # {}
        <4>1. PICK m : NewestByVersion(n) = {m}
          BY <2>1, <3>2, NewestExists DEF Inv
        <4> QED
          BY <4>1, FS_Singleton
      <3> QED
        BY <3>1, <3>2
    <2> QED
      BY <2>1, <2>2, <2>3
  <1> QED
    BY <1>1, Inductive, PTL

-----------------------------------------------------------------------------
(* What holds whatever was overtaken: a request that is not overtaken still  *)
(* finds what it has read, and of an overtaken one it is known what it may   *)
(* write.                                                                    *)

\* An id that has been given out.
Given(i, t) == i \in Nat \ {0} /\ i < t.next["define"]

\* The writes that may come anywhere in a plan, and those that come first only.
Follows(j, w) ==
  \/ w.kind = "RemoveDefine" /\ j.op = "removeDefine"
  \/ w.kind = "UpdateDefineState" /\ j.op = "upAndDown"
  \/ w.kind = "RemoveDesign" /\ j.op # "removeDefine"
  \/ w.kind \in {"SaveDesign", "UpdateDesign"} /\ WritesRow(w) /\ j.op # "removeDefine"
  \/ w.kind = "SaveDesignHis" /\ WritesShot(w) /\ j.op # "removeDefine"
Leads(j, w, s, t) ==
  /\ j.op # "removeDefine"
  /\ \/ /\ w.kind = "SaveDefine" /\ WritesRow(w)
        /\ IF Drawing(j, s) THEN Given(w.id, t) /\ w.id \notin DOMAIN t.defines ELSE w.id = 0
     \/ w.kind = "UpdateDefine" /\ WritesRow(w) /\ Given(w.id, t)
     \/ w.kind = "SaveInstance"

\* What a request that is not overtaken has read of what it writes.
Founded(j, w, t) ==
  /\ w.kind = "UpdateDefine" =>
       /\ \/ Row("define", w.id) \in j.read
          \/ w.id \in DOMAIN t.defines /\ NameRow(t.defines[w.id].name) \in j.read
       /\ w.id \in DOMAIN t.defines => w.row.state = t.defines[w.id].state
  /\ w.kind = "RemoveDefine" => Asked(j, w.id, t)
  /\ w.kind = "SaveInstance" => Row("define", w.id) \in j.read /\ w.id \in DOMAIN t.defines

First(j, w, s, t) == (Leads(j, w, s, t) \/ Follows(j, w)) /\ (~j.overtaken => Founded(j, w, t))
Second(j, w, t) == Follows(j, w) /\ (~j.overtaken => Founded(j, w, t))
Prepared(j, s, t) ==
  \/ Len(j.plan) = 1 /\ j.plan = <<j.plan[1]>> /\ First(j, j.plan[1], s, t)
  \/ /\ Len(j.plan) = 2 /\ j.plan = <<j.plan[1], j.plan[2]>>
     /\ First(j, j.plan[1], s, t) /\ Second(j, j.plan[2], t)

\* removeDefine asks about a batch of one or of two.
Batch(j, t) ==
  \/ Len(j.ids) = 1 /\ j.ids = <<j.ids[1]>> /\ j.id = 1
  \/ /\ Len(j.ids) = 2 /\ j.ids = <<j.ids[1], j.ids[2]>>
     /\ j.id = 1 \/ (j.id = 2 /\ (~j.overtaken => Asked(j, j.ids[1], t)))

Ready(j, s, t) ==
  /\ Shaped(j)
  /\ j.pc \in {"design", "his", "name", "define"} => j.op # "removeDefine"
  /\ j.pc = "define" => Given(j.id, t)
  /\ j.pc = "uses" => j.op = "removeDefine" /\ Batch(j, t)
  /\ j.pc = "number" => s = "jdbc"
  /\ j.pc \in {"number", "write"} => Prepared(j, s, t)

AlwaysInv ==
  /\ NextOK /\ \A i \in DOMAIN defines : Given(i, Now)
  /\ job = [c \in Client |-> job[c]] /\ \A c \in Client : Ready(job[c], store, Now)

LEMMA PreparedOne ==
  ASSUME NEW j, NEW s, NEW t, NEW w, j.plan = <<w>>, First(j, w, s, t)
  PROVE  Prepared(j, s, t)
  <1>1. Len(j.plan) = 1 /\ j.plan[1] = w
    BY Long
  <1> QED
    BY <1>1 DEF Prepared

LEMMA PreparedTwo ==
  ASSUME NEW j, NEW s, NEW t, NEW v, NEW w, j.plan = <<v, w>>, First(j, v, s, t), Second(j, w, t)
  PROVE  Prepared(j, s, t)
  <1>1. Len(j.plan) = 2 /\ j.plan[1] = v /\ j.plan[2] = w
    BY Long
  <1> QED
    BY <1>1 DEF Prepared

LEMMA ReadyIdle ==
  ASSUME NEW s, NEW t
  PROVE  Ready(Idle, s, t)
  BY DEF Ready, Shaped, Idle

LEMMA ReadyPlanned ==
  ASSUME NEW k, Shaped(k), k.pc = IF store = "jdbc" THEN "number" ELSE "write",
         Prepared(k, store, Now)
  PROVE  Ready(k, store, Now)
  BY DEF Ready

LEMMA AlwaysInit == Init => AlwaysInv
  <1> SUFFICES ASSUME Init PROVE AlwaysInv
    OBVIOUS
  <1>1. DOMAIN defines = {}
    BY DEF Init, Nothing
  <1>2. NextOK
    BY DEF Init, NextOK
  <1>3. \A c \in Client : Ready(job[c], store, Now)
    BY ReadyIdle DEF Init
  <1> QED
    BY <1>1, <1>2, <1>3 DEF AlwaysInv, Init

\* A step that writes nothing and leaves its request ready.
Looks(c) == \E k :
  /\ job' = [job EXCEPT ![c] = k] /\ UNCHANGED <<store, mix, tables>> /\ Ready(k, store, Now)

LEMMA LookKeeps ==
  ASSUME AlwaysInv, NEW c \in Client, Looks(c)
  PROVE  AlwaysInv'
  <1>1. PICK k : job' = [job EXCEPT ![c] = k] /\ Ready(k, store, Now)
    BY DEF Looks
  <1>2. UNCHANGED <<store, defines, designs, history, uses, next, published, disorder>>
    BY DEF Looks, tables
  <1>3. Now' = Now
    BY <1>2 DEF Now
  <1>4. job' = [d \in Client |-> IF d = c THEN k ELSE job[d]]
    BY <1>1 DEF AlwaysInv
  <1>5. ASSUME NEW d \in Client PROVE Ready(job'[d], store', Now')
    BY <1>1, <1>2, <1>3, <1>4 DEF AlwaysInv
  <1> QED
    BY <1>2, <1>3, <1>4, <1>5 DEF AlwaysInv, NextOK

(* ---- the first call of a request --------------------------------------- *)
LEMMA EntersReady ==
  ASSUME NEW c \in Client, NEW op, NEW k, Enter(c, op, k), Ready(k, store, Now)
  PROVE  Looks(c)
  BY DEF Enter, Looks

LEMMA EntersPrepared ==
  ASSUME NEW c \in Client, NEW op, NEW j, NEW writes, NEW k, Shaped(j), k = Planning(j, writes),
         Enter(c, op, k), Prepared(k, store, Now)
  PROVE  Looks(c)
  <1>1. Shaped(k) /\ k.pc = IF store = "jdbc" THEN "number" ELSE "write"
    BY Plans
  <1> QED
    BY <1>1, ReadyPlanned, EntersReady

LEMMA SeenGiven ==
  ASSUME AlwaysInv, NEW i \in Seen("define")
  PROVE  Given(i, Now)
  BY DEF Seen, Now, AlwaysInv, NextOK, Given

LEMMA deployLooks ==
  ASSUME NEW c \in Client, deploy(c)
  PROVE  Looks(c)
  <1>1. PICK k, j : j = [Request("deploy", "name", 0, "-") EXCEPT !.content = k] /\ Enter(c, "deploy", j)
    BY DEF deploy
  <1>2. Shaped(j) /\ j.op = "deploy" /\ j.pc = "name"
    BY <1>1 DEF Request, Idle, Shaped
  <1>3. Ready(j, store, Now)
    BY <1>2 DEF Ready
  <1> QED
    BY <1>1, <1>3, EntersReady

LEMMA redeployLooks ==
  ASSUME AlwaysInv, NEW c \in Client, redeploy(c)
  PROVE  Looks(c)
  <1>0. PICK i \in Seen("define"), k \in Content :
          Enter(c, "redeploy", [Request("redeploy", "define", i, "-") EXCEPT !.content = k])
    BY DEF redeploy
  <1>1. PICK j : j = [Request("redeploy", "define", i, "-") EXCEPT !.content = k] /\ Enter(c, "redeploy", j)
    BY <1>0
  <1>2. Shaped(j) /\ j.op = "redeploy" /\ j.pc = "define" /\ j.id = i
    BY <1>1 DEF Request, Idle, Shaped
  <1>3. Ready(j, store, Now)
    BY <1>2, SeenGiven DEF Ready
  <1> QED
    BY <1>1, <1>3, EntersReady

LEMMA startAndExecuteLooks ==
  ASSUME AlwaysInv, NEW c \in Client, startAndExecute(c)
  PROVE  Looks(c)
  <1>0. PICK i \in Seen("define") :
          Enter(c, "startAndExecute", Request("startAndExecute", "define", i, "-"))
    BY DEF startAndExecute
  <1>1. PICK j : j = Request("startAndExecute", "define", i, "-") /\ Enter(c, "startAndExecute", j)
    BY <1>0
  <1>2. Shaped(j) /\ j.op = "startAndExecute" /\ j.pc = "define" /\ j.id = i
    BY <1>1 DEF Request, Idle, Shaped
  <1>3. Ready(j, store, Now)
    BY <1>2, SeenGiven DEF Ready
  <1> QED
    BY <1>1, <1>3, EntersReady

\* A batch is a sequence of one or of two.
LEMMA BatchLong ==
  ASSUME AlwaysInv, NEW table \in {"define", "design"}, NEW b \in Batches(table)
  PROVE  (\E i : b = <<i>>) \/ (\E i, k : b = <<i, k>>)
  BY BatchOf DEF AlwaysInv

LEMMA removeDefineLooks ==
  ASSUME AlwaysInv, NEW c \in Client, removeDefine(c)
  PROVE  Looks(c)
  <1>0. PICK b \in Batches("define") :
          Enter(c, "removeDefine", [Request("removeDefine", "uses", 1, "-") EXCEPT !.ids = b])
    BY DEF removeDefine
  <1>1. PICK j : j = [Request("removeDefine", "uses", 1, "-") EXCEPT !.ids = b] /\ Enter(c, "removeDefine", j)
    BY <1>0
  <1>2. Shaped(j) /\ j.op = "removeDefine" /\ j.pc = "uses" /\ j.id = 1 /\ j.ids = b
    BY <1>1 DEF Request, Idle, Shaped
  <1>3. Batch(j, Now)
    <2>1. CASE \E i : b = <<i>>
      <3>1. PICK i : b = <<i>>
        BY <2>1
      <3>2. Len(b) = 1 /\ b[1] = i
        BY <3>1, Long
      <3> QED
        BY <1>2, <3>1, <3>2 DEF Batch
    <2>2. CASE \E i, k : b = <<i, k>>
      <3>1. PICK i, k : b = <<i, k>>
        BY <2>2
      <3>2. Len(b) = 2 /\ b[1] = i /\ b[2] = k
        BY <3>1, Long
      <3> QED
        BY <1>2, <3>1, <3>2 DEF Batch
    <2> QED
      BY <2>1, <2>2, BatchLong
  <1>4. Ready(j, store, Now)
    BY <1>2, <1>3 DEF Ready
  <1> QED
    BY <1>1, <1>4, EntersReady

\* A batch of writes that rest on nothing.
LEMMA BatchPrepared ==
  ASSUME AlwaysInv, NEW table \in {"define", "design"}, NEW b \in Batches(table), NEW k, NEW writes,
         writes = [l \in DOMAIN b |-> writes[l]], k.plan = writes,
         \A l \in DOMAIN b : Follows(k, writes[l]) /\ Founded(k, writes[l], Now)
  PROVE  Prepared(k, store, Now)
  <1>1. CASE \E i : b = <<i>>
    <2>1. PICK i : b = <<i>>
      BY <1>1
    <2>2. DOMAIN b = {1}
      BY <2>1
    <2>3. PICK w : w = writes[1]
      OBVIOUS
    <2>4. writes = [l \in {1} |-> w]
      BY <2>2, <2>3
    <2>5. writes = <<w>>
      BY <2>4
    <2>6. First(k, w, store, Now)
      BY <2>2, <2>3 DEF First
    <2> QED
      BY <2>5, <2>6, PreparedOne
  <1>2. CASE \E i, m : b = <<i, m>>
    <2>1. PICK i, m : b = <<i, m>>
      BY <1>2
    <2>2. DOMAIN b = {1, 2}
      BY <2>1
    <2>3. PICK v, w : v = writes[1] /\ w = writes[2]
      OBVIOUS
    <2>4. writes = [l \in {1, 2} |-> IF l = 1 THEN v ELSE w]
      BY <2>2, <2>3
    <2>5. writes = <<v, w>>
      BY <2>4
    <2>6. First(k, v, store, Now) /\ Second(k, w, Now)
      BY <2>2, <2>3 DEF First, Second
    <2> QED
      BY <2>5, <2>6, PreparedTwo
  <1> QED
    BY <1>1, <1>2, BatchLong

LEMMA upAndDownLooks ==
  ASSUME AlwaysInv, NEW c \in Client, upAndDown(c)
  PROVE  Looks(c)
  <1>1a. PICK b \in Batches("define") : \E state, j, writes, k :
          /\ j = [Request("upAndDown", "write", 0, "-") EXCEPT !.ids = b] /\ k = Planning(j, writes)
          /\ writes = [l \in DOMAIN b |-> [kind |-> "UpdateDefineState", id |-> b[l], state |-> state]]
          /\ Enter(c, "upAndDown", k)
    BY DEF upAndDown
  <1>1. PICK state, j, writes, k :
          /\ j = [Request("upAndDown", "write", 0, "-") EXCEPT !.ids = b] /\ k = Planning(j, writes)
          /\ writes = [l \in DOMAIN b |-> [kind |-> "UpdateDefineState", id |-> b[l], state |-> state]]
          /\ Enter(c, "upAndDown", k)
    BY <1>1a
  <1>2. Shaped(j) /\ j.op = "upAndDown"
    BY <1>1 DEF Request, Idle, Shaped
  <1>3. k.op = "upAndDown" /\ k.plan = writes
    <2>1. k = Planning(j, writes)
      BY <1>1
    <2>2. k.op = j.op /\ k.plan = writes
      BY <1>2, <2>1, Plans
    <2> QED
      BY <1>2, <2>2
  <1>4. \A l \in DOMAIN b : writes[l].kind = "UpdateDefineState"
    BY <1>1
  <1>5. Prepared(k, store, Now)
    <2>1. writes = [l \in DOMAIN b |-> writes[l]]
      BY <1>1
    <2>2. \A l \in DOMAIN b : Follows(k, writes[l]) /\ Founded(k, writes[l], Now)
      BY <1>3, <1>4 DEF Follows, Founded
    <2> QED
      BY <1>3, <2>1, <2>2, BatchPrepared
  <1> QED
    BY <1>1, <1>2, <1>5, EntersPrepared

LEMMA designRemoveLooks ==
  ASSUME AlwaysInv, NEW c \in Client, designRemove(c)
  PROVE  Looks(c)
  <1>1a. PICK b \in Batches("design") : \E j, writes, k :
          /\ j = [Request("designRemove", "write", 0, "-") EXCEPT !.ids = b] /\ k = Planning(j, writes)
          /\ writes = [l \in DOMAIN b |-> [kind |-> "RemoveDesign", id |-> b[l]]]
          /\ Enter(c, "designRemove", k)
    BY DEF designRemove
  <1>1. PICK j, writes, k :
          /\ j = [Request("designRemove", "write", 0, "-") EXCEPT !.ids = b] /\ k = Planning(j, writes)
          /\ writes = [l \in DOMAIN b |-> [kind |-> "RemoveDesign", id |-> b[l]]]
          /\ Enter(c, "designRemove", k)
    BY <1>1a
  <1>2. Shaped(j) /\ j.op = "designRemove"
    BY <1>1 DEF Request, Idle, Shaped
  <1>3. k.op = "designRemove" /\ k.plan = writes
    <2>1. k = Planning(j, writes)
      BY <1>1
    <2>2. k.op = j.op /\ k.plan = writes
      BY <1>2, <2>1, Plans
    <2> QED
      BY <1>2, <2>2
  <1>4. \A l \in DOMAIN b : writes[l].kind = "RemoveDesign"
    BY <1>1
  <1>5. Prepared(k, store, Now)
    <2>1. writes = [l \in DOMAIN b |-> writes[l]]
      BY <1>1
    <2>2. \A l \in DOMAIN b : Follows(k, writes[l]) /\ Founded(k, writes[l], Now)
      BY <1>3, <1>4 DEF Follows, Founded
    <2> QED
      BY <1>3, <2>1, <2>2, BatchPrepared
  <1> QED
    BY <1>1, <1>2, <1>5, EntersPrepared

\* The writes of a design, which rest on nothing either.
LEMMA RowFollows ==
  ASSUME NEW k, k.op # "removeDefine", NEW kind, kind \in {"SaveDesign", "UpdateDesign"}, NEW id, NEW row,
         NEW w, w = RowWrite(kind, id, row), NEW t
  PROVE  Follows(k, w) /\ Founded(k, w, t)
  BY DEF Follows, Founded, WritesRow, RowWrite

LEMMA ShotFollows ==
  ASSUME NEW k, k.op # "removeDefine", NEW d, NEW content, NEW w, w = Snapshot(d, content), NEW t
  PROVE  Follows(k, w) /\ Founded(k, w, t)
  BY DEF Follows, Founded, WritesShot, Snapshot

LEMMA designSaveNewLooks ==
  ASSUME NEW c \in Client, designSaveNew(c)
  PROVE  Looks(c)
  <1>1a. PICK n \in Names : \E content, j, v, w, writes, k :
          /\ j = [Request("designSave", "write", 0, n) EXCEPT !.content = content] /\ k = Planning(j, writes)
          /\ v = RowWrite("SaveDesign", 0, [name |-> n, deployed |-> 0]) /\ w = Snapshot(0, content)
          /\ writes = <<v>> \o (IF content = "-" THEN <<>> ELSE <<w>>)
          /\ Enter(c, "designSave", k)
    BY DEF designSaveNew
  <1>1. PICK content, j, v, w, writes, k :
          /\ j = [Request("designSave", "write", 0, n) EXCEPT !.content = content] /\ k = Planning(j, writes)
          /\ v = RowWrite("SaveDesign", 0, [name |-> n, deployed |-> 0]) /\ w = Snapshot(0, content)
          /\ writes = <<v>> \o (IF content = "-" THEN <<>> ELSE <<w>>)
          /\ Enter(c, "designSave", k)
    BY <1>1a
  <1>2. Shaped(j) /\ j.op = "designSave"
    BY <1>1 DEF Request, Idle, Shaped
  <1>3. k.plan = writes /\ k.op = "designSave"
    <2>1. k = Planning(j, writes)
      BY <1>1
    <2>2. k.op = j.op /\ k.plan = writes
      BY <1>2, <2>1, Plans
    <2> QED
      BY <1>2, <2>2
  <1>4. First(k, v, store, Now) /\ Second(k, w, Now)
    <2>1. k.op # "removeDefine"
      BY <1>3
    <2>2. Follows(k, v) /\ Founded(k, v, Now) /\ Follows(k, w) /\ Founded(k, w, Now)
      BY <1>1, <2>1, RowFollows, ShotFollows
    <2> QED
      BY <2>2 DEF First, Second
  <1>5. Prepared(k, store, Now)
    <2>1. CASE content = "-"
      <3>1. k.plan = <<v>>
        BY <1>1, <1>3, <2>1, Joined
      <3> QED
        BY <1>4, <3>1, PreparedOne
    <2>2. CASE content # "-"
      <3>1. k.plan = <<v, w>>
        BY <1>1, <1>3, <2>2, Joined
      <3> QED
        BY <1>4, <3>1, PreparedTwo
    <2> QED
      BY <2>1, <2>2
  <1> QED
    BY <1>1, <1>2, <1>5, EntersPrepared

LEMMA DesignLooked ==
  ASSUME NEW c \in Client, NEW op, op # "removeDefine", NEW arg, NEW content, NEW d,
         NEW j, j \in {Request(op, "design", d, arg),
                       [Request(op, "design", d, "-") EXCEPT !.content = content]},
         Enter(c, op, j)
  PROVE  Looks(c)
  <1>1. Shaped(j) /\ j.op = op /\ j.pc = "design"
    BY DEF Request, Idle, Shaped
  <1>2. Ready(j, store, Now)
    BY <1>1 DEF Ready
  <1> QED
    BY <1>2, EntersReady

LEMMA DesignLooks ==
  ASSUME NEW c \in Client,
         designSave(c) \/ designUpdate(c) \/ designUpdateDefine(c) \/ designDeploy(c) \/ designRedeploy(c)
  PROVE  Looks(c)
  BY DesignLooked DEF designSave, designUpdate, designUpdateDefine, designDeploy, designRedeploy

(* ---- the reads --------------------------------------------------------- *)
LEMMA LooksOn ==
  ASSUME NEW c \in Client, NEW j, NEW objects, Proceed(c, j, objects), Ready(Wider(j, objects), store, Now)
  PROVE  Looks(c)
  BY DEF Proceed, Looks, Wider

LEMMA LooksOnPrepared ==
  ASSUME NEW c \in Client, NEW j, NEW writes, NEW objects, Proceed(c, Planning(j, writes), objects), Shaped(j),
         NEW k, k = PlansWider(j, writes, objects), Prepared(k, store, Now)
  PROVE  Looks(c)
  <1>1. Shaped(k) /\ k.pc = IF store = "jdbc" THEN "number" ELSE "write"
    BY PlansWith
  <1>2. Ready(k, store, Now)
    BY <1>1, ReadyPlanned
  <1> QED
    BY <1>2, LooksOn DEF PlansWider

LEMMA FailLooks ==
  ASSUME NEW c \in Client, Fail(c)
  PROVE  Looks(c)
  BY ReadyIdle DEF Fail, Looks

\* What a request has when it comes to a read.
LEMMA Looker ==
  ASSUME AlwaysInv, NEW c \in Client, NEW pc, At(c, pc), NEW j, j = job[c]
  PROVE  Shaped(j) /\ j.pc = pc /\ Ready(j, store, Now)
  BY DEF AlwaysInv, Ready, At

LEMMA FindDesignLooks ==
  ASSUME AlwaysInv, NEW c \in Client, FindDesign(c)
  PROVE  Looks(c)
  <1>1. PICK j, objects : j = job[c] /\ objects = {Row("design", j.id)}
    OBVIOUS
  <1>2. At(c, "design")
    BY DEF FindDesign
  <1>3. Shaped(j) /\ j.op # "removeDefine"
    <2>1. Shaped(j) /\ j.pc = "design" /\ Ready(j, store, Now)
      BY <1>1, <1>2, Looker
    <2> QED
      BY <2>1 DEF Ready
  <1>4. CASE j.id \notin DOMAIN designs
    <2>1. Fail(c)
      BY <1>1, <1>4 DEF FindDesign
    <2> QED
      BY <2>1, FailLooks
  <1>5. CASE j.id \in DOMAIN designs
    <2>1. PICK found, on : found = designs[j.id] /\ on = WithRow(j, found)
      OBVIOUS
    <2>2. Shaped(on) /\ on.op = j.op
      BY <1>3, <2>1, HasRow
    <2>3. CASE j.op = "designSave"
      <3>1. PICK v, w, writes :
              /\ v = RowWrite("UpdateDesign", j.id, Saved(found, j.content)) /\ w = Snapshot(j.id, j.content)
              /\ writes = <<v>> \o (IF j.content = "-" THEN <<>> ELSE <<w>>)
        OBVIOUS
      <3>2. Proceed(c, Planning(on, writes), objects)
        BY <1>1, <1>5, <2>1, <2>3, <3>1 DEF FindDesign, WithRow
      <3>3. PICK k : k = PlansWider(on, writes, objects)
        OBVIOUS
      <3>4. k.plan = writes /\ k.op # "removeDefine"
        <4>1. k.plan = writes /\ k.op = on.op
          BY <2>2, <3>3, PlansWith
        <4> QED
          BY <1>3, <2>2, <4>1
      <3>5. First(k, v, store, Now) /\ Second(k, w, Now)
        <4>1. Follows(k, v) /\ Founded(k, v, Now) /\ Follows(k, w) /\ Founded(k, w, Now)
          BY <3>1, <3>4, RowFollows, ShotFollows
        <4> QED
          BY <4>1 DEF First, Second
      <3>6. Prepared(k, store, Now)
        <4>1. CASE j.content = "-"
          <5>1. k.plan = <<v>>
            BY <3>1, <3>4, <4>1, Joined
          <5> QED
            BY <3>5, <5>1, PreparedOne
        <4>2. CASE j.content # "-"
          <5>1. k.plan = <<v, w>>
            BY <3>1, <3>4, <4>2, Joined
          <5> QED
            BY <3>5, <5>1, PreparedTwo
        <4> QED
          BY <4>1, <4>2
      <3> QED
        BY <2>2, <3>2, <3>3, <3>6, LooksOnPrepared
    <2>4. CASE j.op = "designUpdate"
      <3>1. PICK row, v : /\ row = (IF j.arg = "-" THEN found ELSE [found EXCEPT !.name = j.arg])
                          /\ v = RowWrite("UpdateDesign", j.id, row)
        OBVIOUS
      <3>2. Proceed(c, Planning(on, <<v>>), objects)
        BY <1>1, <1>5, <2>1, <2>4, <3>1 DEF FindDesign, WithRow
      <3>3. PICK k : k = PlansWider(on, <<v>>, objects)
        OBVIOUS
      <3>4. k.plan = <<v>> /\ k.op # "removeDefine"
        <4>1. k.plan = <<v>> /\ k.op = on.op
          BY <2>2, <3>3, PlansWith
        <4> QED
          BY <1>3, <2>2, <4>1
      <3>5. First(k, v, store, Now)
        <4>1. Follows(k, v) /\ Founded(k, v, Now)
          BY <3>1, <3>4, RowFollows
        <4> QED
          BY <4>1 DEF First
      <3>6. Prepared(k, store, Now)
        BY <3>4, <3>5, PreparedOne
      <3> QED
        BY <2>2, <3>2, <3>3, <3>6, LooksOnPrepared
    <2>5. CASE j.op # "designSave" /\ j.op # "designUpdate"
      <3>1. PICK i : i = WithPc(on, "his")
        OBVIOUS
      <3>2. Proceed(c, i, objects)
        BY <1>1, <1>5, <2>1, <2>5, <3>1 DEF FindDesign, WithPc, WithRow
      <3>3. PICK k : k = Wider(i, objects)
        OBVIOUS
      <3>4. Shaped(k) /\ k.pc = "his" /\ k.op # "removeDefine"
        <4>1. Shaped(i) /\ i.pc = "his" /\ i.op = on.op
          BY <2>2, <3>1, HasPc
        <4>2. Shaped(k) /\ k.pc = i.pc /\ k.op = i.op
          BY <3>3, <4>1, Extended
        <4> QED
          BY <1>3, <2>2, <4>1, <4>2
      <3>5. Ready(k, store, Now)
        BY <3>4 DEF Ready
      <3> QED
        BY <3>2, <3>3, <3>5, LooksOn
    <2> QED
      BY <2>3, <2>4, <2>5
  <1> QED
    BY <1>4, <1>5

LEMMA ListDesignHisLooks ==
  ASSUME AlwaysInv, NEW c \in Client, ListDesignHis(c)
  PROVE  Looks(c)
  <1>1. PICK j, objects, content : j = job[c] /\ objects = {Row("his", j.id)} /\ content = Latest(j.id).content
    OBVIOUS
  <1>2. At(c, "his")
    BY DEF ListDesignHis
  <1>3. Shaped(j) /\ j.op # "removeDefine"
    <2>1. Shaped(j) /\ j.pc = "his" /\ Ready(j, store, Now)
      BY <1>1, <1>2, Looker
    <2> QED
      BY <2>1 DEF Ready
  <1>4. CASE j.op = "designUpdateDefine"
    <2>1. PICK row, v, w, new, writes :
            /\ row = [name |-> NameOf[j.content], deployed |-> 0] /\ v = RowWrite("UpdateDesign", j.id, row)
            /\ w = Snapshot(j.id, j.content)
            /\ new = IF Snapshots(j.id) # {} /\ content = j.content THEN <<>> ELSE <<w>>
            /\ writes = new \o <<v>>
      OBVIOUS
    <2>2. Proceed(c, Planning(j, writes), objects)
      BY <1>1, <1>4, <2>1 DEF ListDesignHis
    <2>3. PICK k : k = PlansWider(j, writes, objects)
      OBVIOUS
    <2>4. k.plan = writes /\ k.op # "removeDefine"
      <3>1. k.plan = writes /\ k.op = j.op
        BY <1>3, <2>3, PlansWith
      <3> QED
        BY <1>3, <3>1
    <2>5. First(k, w, store, Now) /\ First(k, v, store, Now) /\ Second(k, v, Now)
      <3>1. Follows(k, v) /\ Founded(k, v, Now) /\ Follows(k, w) /\ Founded(k, w, Now)
        BY <2>1, <2>4, RowFollows, ShotFollows
      <3> QED
        BY <3>1 DEF First, Second
    <2>6. Prepared(k, store, Now)
      <3>1. k.plan = <<v>> \/ k.plan = <<w, v>>
        BY <2>1, <2>4, Joined
      <3> QED
        BY <2>5, <3>1, PreparedOne, PreparedTwo
    <2> QED
      BY <1>3, <2>2, <2>3, <2>6, LooksOnPrepared
  <1>5. CASE j.op # "designUpdateDefine" /\ Snapshots(j.id) = {}
    <2>1. Fail(c)
      BY <1>1, <1>5 DEF ListDesignHis
    <2> QED
      BY <2>1, FailLooks
  <1>6. CASE j.op # "designUpdateDefine" /\ Snapshots(j.id) # {}
    <2>1. PICK i, l : i = WithPc(j, "name") /\ l = WithContent(i, content)
      OBVIOUS
    <2>2. Proceed(c, l, objects)
      <3>1. l = [j EXCEPT !.pc = "name", !.content = content]
        BY <2>1 DEF WithPc, WithContent
      <3> QED
        BY <1>1, <1>6, <3>1 DEF ListDesignHis
    <2>3. PICK k : k = Wider(l, objects)
      OBVIOUS
    <2>4. Shaped(k) /\ k.pc = "name" /\ k.op # "removeDefine"
      <3>1. Shaped(i) /\ i.pc = "name" /\ i.op = j.op
        BY <1>3, <2>1, HasPc
      <3>2. Shaped(l) /\ l.pc = i.pc /\ l.op = i.op
        BY <2>1, <3>1, HasContent
      <3>3. Shaped(k) /\ k.pc = l.pc /\ k.op = l.op
        BY <2>3, <3>2, Extended
      <3> QED
        BY <1>3, <3>1, <3>2, <3>3
    <2>5. Ready(k, store, Now)
      BY <2>4 DEF Ready
    <2> QED
      BY <2>2, <2>3, <2>5, LooksOn
  <1> QED
    BY <1>4, <1>5, <1>6

LEMMA FindDefineLooks ==
  ASSUME AlwaysInv, NEW c \in Client, FindDefine(c)
  PROVE  Looks(c)
  <1>1. PICK j, objects : j = job[c] /\ objects = {Row("define", j.id)}
    OBVIOUS
  <1>2. At(c, "define")
    BY DEF FindDefine
  <1>3. Shaped(j) /\ j.op # "removeDefine" /\ Given(j.id, Now)
    <2>1. Shaped(j) /\ j.pc = "define" /\ Ready(j, store, Now)
      BY <1>1, <1>2, Looker
    <2> QED
      BY <2>1 DEF Ready
  <1>4. \A k, w : /\ k.op # "removeDefine" /\ k.plan = <<w>> /\ Leads(k, w, store, Now) /\ Founded(k, w, Now)
                  => Prepared(k, store, Now)
    BY PreparedOne DEF First
  <1>5. CASE j.op = "redeploy"
    <2>1. PICK row, v : /\ row = IF j.id \in DOMAIN defines THEN Replacement(j.content, j.id)
                                 ELSE Define(j.content, 0, 0)
                        /\ v = RowWrite("UpdateDefine", j.id, row)
      OBVIOUS
    <2>2. Proceed(c, Planning(j, <<v>>), objects)
      BY <1>1, <1>5, <2>1 DEF FindDefine
    <2>3. PICK k : k = PlansWider(j, <<v>>, objects)
      OBVIOUS
    <2>4. k.plan = <<v>> /\ k.op = j.op /\ k.read = j.read \union objects
      BY <1>3, <2>3, PlansWith
    <2>5. j.id \in DOMAIN defines => row.state = defines[j.id].state
      BY <2>1 DEF Replacement, Define
    <2>6. v.kind = "UpdateDefine" /\ v.id = j.id /\ v.row = row /\ WritesRow(v)
      BY <2>1 DEF RowWrite, WritesRow
    <2>7. Leads(k, v, store, Now) /\ Founded(k, v, Now)
      BY <1>1, <1>3, <2>4, <2>5, <2>6 DEF Leads, Founded, Now
    <2>8. Prepared(k, store, Now)
      BY <1>3, <1>4, <2>4, <2>7
    <2> QED
      BY <1>3, <2>2, <2>3, <2>8, LooksOnPrepared
  <1>6. CASE j.op # "redeploy" /\ j.id \notin DOMAIN defines
    <2>1. Fail(c)
      BY <1>1, <1>6 DEF FindDefine
    <2> QED
      BY <2>1, FailLooks
  <1>7. CASE j.op # "redeploy" /\ j.id \in DOMAIN defines
    <2>1. PICK w : w = [kind |-> "SaveInstance", id |-> j.id]
      OBVIOUS
    <2>2. Proceed(c, Planning(j, <<w>>), objects)
      BY <1>1, <1>7, <2>1 DEF FindDefine
    <2>3. PICK k : k = PlansWider(j, <<w>>, objects)
      OBVIOUS
    <2>4. k.plan = <<w>> /\ k.op = j.op /\ k.read = j.read \union objects
      BY <1>3, <2>3, PlansWith
    <2>5. w.kind = "SaveInstance" /\ w.id = j.id
      BY <2>1
    <2>6. Leads(k, w, store, Now) /\ Founded(k, w, Now)
      BY <1>1, <1>3, <1>7, <2>4, <2>5 DEF Leads, Founded, Now
    <2>7. Prepared(k, store, Now)
      BY <1>3, <1>4, <2>4, <2>6
    <2> QED
      BY <1>3, <2>2, <2>3, <2>7, LooksOnPrepared
  <1> QED
    BY <1>5, <1>6, <1>7

\* A publication: the definition first, then the mark of the design.
LEMMA PublicationPrepared ==
  ASSUME NEW j, j.op # "removeDefine", NEW k, k.op = j.op, NEW v, k.plan = <<v>> \o MarkDeployed(j),
         Leads(k, v, store, Now), Founded(k, v, Now)
  PROVE  Prepared(k, store, Now)
  <1>1. First(k, v, store, Now)
    BY DEF First
  <1>2. CASE j.op = "deploy"
    <2>1. k.plan = <<v>>
      BY <1>2, Joined DEF MarkDeployed
    <2> QED
      BY <1>1, <2>1, PreparedOne
  <1>3. CASE j.op # "deploy"
    <2>1. PICK row, w : row = [j.row EXCEPT !.deployed = 1] /\ w = RowWrite("UpdateDesign", j.id, row)
      OBVIOUS
    <2>2. k.plan = <<v, w>>
      BY <1>3, <2>1, Joined DEF MarkDeployed
    <2>3. Follows(k, w) /\ Founded(k, w, Now)
      BY <2>1, RowFollows
    <2>4. Second(k, w, Now)
      BY <2>3 DEF Second
    <2> QED
      BY <1>1, <2>2, <2>4, PreparedTwo
  <1> QED
    BY <1>2, <1>3

LEMMA FindNameLooks ==
  ASSUME AlwaysInv, NEW c \in Client, FindName(c)
  PROVE  Looks(c)
  <1>1. PICK j, n, objects, newest :
          j = job[c] /\ n = NameOf[j.content] /\ objects = {NameRow(n)} /\ newest = FindDefineByName(n)
    OBVIOUS
  <1>2. At(c, "name")
    BY DEF FindName
  <1>3. Shaped(j) /\ j.pc = "name" /\ j.op # "removeDefine"
    <2>1. Shaped(j) /\ j.pc = "name" /\ Ready(j, store, Now)
      BY <1>1, <1>2, Looker
    <2> QED
      BY <2>1 DEF Ready
  <1>4. newest \subseteq Rows(n)
    BY <1>1 DEF FindDefineByName, NewestById, NewestByVersion
  <1>5. CASE newest = {} /\ j.op = "designRedeploy" /\ j.arg # "deploy"
    <2>1. PICK i : i = WithArg(j, "deploy")
      OBVIOUS
    <2>2. Proceed(c, i, objects)
      BY <1>1, <1>5, <2>1 DEF FindName, WithArg
    <2>3. PICK k : k = Wider(i, objects)
      OBVIOUS
    <2>4. Shaped(k) /\ k.pc = "name" /\ k.op # "removeDefine"
      <3>1. Shaped(i) /\ i.pc = j.pc /\ i.op = j.op
        BY <1>3, <2>1, HasArg
      <3>2. Shaped(k) /\ k.pc = i.pc /\ k.op = i.op
        BY <2>3, <3>1, Extended
      <3> QED
        BY <1>3, <3>1, <3>2
    <2>5. Ready(k, store, Now)
      BY <2>4 DEF Ready
    <2> QED
      BY <2>2, <2>3, <2>5, LooksOn
  <1>6. ASSUME NEW v, Proceed(c, Planning(j, <<v>> \o MarkDeployed(j)), objects),
               \/ \E version : v = RowWrite("SaveDefine", 0, Define(j.content, version, 1))
               \/ \E i \in Rows(n) : v = RowWrite("UpdateDefine", i, Replacement(j.content, i))
        PROVE  Looks(c)
    <2>1. PICK writes, k : writes = <<v>> \o MarkDeployed(j) /\ k = PlansWider(j, writes, objects)
      OBVIOUS
    <2>2. /\ k.plan = writes /\ k.op = j.op /\ k.read = j.read \union objects
          /\ k.pc = IF store = "jdbc" THEN "number" ELSE "write"
      <3>1. k = PlansWider(j, writes, objects)
        BY <2>1
      <3> QED
        BY <1>3, <3>1, PlansWith
    <2>3. Leads(k, v, store, Now) /\ Founded(k, v, Now)
      <3>1. CASE \E version : v = RowWrite("SaveDefine", 0, Define(j.content, version, 1))
        <4>1. PICK version, row : row = Define(j.content, version, 1) /\ v = RowWrite("SaveDefine", 0, row)
          BY <3>1
        <4>2. v.kind = "SaveDefine" /\ v.id = 0 /\ WritesRow(v)
          BY <4>1 DEF RowWrite, WritesRow
        <4>3. ~Drawing(k, store)
          BY <2>2, NotDrawing
        <4> QED
          BY <1>3, <2>2, <4>2, <4>3 DEF Leads, Founded
      <3>2. CASE \E i \in Rows(n) : v = RowWrite("UpdateDefine", i, Replacement(j.content, i))
        <4>1a. PICK i \in Rows(n) : \E row :
                  row = Replacement(j.content, i) /\ v = RowWrite("UpdateDefine", i, row)
          BY <3>2
        <4>1. PICK row : row = Replacement(j.content, i) /\ v = RowWrite("UpdateDefine", i, row)
          BY <4>1a
        <4>2. row.state = defines[i].state
          BY <4>1 DEF Replacement, Define
        <4>3. v.kind = "UpdateDefine" /\ v.id = i /\ v.row = row /\ WritesRow(v)
          BY <4>1 DEF RowWrite, WritesRow
        <4>4. i \in DOMAIN defines /\ defines[i].name = n
          BY DEF Rows
        <4>5. Given(i, Now)
          BY <4>4 DEF AlwaysInv
        <4>6. Leads(k, v, store, Now)
          BY <1>3, <2>2, <4>3, <4>5 DEF Leads
        <4>7. NameRow(n) \in k.read
          BY <1>1, <2>2
        <4>8. Founded(k, v, Now)
          BY <4>2, <4>3, <4>4, <4>7 DEF Founded, Now
        <4> QED
          BY <4>6, <4>8
      <3> QED
        BY <1>6, <3>1, <3>2
    <2>4. Prepared(k, store, Now)
      BY <1>3, <2>1, <2>2, <2>3, PublicationPrepared
    <2> QED
      BY <1>3, <1>6, <2>1, <2>4, LooksOnPrepared
  <1>7. CASE newest = {} /\ ~(j.op = "designRedeploy" /\ j.arg # "deploy")
    <2>1. PICK v : v = RowWrite("SaveDefine", 0, Define(j.content, 0, 1))
      OBVIOUS
    <2>2. Proceed(c, Planning(j, <<v>> \o MarkDeployed(j)), objects)
      BY <1>1, <1>7, <2>1 DEF FindName
    <2> QED
      BY <1>6, <2>1, <2>2
  <1>8. CASE newest # {}
    <2>1a. PICK i \in newest :
              Proceed(c, Planning(j, (IF j.op = "designRedeploy" /\ j.arg # "deploy"
                                      THEN <<RowWrite("UpdateDefine", i, Replacement(j.content, i))>>
                                      ELSE <<RowWrite("SaveDefine", 0, Define(j.content, NextVersion(i), 1))>>)
                                     \o MarkDeployed(j)), objects)
      BY <1>1, <1>8 DEF FindName
    <2>1. PICK v :
            /\ v = IF j.op = "designRedeploy" /\ j.arg # "deploy"
                   THEN RowWrite("UpdateDefine", i, Replacement(j.content, i))
                   ELSE RowWrite("SaveDefine", 0, Define(j.content, NextVersion(i), 1))
            /\ Proceed(c, Planning(j, <<v>> \o MarkDeployed(j)), objects)
      BY <2>1a
    <2>2. i \in Rows(n)
      BY <1>4
    <2> QED
      BY <1>6, <2>1, <2>2
  <1> QED
    BY <1>5, <1>7, <1>8

LEMMA HasInstancesLooks ==
  ASSUME AlwaysInv, NEW c \in Client, HasInstancesByDefineID(c)
  PROVE  Looks(c)
  <1>1. PICK j, asked, objects : j = job[c] /\ asked = j.ids[j.id] /\ objects = {Row("uses", asked)}
    OBVIOUS
  <1>2. At(c, "uses")
    BY DEF HasInstancesByDefineID
  <1>3. Shaped(j) /\ j.op = "removeDefine" /\ j.pc = "uses" /\ Batch(j, Now)
    <2>1. Shaped(j) /\ j.pc = "uses" /\ Ready(j, store, Now)
      BY <1>1, <1>2, Looker
    <2> QED
      BY <2>1 DEF Ready
  <1>4. CASE asked \in uses
    <2>1. Fail(c)
      BY <1>1, <1>4 DEF HasInstancesByDefineID
    <2> QED
      BY <2>1, FailLooks
  <1>5. CASE asked \notin uses /\ MoreToAsk(j)
    <2>1. PICK i : i = WithId(j, j.id + 1)
      OBVIOUS
    <2>2. Proceed(c, i, objects)
      BY <1>1, <1>5, <2>1 DEF HasInstancesByDefineID, WithId
    <2>3. PICK k : k = Wider(i, objects)
      OBVIOUS
    <2>4. /\ Shaped(k) /\ k.op = "removeDefine" /\ k.pc = "uses" /\ k.id = j.id + 1 /\ k.ids = j.ids
          /\ k.read = j.read \union objects
      <3>1. /\ Shaped(i) /\ i.op = j.op /\ i.pc = j.pc /\ i.id = j.id + 1 /\ i.ids = j.ids /\ i.read = j.read
        BY <1>3, <2>1, HasId
      <3>2. /\ Shaped(k) /\ k.op = i.op /\ k.pc = i.pc /\ k.id = i.id /\ k.ids = i.ids /\ k.read = i.read \union objects
        BY <2>3, <3>1, Extended
      <3> QED
        BY <1>3, <3>1, <3>2
    <2>5. Len(j.ids) = 2 /\ j.id = 1 /\ j.ids = <<j.ids[1], j.ids[2]>>
      <3>1. j.id < Len(j.ids)
        BY <1>5 DEF MoreToAsk
      <3>2. ~(j.id = 1 /\ Len(j.ids) = 1) /\ ~(j.id = 2 /\ Len(j.ids) = 2)
        <4>1. \A a, b : a < b => ~(a = 1 /\ b = 1) /\ ~(a = 2 /\ b = 2)
          OBVIOUS
        <4> QED
          BY <3>1, <4>1
      <3> QED
        BY <1>3, <3>2 DEF Batch
    <2>6. Batch(k, Now)
      <3>1. k.id = 2 /\ Asked(k, k.ids[1], Now)
        BY <1>1, <1>5, <2>4, <2>5 DEF Asked, Now
      <3> QED
        BY <2>4, <2>5, <3>1 DEF Batch
    <2>7. Ready(k, store, Now)
      BY <2>4, <2>6 DEF Ready
    <2> QED
      BY <2>2, <2>3, <2>7, LooksOn
  <1>6. CASE asked \notin uses /\ ~MoreToAsk(j)
    <2>1. PICK writes, k : /\ writes = [m \in DOMAIN j.ids |-> [kind |-> "RemoveDefine", id |-> j.ids[m]]]
                           /\ k = PlansWider(j, writes, objects)
      OBVIOUS
    <2>2. Proceed(c, Planning(j, writes), objects)
      BY <1>1, <1>6, <2>1 DEF HasInstancesByDefineID
    <2>3. k.op = "removeDefine" /\ k.plan = writes /\ k.read = j.read \union objects /\ k.overtaken = j.overtaken
      <3>1. k.op = j.op /\ k.plan = writes /\ k.read = j.read \union objects /\ k.overtaken = j.overtaken
        BY <1>3, <2>1, PlansWith
      <3> QED
        BY <1>3, <3>1
    <2>4. \A w, id : w = [kind |-> "RemoveDefine", id |-> id] =>
                       Follows(k, w) /\ (Asked(k, id, Now) => Founded(k, w, Now))
      BY <2>3 DEF Follows, Founded
    <2>5. Asked(k, asked, Now)
      BY <1>1, <1>6, <2>3 DEF Asked, Now
    <2>6. ASSUME Len(j.ids) = 1 PROVE Prepared(k, store, Now)
      <3>1. j.ids = <<j.ids[1]>> /\ j.id = 1
        BY <1>3, <2>6 DEF Batch
      <3>2. PICK a, w : a = j.ids[1] /\ j.ids = <<a>> /\ w = [kind |-> "RemoveDefine", id |-> a]
        BY <3>1
      <3>3. writes = <<w>> /\ asked = a
        BY <1>1, <2>1, <3>1, <3>2
      <3>4. First(k, w, store, Now)
        BY <2>4, <2>5, <3>2, <3>3 DEF First
      <3> QED
        BY <2>3, <3>3, <3>4, PreparedOne
    <2>7. ASSUME Len(j.ids) # 1 PROVE Prepared(k, store, Now)
      <3>1. /\ Len(j.ids) = 2 /\ j.ids = <<j.ids[1], j.ids[2]>>
            /\ j.id = 2 /\ (~j.overtaken => Asked(j, j.ids[1], Now))
        BY <1>3, <1>6, <2>7 DEF Batch, MoreToAsk
      <3>2. PICK a, b, v, w : /\ a = j.ids[1] /\ b = j.ids[2] /\ j.ids = <<a, b>>
                              /\ v = [kind |-> "RemoveDefine", id |-> a] /\ w = [kind |-> "RemoveDefine", id |-> b]
        BY <3>1
      <3>3. writes = <<v, w>> /\ asked = b
        BY <1>1, <2>1, <3>1, <3>2
      <3>4. Second(k, w, Now)
        BY <2>4, <2>5, <3>2, <3>3 DEF Second
      <3>5. ~k.overtaken => Asked(k, a, Now)
        BY <2>3, <3>1, <3>2 DEF Asked
      <3>6. First(k, v, store, Now)
        BY <2>4, <3>2, <3>5 DEF First
      <3> QED
        BY <2>3, <3>3, <3>4, <3>6, PreparedTwo
    <2> QED
      BY <1>3, <2>1, <2>2, <2>6, <2>7, LooksOnPrepared
  <1> QED
    BY <1>4, <1>5, <1>6

(* ---- the writes -------------------------------------------------------- *)
LEMMA NumberedOther ==
  ASSUME NEW w, w.kind \notin {"SaveDefine", "SaveDesign", "SaveDesignHis"}
  PROVE  Numbered(w) = w
  BY DEF Numbered, TableOf

\* A write v of a request j gets its id as it is drawn, w is what is written.
LEMMA Numbers ==
  ASSUME AlwaysInv, NEW j, NEW v, Leads(j, v, store, Now) \/ Follows(j, v), NEW w, w = Numbered(v),
         NEW writes, NEW l \in DOMAIN writes, writes[l] = v, next' = Advance(Drawn(writes))
  PROVE  /\ w.kind = v.kind /\ (Follows(j, v) => Follows(j, w))
         /\ v.kind \notin {"SaveDefine", "SaveDesign", "SaveDesignHis"} => w = v
         /\ v.kind = "SaveDefine" =>
              WritesRow(w) /\ Given(w.id, Now') /\ w.id \notin DOMAIN defines
         /\ Later
  <1>1. Later /\ \A table \in {"define", "design", "his"} :
                   table \in Drawn(writes) => next'[table] = next[table] + 1
    BY Advanced DEF AlwaysInv
  <1>2. Now.next = next /\ Now'.next = next' /\ Now.defines = defines
    BY DEF Now
  <1>3. CASE v.kind \notin {"SaveDefine", "SaveDesign", "SaveDesignHis"}
    <2>1. w = v
      BY <1>3, NumberedOther
    <2> QED
      BY <1>1, <1>3, <2>1
  <1>4. CASE v.kind = "SaveDefine"
    <2>1. Leads(j, v, store, Now) /\ ~Follows(j, v)
      BY <1>4 DEF Follows
    <2>2. WritesRow(v)
      BY <1>4, <2>1 DEF Leads
    <2>3. CASE v.id = 0
      <3>1. TableOf(v) = "define" /\ w = RowWrite("SaveDefine", next["define"], v.row)
        BY <1>4, <2>2, <2>3, NumberedRow
      <3>2. TableOf(v) \in Drawn(writes)
        BY <2>3 DEF Drawn
      <3>3. next'["define"] = next["define"] + 1
        BY <1>1, <3>1, <3>2
      <3>4. w.kind = "SaveDefine" /\ w.id = next["define"] /\ WritesRow(w)
        BY <3>1 DEF RowWrite, WritesRow
      <3>5. next["define"] \in Nat \ {0} /\ \A i \in DOMAIN defines : i \in Nat /\ i < next["define"]
        BY <1>2 DEF AlwaysInv, NextOK, Given
      <3>6. w.id \notin DOMAIN defines
        <4>1. \A n \in Nat : ~(n < n)
          OBVIOUS
        <4> QED
          BY <3>4, <3>5, <4>1
      <3> QED
        BY <1>1, <1>2, <1>4, <2>1, <3>3, <3>4, <3>5, <3>6 DEF Given
    <2>4. CASE v.id # 0
      <3>1. w = v
        BY <2>4, NumberedKnown
      <3>2. Given(w.id, Now) /\ w.id \notin DOMAIN defines
        BY <1>2, <1>4, <2>1, <2>4, <3>1 DEF Leads
      <3>3. Given(w.id, Now')
        BY <1>1, <1>2, <3>2 DEF Given, Later, NextOK, AlwaysInv
      <3> QED
        BY <1>1, <1>4, <2>1, <2>2, <3>1, <3>2, <3>3
    <2> QED
      BY <2>3, <2>4
  <1>5. CASE v.kind = "SaveDesign"
    <2>1. WritesRow(v) /\ Follows(j, v) /\ j.op # "removeDefine"
      BY <1>5 DEF Leads, Follows
    <2>2. w.kind = "SaveDesign" /\ WritesRow(w)
      <3>1. CASE v.id = 0
        <4>1. w = RowWrite("SaveDesign", next["design"], v.row)
          BY <1>5, <2>1, <3>1, NumberedRow
        <4> QED
          BY <4>1 DEF RowWrite, WritesRow
      <3>2. CASE v.id # 0
        BY <1>5, <2>1, <3>2, NumberedKnown
      <3> QED
        BY <3>1, <3>2
    <2> QED
      BY <1>1, <1>5, <2>1, <2>2 DEF Follows
  <1>6. CASE v.kind = "SaveDesignHis"
    <2>1. WritesShot(v) /\ Follows(j, v) /\ j.op # "removeDefine"
      BY <1>6 DEF Leads, Follows
    <2>2. w.kind = "SaveDesignHis" /\ WritesShot(w)
      <3>1. CASE v.id = 0
        <4>1. PICK d : d = IF v.design = 0 THEN next["design"] ELSE v.design
          OBVIOUS
        <4>2. w = [kind |-> "SaveDesignHis", id |-> next["his"], design |-> d, content |-> v.content]
          BY <1>6, <2>1, <3>1, <4>1, NumberedShot
        <4> QED
          BY <4>2 DEF WritesShot
      <3>2. CASE v.id # 0
        BY <1>6, <2>1, <3>2, NumberedKnown
      <3> QED
        BY <3>1, <3>2
    <2> QED
      BY <1>1, <1>6, <2>1, <2>2 DEF Follows
  <1> QED
    BY <1>3, <1>4, <1>5, <1>6

\* The requests that have read nothing of what changes stay ready.
Stands(j) ==
  /\ \A w : Founded(j, w, Now) => Founded(j, w, Now')
  /\ \A i : Asked(j, i, Now) => Asked(j, i, Now')

LEMMA ReadyStays ==
  ASSUME Later, NextOK, store' = store, NEW i, Ready(i, store, Now), ~Drawing(i, store), NEW k, Shaped(k),
         k.op = i.op, k.pc = i.pc, k.id = i.id, k.ids = i.ids, k.plan = i.plan, k.read = i.read,
         ~k.overtaken => ~i.overtaken /\ Stands(i)
  PROVE  Ready(k, store', Now')
  <1>1. \A n : Given(n, Now) => Given(n, Now')
    BY DEF Given, Later, NextOK, Now
  <1>2. ~Drawing(k, store)
    BY DEF Drawing
  <1>3. \A w : Leads(i, w, store, Now) => Leads(k, w, store, Now')
    BY <1>1, <1>2 DEF Leads
  <1>4. \A w : Follows(i, w) => Follows(k, w)
    BY DEF Follows
  <1>5. \A w : ~k.overtaken /\ Founded(i, w, Now) => ~i.overtaken /\ Founded(k, w, Now')
    BY DEF Stands, Founded, Asked
  <1>6. ASSUME ~k.overtaken PROVE \A n : Asked(i, n, Now) => Asked(k, n, Now')
    BY <1>6 DEF Stands, Asked
  <1>7. \A w : First(i, w, store, Now) => First(k, w, store, Now')
    BY <1>3, <1>4, <1>5 DEF First
  <1>8. \A w : Second(i, w, Now) => Second(k, w, Now')
    BY <1>4, <1>5 DEF Second
  <1>9. Prepared(i, store, Now) => Prepared(k, store, Now')
    BY <1>7, <1>8 DEF Prepared
  <1>10. Batch(i, Now) => Batch(k, Now')
    BY <1>6 DEF Batch
  <1> QED
    BY <1>1, <1>9, <1>10 DEF Ready

LEMMA DrawIdsReady ==
  ASSUME AlwaysInv, NEW c \in Client, DrawIds(c)
  PROVE  AlwaysInv'
  <1>1. PICK j, plan : j = job[c] /\ plan = [l \in DOMAIN j.plan |-> Numbered(j.plan[l])]
    OBVIOUS
  <1>2. /\ j.pc = "number" /\ Quiet(c) /\ next' = Advance(Drawn(j.plan))
        /\ UNCHANGED <<store, defines, designs, history, uses, published, disorder>>
    BY <1>1 DEF DrawIds, At
  <1>3. Shaped(j) /\ store = "jdbc" /\ Prepared(j, store, Now) /\ NextOK
    BY <1>1, <1>2 DEF AlwaysInv, Ready
  <1>4. PICK k : k = [[j EXCEPT !.pc = "write"] EXCEPT !.plan = plan]
    OBVIOUS
  <1>5. Shaped(k) /\ k.op = j.op /\ k.pc = "write" /\ k.plan = plan /\ k.read = j.read /\ k.overtaken = j.overtaken
    <2>1. PICK b : b = j.overtaken /\ b \in BOOLEAN
      BY <1>3 DEF Shaped
    <2>2. PICK l : l = [op |-> j.op, pc |-> "write", id |-> j.id, arg |-> j.arg, ids |-> j.ids, row |-> j.row,
                        content |-> j.content, plan |-> j.plan, read |-> j.read, overtaken |-> b]
      OBVIOUS
    <2>3. l = [j EXCEPT !.pc = "write"]
      BY <1>3, <2>1, <2>2 DEF Shaped
    <2>4. k = [op |-> j.op, pc |-> "write", id |-> j.id, arg |-> j.arg, ids |-> j.ids, row |-> j.row,
               content |-> j.content, plan |-> plan, read |-> j.read, overtaken |-> b]
      <3>1. k = [l EXCEPT !.plan = plan]
        BY <1>4, <2>3
      <3> QED
        BY <2>2, <3>1
    <2> QED
      BY <2>1, <2>4 DEF Shaped
  <1>6. job' = [d \in Client |-> IF d = c THEN k ELSE job[d]]
    <2>1. job' = [job EXCEPT ![c] = k]
      BY <1>1, <1>4 DEF DrawIds
    <2> QED
      BY <2>1 DEF AlwaysInv
  <1>7. /\ Now'.defines = defines /\ Now'.uses = uses /\ Now.defines = defines /\ Now.uses = uses
    BY <1>2 DEF Now
  <1>8. \A i, w : (Founded(i, w, Now) <=> Founded(i, w, Now'))
    BY <1>7 DEF Founded, Asked
  <1>9. \A i : Stands(i)
    BY <1>7, <1>8 DEF Stands, Asked
  <1>10. ASSUME NEW l \in DOMAIN j.plan, NEW v, v = j.plan[l], NEW w, w = Numbered(v)
         PROVE  /\ First(j, v, store, Now) => First(k, w, store, Now')
                /\ Second(j, v, Now) => Second(k, w, Now')
                /\ Leads(j, v, store, Now) \/ Follows(j, v) => Later
    <2>1. ASSUME Leads(j, v, store, Now) \/ Follows(j, v)
          PROVE  /\ w.kind = v.kind /\ (Follows(j, v) => Follows(j, w))
                 /\ v.kind \notin {"SaveDefine", "SaveDesign", "SaveDesignHis"} => w = v
                 /\ v.kind = "SaveDefine" =>
                      WritesRow(w) /\ Given(w.id, Now') /\ w.id \notin DOMAIN defines
                 /\ Later
      BY <1>2, <1>10, <2>1, Numbers
    <2>2. Follows(j, w) => Follows(k, w)
      BY <1>5 DEF Follows
    <2>3. ASSUME Leads(j, v, store, Now) PROVE Leads(k, w, store, Now')
      <3>1. CASE v.kind = "SaveDefine"
        BY <1>3, <1>5, <1>7, <2>1, <2>3, <3>1 DEF Leads, Drawing
      <3>2. CASE v.kind # "SaveDefine"
        <4>1. w = v /\ Later
          BY <2>1, <2>3, <3>2 DEF Leads
        <4>2. Given(v.id, Now) => Given(v.id, Now')
          BY <1>3, <4>1 DEF Given, Later, NextOK, Now
        <4> QED
          BY <1>5, <2>3, <3>2, <4>1, <4>2 DEF Leads
      <3> QED
        BY <3>1, <3>2
    <2>4. ASSUME Leads(j, v, store, Now) \/ Follows(j, v), ~k.overtaken => Founded(j, v, Now)
          PROVE  ~k.overtaken => Founded(k, w, Now')
      <3>1. CASE w = v
        BY <1>5, <1>8, <2>4, <3>1 DEF Founded, Asked
      <3>2. CASE w # v
        <4>1. w.kind \in {"SaveDefine", "SaveDesign", "SaveDesignHis"}
          BY <2>1, <2>4, <3>2
        <4> QED
          BY <4>1 DEF Founded
      <3> QED
        BY <3>1, <3>2
    <2> QED
      BY <1>5, <2>1, <2>2, <2>3, <2>4 DEF First, Second
  <1>11. Prepared(k, store, Now') /\ Later
    <2>1. CASE Len(j.plan) = 1 /\ j.plan = <<j.plan[1]>> /\ First(j, j.plan[1], store, Now)
      <3>1. PICK v : j.plan = <<v>> /\ v = j.plan[1] /\ 1 \in DOMAIN j.plan /\ First(j, v, store, Now)
        BY <2>1
      <3>2. PICK w : w = Numbered(v) /\ k.plan = <<w>>
        BY <1>1, <1>5, <3>1
      <3>3. First(k, w, store, Now') /\ Later
        BY <1>10, <3>1, <3>2 DEF First
      <3> QED
        BY <3>2, <3>3, PreparedOne
    <2>2. CASE /\ Len(j.plan) = 2 /\ j.plan = <<j.plan[1], j.plan[2]>>
               /\ First(j, j.plan[1], store, Now) /\ Second(j, j.plan[2], Now)
      <3>1. PICK v, x : /\ j.plan = <<v, x>> /\ v = j.plan[1] /\ x = j.plan[2] /\ 1 \in DOMAIN j.plan
                        /\ 2 \in DOMAIN j.plan /\ First(j, v, store, Now) /\ Second(j, x, Now)
        BY <2>2
      <3>2. PICK w, y : w = Numbered(v) /\ y = Numbered(x) /\ k.plan = <<w, y>>
        BY <1>1, <1>5, <3>1
      <3>3. First(k, w, store, Now') /\ Later
        BY <1>10, <3>1, <3>2 DEF First
      <3>4. Second(k, y, Now')
        BY <1>10, <3>1, <3>2
      <3> QED
        BY <3>2, <3>3, <3>4, PreparedTwo
    <2> QED
      BY <1>3, <2>1, <2>2 DEF Prepared
  <1>12. ASSUME NEW d \in Client PROVE Ready(job'[d], store', Now')
    <2>1. CASE d = c
      BY <1>2, <1>5, <1>6, <1>11, <2>1 DEF Ready
    <2>2. CASE d # c
      <3>1. PICK i : i = job[d] /\ i = job'[d] /\ ~Drawing(i, store)
        BY <1>2, <1>6, <2>2 DEF Quiet, Drawing
      <3>2. Ready(i, store, Now) /\ Shaped(i)
        BY <3>1 DEF AlwaysInv, Ready
      <3>3. Ready(i, store', Now')
        BY <1>2, <1>3, <1>9, <1>11, <3>1, <3>2, ReadyStays
      <3> QED
        BY <3>1, <3>3
    <2> QED
      BY <2>1, <2>2
  <1>13. \A i \in DOMAIN defines' : Given(i, Now')
    BY <1>2, <1>3, <1>11 DEF AlwaysInv, Given, Now, Later, NextOK
  <1> QED
    BY <1>6, <1>11, <1>12, <1>13 DEF AlwaysInv, Later

\* What a write does to the definitions and to what uses them.
DefineKinds == {"SaveDefine", "UpdateDefine", "UpdateDefineState", "RemoveDefine"}
OtherKinds == {"SaveInstance", "SaveDesign", "UpdateDesign", "SaveDesignHis", "RemoveDesign"}
Effect(w) ==
  /\ \A i : i # w.id => /\ i \in DOMAIN defines' <=> i \in DOMAIN defines
                        /\ i \in DOMAIN defines => defines'[i] = defines[i]
  /\ w.kind \in {"SaveDefine", "UpdateDefine"} => DOMAIN defines \subseteq DOMAIN defines'
  /\ w.kind = "UpdateDefine" /\ w.id \in DOMAIN defines => defines'[w.id] = w.row
  /\ w.kind = "UpdateDefineState" => DOMAIN defines' = DOMAIN defines
  /\ w.kind = "RemoveDefine" => DOMAIN defines' = DOMAIN defines \ {w.id}
  /\ w.kind \in OtherKinds => defines' = defines
  /\ w.kind = "SaveInstance" => uses' = uses \union {w.id}
  /\ w.kind # "SaveInstance" => uses' = uses

LEMMA PutDoes ==
  ASSUME NEW i, NEW r, defines' = Put(defines, i, r)
  PROVE  /\ DOMAIN defines' = DOMAIN defines \union {i} /\ defines'[i] = r
         /\ \A k : k # i => /\ k \in DOMAIN defines' <=> k \in DOMAIN defines
                            /\ k \in DOMAIN defines => defines'[k] = defines[k]
  BY DEF Put

LEMMA HasEffect ==
  ASSUME NEW w, w.kind \in DefineKinds \union OtherKinds, NEW t, t = Apply(Tables, w),
         defines' = t.defines, uses' = t.uses
  PROVE  Effect(w)
  <1>1. CASE w.kind = "SaveDefine"
    <2>1. PICK r : t = [Tables EXCEPT !.defines = Put(@, w.id, r)]
      <3>1. t = SaveDefine(Tables, w)
        BY <1>1 DEF Apply
      <3> QED
        BY <3>1 DEF SaveDefine
    <2>2. defines' = Put(defines, w.id, r) /\ uses' = uses
      BY <2>1 DEF Tables
    <2> QED
      BY <1>1, <2>2, PutDoes DEF Effect, OtherKinds
  <1>2. CASE w.kind = "UpdateDefine"
    <2>1. defines' = Overwrite(defines, w.id, w.row) /\ uses' = uses
      BY <1>2, UpdateDefineDoes
    <2>2. CASE defines' = Put(defines, w.id, w.row)
      BY <1>2, <2>1, <2>2, PutDoes DEF Effect, OtherKinds
    <2>3. CASE defines' = defines /\ w.id \notin DOMAIN defines
      BY <1>2, <2>1, <2>3 DEF Effect, OtherKinds
    <2> QED
      BY <2>1, <2>2, <2>3 DEF Overwrite
  <1>3. CASE w.kind = "UpdateDefineState"
    <2>1. t = UpdateDefineState(Tables, w)
      BY <1>3 DEF Apply
    <2>2. CASE w.id \in DOMAIN defines
      <3>1. PICK r : r = [defines[w.id] EXCEPT !.state = w.state]
        OBVIOUS
      <3>2. t = [Tables EXCEPT !.defines = [@ EXCEPT ![w.id] = r]]
        BY <2>1, <2>2, <3>1 DEF UpdateDefineState, Tables
      <3>3. defines' = [defines EXCEPT ![w.id] = r] /\ uses' = uses
        BY <3>2 DEF Tables
      <3> QED
        BY <1>3, <3>3 DEF Effect, OtherKinds
    <2>3. CASE w.id \notin DOMAIN defines
      <3>1. t = Tables
        BY <2>1, <2>3 DEF UpdateDefineState, Tables
      <3>2. defines' = defines /\ uses' = uses
        BY <3>1 DEF Tables
      <3> QED
        BY <1>3, <3>2 DEF Effect, OtherKinds
    <2> QED
      BY <2>2, <2>3
  <1>4. CASE w.kind = "RemoveDefine"
    <2>1. defines' = [i \in DOMAIN defines \ {w.id} |-> defines[i]] /\ uses' = uses
      BY <1>4, RemoveDefineDoes
    <2> QED
      BY <1>4, <2>1 DEF Effect, OtherKinds
  <1>5. CASE w.kind \in OtherKinds
    <2>1. defines' = defines /\ (w.kind = "SaveInstance" => uses' = uses \union {w.id})
          /\ (w.kind # "SaveInstance" => uses' = uses)
      <3>1. CASE w.kind = "SaveInstance"
        BY <3>1, SaveInstanceDoes
      <3>2. CASE w.kind = "SaveDesign"
        BY <3>2, SaveDesignDoes
      <3>3. CASE w.kind = "RemoveDesign"
        BY <3>3, RemoveDesignDoes
      <3>4. CASE w.kind = "UpdateDesign"
        BY <3>4, UpdateDesignDoes
      <3>5. CASE w.kind = "SaveDesignHis"
        BY <3>5, SaveDesignHisDoes
      <3> QED
        BY <1>5, <3>1, <3>2, <3>3, <3>4, <3>5 DEF OtherKinds
    <2>2. w.kind \notin DefineKinds
      BY <1>5 DEF OtherKinds, DefineKinds
    <2> QED
      BY <2>1, <2>2 DEF Effect, DefineKinds
  <1> QED
    BY <1>1, <1>2, <1>3, <1>4, <1>5 DEF DefineKinds

\* Who has read nothing of what a write changes still finds what it has read.
LEMMA Touches ==
  ASSUME NEW w, w.kind \in DefineKinds
  PROVE  Row("define", w.id) \in Changes(w) /\ (w.id \in DOMAIN defines => NameRow(defines[w.id].name) \in Changes(w))
  BY DEF Changes, DefineKinds

LEMMA StandsAside ==
  ASSUME NEW w, w.kind \in DefineKinds \union OtherKinds, Effect(w), NEW j, j.read \intersect Changes(w) = {}
  PROVE  Stands(j)
  <1>1. /\ Now.defines = defines /\ Now'.defines = defines' /\ Now.uses = uses /\ Now'.uses = uses'
    BY DEF Now
  <1>2. ASSUME NEW i, Row("define", i) \in j.read
        PROVE  /\ i \in DOMAIN defines' <=> i \in DOMAIN defines
               /\ i \in DOMAIN defines => defines'[i] = defines[i]
    <2>1. CASE w.kind \in DefineKinds
      <3>1. i # w.id
        BY <1>2, <2>1, Touches
      <3> QED
        BY <3>1 DEF Effect
    <2>2. CASE w.kind \in OtherKinds
      BY <2>2 DEF Effect
    <2> QED
      BY <2>1, <2>2
  <1>3. ASSUME NEW i \in DOMAIN defines, NameRow(defines[i].name) \in j.read
        PROVE  i \in DOMAIN defines' /\ defines'[i] = defines[i]
    <2>1. CASE w.kind \in DefineKinds
      <3>1. i # w.id
        BY <1>3, <2>1, Touches
      <3> QED
        BY <3>1 DEF Effect
    <2>2. CASE w.kind \in OtherKinds
      BY <2>2 DEF Effect
    <2> QED
      BY <2>1, <2>2
  <1>4. ASSUME NEW i, Asked(j, i, Now) PROVE Asked(j, i, Now')
    <2>1. Row("uses", i) \in j.read /\ i \notin uses
      BY <1>1, <1>4 DEF Asked
    <2>2. CASE w.kind = "SaveInstance"
      <3>1. Row("uses", w.id) \in Changes(w)
        BY <2>2 DEF Changes
      <3>2. i # w.id
        BY <2>1, <3>1
      <3> QED
        BY <1>1, <2>1, <2>2, <3>2 DEF Effect, Asked
    <2>3. CASE w.kind # "SaveInstance"
      BY <1>1, <2>1, <2>3 DEF Effect, Asked
    <2> QED
      BY <2>2, <2>3
  <1>5. ASSUME NEW x, Founded(j, x, Now) PROVE Founded(j, x, Now')
    <2>1. CASE x.kind = "UpdateDefine"
      <3>1. CASE Row("define", x.id) \in j.read
        BY <1>1, <1>2, <1>5, <2>1, <3>1 DEF Founded
      <3>2. CASE x.id \in DOMAIN defines /\ NameRow(defines[x.id].name) \in j.read
        BY <1>1, <1>3, <1>5, <2>1, <3>2 DEF Founded
      <3> QED
        BY <1>1, <1>5, <2>1, <3>1, <3>2 DEF Founded
    <2>2. CASE x.kind = "RemoveDefine"
      BY <1>4, <1>5, <2>2 DEF Founded
    <2>3. CASE x.kind = "SaveInstance"
      BY <1>1, <1>2, <1>5, <2>3 DEF Founded
    <2> QED
      BY <2>1, <2>2, <2>3 DEF Founded
  <1> QED
    BY <1>4, <1>5 DEF Stands

\* A request about to write, and what it writes.
LEMMA WritesFirst ==
  ASSUME AlwaysInv, NEW c, NEW j, NEW v, NEW w, NEW rest, Wrote(c, j, v, w, rest)
  PROVE  /\ Shaped(j) /\ First(j, v, store, Now)
         /\ j.plan = <<v>> \/ \E b : j.plan = <<v, b>> /\ Second(j, b, Now)
         /\ w.kind = v.kind /\ (Follows(j, v) => Follows(j, w))
         /\ v.kind \notin {"SaveDefine", "SaveDesign", "SaveDesignHis"} => w = v
         /\ v.kind = "SaveDefine" => WritesRow(w) /\ Given(w.id, Now') /\ w.id \notin DOMAIN defines
         /\ Later /\ w.kind \in DefineKinds \union OtherKinds /\ Effect(w)
  <1>1. c \in Client /\ j = job[c] /\ v = Head(j.plan) /\ w = Numbered(v) /\ j.pc = "write"
        /\ next' = Advance(Drawn(<<v>>))
    BY DEF Wrote, At
  <1>2. Shaped(j) /\ Prepared(j, store, Now)
    BY <1>1 DEF AlwaysInv, Ready
  <1>3. First(j, v, store, Now) /\ (j.plan = <<v>> \/ \E b : j.plan = <<v, b>> /\ Second(j, b, Now))
    <2>1. CASE Len(j.plan) = 1 /\ j.plan = <<j.plan[1]>> /\ First(j, j.plan[1], store, Now)
      BY <1>1, <2>1
    <2>2. CASE /\ Len(j.plan) = 2 /\ j.plan = <<j.plan[1], j.plan[2]>>
               /\ First(j, j.plan[1], store, Now) /\ Second(j, j.plan[2], Now)
      BY <1>1, <2>2
    <2> QED
      BY <1>2, <2>1, <2>2 DEF Prepared
  <1>4. PICK p : p = <<v>>
    OBVIOUS
  <1>5. 1 \in DOMAIN p /\ p[1] = v /\ next' = Advance(Drawn(p))
    BY <1>1, <1>4
  <1>6. Leads(j, v, store, Now) \/ Follows(j, v)
    BY <1>3 DEF First
  <1>7. /\ w.kind = v.kind /\ (Follows(j, v) => Follows(j, w))
        /\ v.kind \notin {"SaveDefine", "SaveDesign", "SaveDesignHis"} => w = v
        /\ v.kind = "SaveDefine" => WritesRow(w) /\ Given(w.id, Now') /\ w.id \notin DOMAIN defines
        /\ Later
    BY <1>1, <1>5, <1>6, Numbers
  <1>8. w.kind \in DefineKinds \union OtherKinds
    BY <1>6, <1>7 DEF Leads, Follows, DefineKinds, OtherKinds
  <1>9. Effect(w)
    <2>1. PICK t : t = Apply(Tables, w) /\ defines' = t.defines /\ uses' = t.uses
      BY DEF Wrote
    <2> QED
      BY <1>8, <2>1, HasEffect
  <1> QED
    BY <1>2, <1>3, <1>7, <1>8, <1>9

\* The request that wrote has one write left, or none.
LEMMA WriterReady ==
  ASSUME AlwaysInv, NEW c, NEW j, NEW v, NEW w, NEW rest, Wrote(c, j, v, w, rest)
  PROVE  Ready(job'[c], store', Now')
  <1>1. /\ Shaped(j) /\ First(j, v, store, Now) /\ w.kind = v.kind
        /\ j.plan = <<v>> \/ \E b : j.plan = <<v, b>> /\ Second(j, b, Now)
        /\ Effect(w)
    BY WritesFirst
  <1>2. CASE j.plan = <<v>>
    BY <1>2, AfterLast, ReadyIdle
  <1>3. ASSUME NEW b, j.plan = <<v, b>>, Second(j, b, Now) PROVE Ready(job'[c], store', Now')
    <2>1. PICK k : k = job'[c]
      OBVIOUS
    <2>2. /\ Shaped(k) /\ k.op = j.op /\ k.pc = "write" /\ k.overtaken = j.overtaken
          /\ k.read = j.read \union Changes(w)
          /\ \/ w.kind # "SaveDesign" /\ k.plan = <<b>>
             \/ w.kind = "SaveDesign" /\ TableOf(b) = "his" /\ k.plan = <<[b EXCEPT !.design = w.id]>>
             \/ w.kind = "SaveDesign" /\ TableOf(b) # "his" /\ k.plan = <<b>>
      BY <1>1, <1>3, <2>1, AfterPair
    <2>3. Follows(j, b) /\ (~j.overtaken => Founded(j, b, Now))
      BY <1>3 DEF Second
    <2>4. ASSUME k.plan = <<b>> PROVE Ready(k, store', Now')
      <3>1. Follows(k, b)
        BY <2>2, <2>3 DEF Follows
      <3>2. ASSUME ~k.overtaken PROVE Founded(k, b, Now')
        <4>1. CASE b.kind = "RemoveDefine"
          <5>1. j.op = "removeDefine"
            BY <2>3, <4>1 DEF Follows
          <5>2. w.kind # "SaveInstance"
            BY <1>1, <5>1 DEF First, Leads, Follows
          <5>3. Now'.uses = Now.uses
            BY <1>1, <5>2 DEF Effect, Now
          <5>4. Asked(j, b.id, Now)
            BY <2>2, <2>3, <3>2, <4>1 DEF Founded
          <5>5. Asked(k, b.id, Now')
            BY <2>2, <5>3, <5>4 DEF Asked
          <5> QED
            BY <4>1, <5>5 DEF Founded
        <4>2. CASE b.kind # "RemoveDefine"
          BY <2>3, <4>2 DEF Founded, Follows
        <4> QED
          BY <4>1, <4>2
      <3>3. First(k, b, store', Now')
        BY <3>1, <3>2 DEF First
      <3>4. Prepared(k, store', Now')
        BY <2>4, <3>3, PreparedOne
      <3> QED
        BY <2>2, <3>4 DEF Ready
    <2>5. ASSUME TableOf(b) = "his", k.plan = <<[b EXCEPT !.design = w.id]>> PROVE Ready(k, store', Now')
      <3>1. b.kind = "SaveDesignHis"
        BY <2>3, <2>5 DEF TableOf, Follows
      <3>2. WritesShot(b) /\ j.op # "removeDefine"
        BY <2>3, <3>1 DEF Follows
      <3>3. PICK a : a = [b EXCEPT !.design = w.id]
        OBVIOUS
      <3>4. a = [kind |-> "SaveDesignHis", id |-> b.id, design |-> w.id, content |-> b.content]
        BY <3>2, <3>3 DEF WritesShot
      <3>5. a.kind = "SaveDesignHis" /\ WritesShot(a)
        BY <3>4 DEF WritesShot
      <3>6. First(k, a, store', Now')
        BY <2>2, <3>2, <3>5 DEF First, Follows, Founded
      <3>7. Prepared(k, store', Now')
        BY <2>5, <3>3, <3>6, PreparedOne
      <3> QED
        BY <2>2, <3>7 DEF Ready
    <2> QED
      BY <2>1, <2>2, <2>4, <2>5
  <1> QED
    BY <1>1, <1>2, <1>3

LEMMA WriteNextReady ==
  ASSUME AlwaysInv, NEW c \in Client, WriteNext(c)
  PROVE  AlwaysInv'
  <1>1. PICK j, v, w, rest : Wrote(c, j, v, w, rest)
    BY WriteNextWrote
  <1>2. /\ First(j, v, store, Now) /\ w.kind = v.kind
        /\ v.kind \notin {"SaveDefine", "SaveDesign", "SaveDesignHis"} => w = v
        /\ v.kind = "SaveDefine" => Given(w.id, Now')
        /\ Later /\ w.kind \in DefineKinds \union OtherKinds /\ Effect(w)
    BY <1>1, WritesFirst
  <1>3. NextOK /\ store' = store /\ Quiet(c)
    BY <1>1 DEF AlwaysInv, Wrote, At
  <1>4. ASSUME NEW d \in Client, d # c PROVE Ready(job'[d], store', Now')
    <2>1. PICK i, b : i = job[d] /\ b = (i.overtaken \/ i.read \intersect Changes(w) # {})
      OBVIOUS
    <2>2. Shaped(i) /\ Ready(i, store, Now)
      BY <2>1 DEF AlwaysInv, Ready
    <2>3. b \in BOOLEAN /\ (b <=> i.overtaken \/ i.read \intersect Changes(w) # {})
      BY <2>1, <2>2 DEF Shaped
    <2>4. PICK k : k = [op |-> i.op, pc |-> i.pc, id |-> i.id, arg |-> i.arg, ids |-> i.ids, row |-> i.row,
                        content |-> i.content, plan |-> i.plan, read |-> i.read, overtaken |-> b]
      OBVIOUS
    <2>5. job'[d] = [i EXCEPT !.overtaken = b]
      BY <1>1, <1>4, <2>1 DEF Wrote
    <2>6. k = job'[d]
      BY <2>2, <2>4, <2>5 DEF Shaped
    <2>7. /\ Shaped(k) /\ k.op = i.op /\ k.pc = i.pc /\ k.id = i.id /\ k.ids = i.ids /\ k.plan = i.plan
          /\ k.read = i.read /\ (k.overtaken <=> b)
      BY <2>3, <2>4 DEF Shaped
    <2>8. ~Drawing(i, store)
      BY <1>3, <1>4, <2>1 DEF Drawing, Quiet
    <2>9. ~k.overtaken => ~i.overtaken /\ Stands(i)
      BY <1>2, <2>3, <2>7, StandsAside
    <2>10. Ready(k, store', Now')
      BY <1>2, <1>3, <2>2, <2>7, <2>8, <2>9, ReadyStays
    <2> QED
      BY <2>6, <2>10
  <1>5. Ready(job'[c], store', Now')
    BY <1>1, WriterReady
  <1>6. ASSUME NEW i \in DOMAIN defines' PROVE Given(i, Now')
    <2>1. Given(i, Now) => Given(i, Now')
      BY <1>2, <1>3 DEF Given, Later, NextOK, Now
    <2>2. CASE i \in DOMAIN defines
      BY <2>1, <2>2 DEF AlwaysInv
    <2>3. CASE i \notin DOMAIN defines
      <3>1. i = w.id /\ w.kind \in {"SaveDefine", "UpdateDefine"}
        BY <1>2, <1>6, <2>3 DEF Effect, DefineKinds, OtherKinds
      <3>2. CASE w.kind = "SaveDefine"
        BY <1>2, <3>1, <3>2
      <3>3. CASE w.kind = "UpdateDefine"
        <4>1. w = v /\ Given(v.id, Now)
          BY <1>2, <3>3 DEF First, Leads, Follows
        <4> QED
          BY <2>1, <3>1, <4>1
      <3> QED
        BY <3>1, <3>2, <3>3
    <2> QED
      BY <2>2, <2>3
  <1>7. job' = [d \in Client |-> job'[d]]
    BY <1>1 DEF Wrote
  <1> QED
    BY <1>2, <1>4, <1>5, <1>6, <1>7 DEF AlwaysInv, Later

LEMMA NextReady == AlwaysInv /\ [Next]_vars => AlwaysInv'
  <1> SUFFICES ASSUME AlwaysInv, [Next]_vars PROVE AlwaysInv'
    OBVIOUS
  <1>1. CASE UNCHANGED vars
    BY <1>1 DEF vars, AlwaysInv, NextOK, Now
  <1>2. CASE Next
    <2>1. PICK c \in Client : Looks(c) \/ DrawIds(c) \/ WriteNext(c)
      BY <1>2, deployLooks, redeployLooks, removeDefineLooks, upAndDownLooks, startAndExecuteLooks,
         designSaveNewLooks, DesignLooks, designRemoveLooks, FindDesignLooks, ListDesignHisLooks,
         FindNameLooks, FindDefineLooks, HasInstancesLooks DEF Next
    <2> QED
      BY <2>1, LookKeeps, DrawIdsReady, WriteNextReady
  <1> QED
    BY <1>1, <1>2

\* Whatever was overtaken before: a request that is not overtaken finds what it
\* read as it read it until it has written, and of one that is overtaken it is
\* still known what it may write.
THEOREM ReadyAlways == Spec => []AlwaysInv
  <1>1. Init => AlwaysInv
    BY AlwaysInit
  <1>2. AlwaysInv /\ [Next]_vars => AlwaysInv'
    BY NextReady
  <1> QED
    BY <1>1, <1>2, PTL DEF Spec

\* A step is one of WriteNext, or it leaves the definitions and their uses alone.
LEMMA StepOf ==
  ASSUME AlwaysInv, [Next]_vars
  PROVE  \/ defines' = defines /\ uses' = uses
         \/ \E c, j, v, w, rest : Wrote(c, j, v, w, rest)
  <1>1. CASE UNCHANGED vars
    BY <1>1 DEF vars
  <1>2. CASE Next
    <2>1. PICK c \in Client : Looks(c) \/ DrawIds(c) \/ WriteNext(c)
      BY <1>2, deployLooks, redeployLooks, removeDefineLooks, upAndDownLooks, startAndExecuteLooks,
         designSaveNewLooks, DesignLooks, designRemoveLooks, FindDesignLooks, ListDesignHisLooks,
         FindNameLooks, FindDefineLooks, HasInstancesLooks DEF Next
    <2>2. Looks(c) \/ DrawIds(c) => defines' = defines /\ uses' = uses
      BY DEF Looks, tables, DrawIds
    <2>3. WriteNext(c) => \E j, v, w, rest : Wrote(c, j, v, w, rest)
      BY WriteNextWrote
    <2> QED
      BY <2>1, <2>2, <2>3
  <1> QED
    BY <1>1, <1>2

\* The request of a write is the one that is writing, and no other.
LEMMA WriterOf ==
  ASSUME AlwaysInv, NEW c, NEW j, NEW v, NEW w, NEW rest, Wrote(c, j, v, w, rest)
  PROVE  c \in Client /\ j = job[c] /\ Writing(c) /\ \A d \in Client : Writing(d) => d = c
  <1>1. c \in Client /\ j = job[c] /\ job[c].pc = "write"
    BY DEF Wrote, At
  <1>2. Shaped(j) /\ (j.plan = <<v>> \/ \E b : j.plan = <<v, b>>)
    BY WritesFirst
  <1>3. job'[c].plan # job[c].plan
    <2>1. CASE j.plan = <<v>>
      <3>1. job'[c] = Idle
        BY <2>1, AfterLast
      <3>2. Idle.plan = <<>>
        BY DEF Idle
      <3>3. Len(<<>>) = 0 /\ Len(<<v>>) = 1
        OBVIOUS
      <3> QED
        BY <1>1, <2>1, <3>1, <3>2, <3>3
    <2>2. ASSUME NEW b, j.plan = <<v, b>> PROVE job'[c].plan # job[c].plan
      <3>1. PICK a : job'[c].plan = <<a>>
        <4>1. PICK k : k = job'[c]
          OBVIOUS
        <4>2. k.plan = <<b>> \/ k.plan = <<[b EXCEPT !.design = w.id]>>
          BY <1>2, <2>2, <4>1, AfterPair
        <4> QED
          BY <4>1, <4>2
      <3>2. Len(<<a>>) = 1 /\ Len(<<v, b>>) = 2
        BY Long
      <3> QED
        BY <1>1, <2>2, <3>1, <3>2
    <2> QED
      BY <1>2, <2>1, <2>2
  <1>4. ASSUME NEW d \in Client, d # c PROVE job'[d].plan = job[d].plan
    <2>1. PICK i, b : i = job[d] /\ job'[d] = [i EXCEPT !.overtaken = b]
      BY <1>4 DEF Wrote
    <2>2. Shaped(i)
      BY <2>1 DEF AlwaysInv, Ready
    <2> QED
      BY <2>1, <2>2 DEF Shaped
  <1> QED
    BY <1>1, <1>3, <1>4 DEF Writing

\* What a request that is not overtaken removes is unused.
LEMMA BatchUnused ==
  ASSUME AlwaysInv, NEW c \in Client, job[c].pc = "write", ~job[c].overtaken, job[c].op = "removeDefine",
         NEW k \in DOMAIN job[c].plan
  PROVE  job[c].plan[k].id \notin uses
  <1>1. PICK j, w : j = job[c] /\ w = j.plan[k]
    OBVIOUS
  <1>2. Prepared(j, store, Now) /\ ~j.overtaken /\ j.op = "removeDefine" /\ k \in DOMAIN j.plan
    BY <1>1 DEF AlwaysInv, Ready
  <1>3. Follows(j, w) /\ Founded(j, w, Now)
    <2>1. CASE Len(j.plan) = 1 /\ j.plan = <<j.plan[1]>> /\ First(j, j.plan[1], store, Now)
      <3>1. k = 1
        BY <1>2, <2>1
      <3> QED
        BY <1>1, <1>2, <2>1, <3>1 DEF First, Leads
    <2>2. CASE /\ Len(j.plan) = 2 /\ j.plan = <<j.plan[1], j.plan[2]>>
               /\ First(j, j.plan[1], store, Now) /\ Second(j, j.plan[2], Now)
      <3>1. k = 1 \/ k = 2
        BY <1>2, <2>2
      <3> QED
        BY <1>1, <1>2, <2>2, <3>1 DEF First, Leads, Second
    <2> QED
      BY <1>2, <2>1, <2>2 DEF Prepared
  <1>4. w.kind = "RemoveDefine"
    BY <1>2, <1>3 DEF Follows
  <1> QED
    BY <1>1, <1>3, <1>4 DEF Founded, Asked, Now

\* An instance keeps its definition, however many callers remove and start at
\* the same time and whatever was overtaken before: only a request that was
\* itself overtaken can take a definition from an instance, start one without
\* a definition, or remove a part of a batch with a definition in use.
THEOREM DefinitionKept == Spec => UsedIsKept
  <1> DEFINE Kept ==
        \A c \in Client : Writing(c) /\ ~job[c].overtaken =>
          /\ uses' \ DOMAIN defines' \subseteq uses \ DOMAIN defines
          /\ job[c].op = "removeDefine" => \A k \in DOMAIN job[c].plan : job[c].plan[k].id \notin uses
  <1>1. AlwaysInv /\ [Next]_vars => [Kept]_vars
    <2> SUFFICES ASSUME AlwaysInv, [Next]_vars, NEW c \in Client, Writing(c), ~job[c].overtaken
                 PROVE  /\ uses' \ DOMAIN defines' \subseteq uses \ DOMAIN defines
                        /\ job[c].op = "removeDefine" => \A k \in DOMAIN job[c].plan : job[c].plan[k].id \notin uses
      BY DEF Kept
    <2>1. job[c].op = "removeDefine" => \A k \in DOMAIN job[c].plan : job[c].plan[k].id \notin uses
      BY BatchUnused DEF Writing
    <2>2. ASSUME NEW d, NEW j, NEW v, NEW w, NEW rest, Wrote(d, j, v, w, rest)
          PROVE  uses' \ DOMAIN defines' \subseteq uses \ DOMAIN defines
      <3>1. d = c /\ j = job[c]
        BY <2>2, WriterOf
      <3>2. /\ First(j, v, store, Now) /\ Effect(w) /\ w.kind = v.kind
            /\ v.kind \notin {"SaveDefine", "SaveDesign", "SaveDesignHis"} => w = v
            /\ w.kind \in DefineKinds \union OtherKinds
        BY <2>2, WritesFirst
      <3>3. Founded(j, v, Now)
        BY <3>1, <3>2 DEF First
      <3>4. CASE w.kind = "SaveInstance"
        <4>1. w.id \in DOMAIN defines /\ defines' = defines /\ uses' = uses \union {w.id}
          BY <3>2, <3>3, <3>4 DEF Founded, Now, Effect, OtherKinds
        <4> QED
          BY <4>1
      <3>5. CASE w.kind = "RemoveDefine"
        <4>1. w.id \notin uses /\ uses' = uses /\ DOMAIN defines' = DOMAIN defines \ {w.id}
          BY <3>2, <3>3, <3>5 DEF Founded, Asked, Now, Effect
        <4> QED
          BY <4>1
      <3>6. CASE w.kind # "SaveInstance" /\ w.kind # "RemoveDefine"
        <4>1. uses' = uses /\ DOMAIN defines \subseteq DOMAIN defines'
          BY <3>2, <3>6 DEF Effect, DefineKinds, OtherKinds
        <4> QED
          BY <4>1
      <3> QED
        BY <3>4, <3>5, <3>6
    <2>3. uses' \ DOMAIN defines' \subseteq uses \ DOMAIN defines
      BY <2>2, StepOf
    <2> QED
      BY <2>1, <2>3
  <1>2. Spec => [][Kept]_vars
    BY <1>1, ReadyAlways, PTL DEF Spec
  <1> QED
    BY <1>2 DEF UsedIsKept, Kept

\* A definition goes into and out of service by upAndDown only, whatever was
\* overtaken before; the one other write that may change its state is that of a
\* request which was itself overtaken.
THEOREM StateSwitched == Spec => StateByUpAndDown
  <1> DEFINE Switched ==
        \A i \in DOMAIN defines \intersect DOMAIN defines' :
          defines[i].state # defines'[i].state =>
            \E c \in Client : Writing(c) /\ (job[c].op = "upAndDown" \/ job[c].overtaken)
  <1>1. AlwaysInv /\ [Next]_vars => [Switched]_vars
    <2> SUFFICES ASSUME AlwaysInv, [Next]_vars, NEW i \in DOMAIN defines,
                        i \in DOMAIN defines', defines[i].state # defines'[i].state
                 PROVE  \E c \in Client : Writing(c) /\ (job[c].op = "upAndDown" \/ job[c].overtaken)
      BY DEF Switched
    <2>1. PICK c, j, v, w, rest : Wrote(c, j, v, w, rest)
      BY StepOf
    <2>2. c \in Client /\ j = job[c] /\ Writing(c)
      BY <2>1, WriterOf
    <2>3. /\ First(j, v, store, Now) /\ Effect(w) /\ w.kind = v.kind
          /\ v.kind \notin {"SaveDefine", "SaveDesign", "SaveDesignHis"} => w = v
          /\ v.kind = "SaveDefine" => w.id \notin DOMAIN defines
          /\ w.kind \in DefineKinds \union OtherKinds
      BY <2>1, WritesFirst
    <2>4. ASSUME ~j.overtaken PROVE j.op = "upAndDown"
      <3>1. Founded(j, v, Now)
        BY <2>3, <2>4 DEF First
      <3>2. i = w.id
        BY <2>3 DEF Effect
      <3>3. w.kind # "SaveDefine"
        BY <2>3, <3>2
      <3>4. w.kind # "UpdateDefine"
        <4>1. ASSUME w.kind = "UpdateDefine" PROVE FALSE
          <5>1. w.row.state = defines[i].state
            BY <2>3, <3>1, <3>2, <4>1 DEF Founded, Now
          <5>2. defines'[i] = w.row
            BY <2>3, <3>2, <4>1 DEF Effect
          <5> QED
            BY <5>1, <5>2
        <4> QED
          BY <4>1
      <3>5. w.kind # "RemoveDefine"
        BY <2>3, <3>2 DEF Effect
      <3>6. w.kind \notin OtherKinds
        BY <2>3 DEF Effect
      <3>7. v.kind = "UpdateDefineState"
        BY <2>3, <3>3, <3>4, <3>5, <3>6 DEF DefineKinds
      <3> QED
        BY <2>3, <3>7 DEF First, Leads, Follows
    <2> QED
      BY <2>2, <2>4
  <1>2. Spec => [][Switched]_vars
    BY <1>1, ReadyAlways, PTL DEF Spec
  <1> QED
    BY <1>2 DEF StateByUpAndDown, Switched
===============================================================================

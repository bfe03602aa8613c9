--------------------------------- MODULE Pages ---------------------------------
(***************************************************************************)
(* The lists of the facade (definePage, designPage, instancePage, todoList,*)
(* doneList, ccList, surrogatePage) as the two repositories answer them: a *)
(* caller asks for a list, with conditions, and turns its pages while      *)
(* nobody writes.                                                          *)
(*                                                                         *)
(* The memory repository tests the conditions on the fields of an object,  *)
(* the JDBC repository on the rows of a join with a whitelist of columns.  *)
(* A value is a name or "", which stands for one made of blanks; absent    *)
(* and empty values never pass parseMQuery.  LIKE and the comparisons      *)
(* treat a scalar column as EQ and NE do and are left out, and so are      *)
(* NULLs: the rows have a value in every column.                           *)
(*                                                                         *)
(* A definition F_Bug is F with the bug its name tells; the properties are *)
(* checked to fail with it.                                                *)
(***************************************************************************)
EXTENDS Integers, FiniteSets

CONSTANTS
  Id,         \* ids of rows
  User,       \* names; "user1" is whom operatorArg puts for a blank one
  Record,     \* what a row may hold: operator, name, open, and the actors,
              \* participants or receivers of a copy, with their read marks
  Condition,  \* what may be asked for: [column, op, value], value a set
  PageSize,   \* page sizes that are asked for
  Stores,     \* the repositories considered, a subset of {"memory", "jdbc"}
  Lists       \* the lists considered

DefaultSize == 2  \* 10 in the code

ASSUME StoresAssumption == Stores \subseteq {"memory", "jdbc"}
ASSUME IdAssumption == Id \subseteq Nat /\ IsFiniteSet(Id)
ASSUME UserAssumption == "user1" \in User /\ {"", "NULL"} \cap User = {}
ASSUME RecordAssumption == \A r \in Record : "NULL" \notin {r.name, r.operator}
ASSUME ConditionAssumption == \A c \in Condition : c.op \in {"EQ", "NE", "IN"}
ASSUME ListsAssumption ==
  Lists \subseteq {"define", "design", "instance", "todo", "done", "cc", "surrogate"}
ASSUME SizeAssumption == PageSize \subseteq Int

VARIABLES
  store,  \* the repository in use
  table,  \* id -> record
  query,  \* what is asked: [list, operator, direct, conditions, size]
  turned, \* how many pages have been turned
  shown,  \* id -> how many times the row has been on a page
  answer  \* recordCount and totalPage of the last page, or that there was an error

vars == <<store, table, query, turned, shown, answer>>

(***************************************************************************)
(* Whose list                                                              *)
(***************************************************************************)
Owned == {"instance", "todo", "done", "cc", "surrogate"}

\* The facade puts user1 for a blank operator; who calls a repository does not.
operatorArg(q) == IF q.operator = "" THEN "user1" ELSE q.operator
Caller(q) == IF q.direct THEN q.operator ELSE operatorArg(q)

blankOwnership_Never(name) == FALSE
blankOwnership(name) == name = ""

\* The columns that say whose a row is: an EQ with a blank matches nothing.
ownershipColumns == {"operator", "starter", "actor"}
BlankOwner(c) == c.column \in ownershipColumns /\ c.op = "EQ" /\ c.value = {""}

\* ccOwnershipEffective: on the column of copies no operator takes a blank or
\* an empty list.
OwnershipEffective(q) ==
  /\ q.list \in Owned => ~blankOwnership(Caller(q))
  /\ q.list = "cc" => \A c \in q.conditions : c.column = "actor" => c.value \notin {{}, {""}}

Who(r) == {a.who : a \in r.actors}

(***************************************************************************)
(* The memory repository                                                   *)
(***************************************************************************)
MemoryFields(list) ==
  CASE list \in {"define"} -> {"name"}
    [] list \in {"instance", "done", "surrogate"} -> {"name", "operator"}
    [] list \in {"todo", "cc"} -> {"name", "operator", "actor"}

\* eqValue and containsAny: a column of many equals each of them, and is in no list.
matchCondition(c, list, r) ==
  LET v == IF c.column = "name" THEN r.name ELSE r.operator IN
  /\ ~BlankOwner(c)
  /\ c.column \in MemoryFields(list) =>
       IF c.column = "actor"
       THEN CASE c.op = "EQ" -> c.value \subseteq Who(r)
              [] c.op = "NE" -> c.value \intersect Who(r) = {}
              [] c.op = "IN" -> FALSE
       ELSE CASE c.op = "EQ" -> c.value = {v}
              [] c.op = "NE" -> c.value # {v}
              [] c.op = "IN" -> v \in c.value

MemoryMine(q, r) ==
  CASE q.list = "define" -> TRUE
    [] q.list \in {"instance", "surrogate"} -> r.operator = Caller(q)
    [] q.list = "todo" -> r.open /\ Caller(q) \in Who(r)
    [] q.list = "done" -> ~r.open /\ r.operator = Caller(q)
    [] q.list = "cc" -> Caller(q) \in Who(r)

\* PageDesigns does not look at the query.
MemoryRows(q) ==
  {i \in DOMAIN table : q.list = "design" \/
     (MemoryMine(q, table[i]) /\ \A c \in q.conditions : matchCondition(c, q.list, table[i]))}

(***************************************************************************)
(* The JDBC repository                                                     *)
(***************************************************************************)
Whitelist(list) ==
  CASE list \in {"define", "design"} -> {"name"}
    [] list \in {"instance", "surrogate"} -> {"name", "operator"}
    [] list \in {"todo", "done"} -> {"name", "operator", "starter", "actor"}
    [] list = "cc" -> {"name", "operator", "actor", "read"}

\* buildExtWhere, of designs and surrogates, knows fewer operators.
Operators(list) == IF list \in {"design", "surrogate"} THEN {"EQ", "IN"} ELSE {"EQ", "NE", "IN"}

\* A row of the join; the actors are joined one by one, and a row without any
\* is joined with nobody.
Nobody == [who |-> "NULL", read |-> "NULL"]
Joined(list, r) ==
  IF list \in {"todo", "done", "cc"} /\ r.actors # {} THEN r.actors ELSE {Nobody}

buildWhere(c, list, r, a) ==
  LET v == CASE c.column = "name" -> r.name [] c.column = "operator" -> r.operator
             [] c.column = "starter" -> r.starter [] c.column = "actor" -> a.who
             [] c.column = "read" -> a.read
  IN  c.column \in Whitelist(list) =>
        /\ ~BlankOwner(c)
        /\ c.op \in Operators(list) =>
             CASE c.op = "EQ" -> c.value = {v}
               [] c.op = "NE" -> v # "NULL" /\ c.value # {v}
               [] c.op = "IN" -> c.value = {} \/ v \in c.value

JdbcMine_DoneByActor(q, r, a) ==
  IF q.list = "done" THEN ~r.open /\ a.who = Caller(q) ELSE r.operator = Caller(q)
JdbcMine(q, r, a) ==
  CASE q.list \in {"define", "design"} -> TRUE
    [] q.list \in {"instance", "surrogate"} -> r.operator = Caller(q)
    [] q.list = "todo" -> r.open /\ a.who = Caller(q)
    [] q.list = "done" -> ~r.open /\ r.operator = Caller(q)
    [] q.list = "cc" -> a.who = Caller(q)

JdbcRows(q) ==
  {i \in DOMAIN table : \E a \in Joined(q.list, table[i]) :
     JdbcMine(q, table[i], a) /\ \A c \in q.conditions : buildWhere(c, q.list, table[i], a)}

(***************************************************************************)
(* Pages                                                                   *)
(***************************************************************************)
Matching(q) ==
  IF ~OwnershipEffective(q) THEN {}
  ELSE IF store = "memory" THEN MemoryRows(q) ELSE JdbcRows(q)

Sorted(list) == store = "jdbc" \/ list \in {"cc", "surrogate"}

\* How the rows may come: a map of Go is iterated in any order, another one each
\* time, and only some lists are sorted afterwards; copies upwards, all other
\* lists downwards.
Orders(q) ==
  LET S == Matching(q)
      n == Cardinality(S)
  IN  { o \in [1 .. n -> S] :
          /\ \A i, j \in 1 .. n : i # j => o[i] # o[j]
          /\ Sorted(q.list) =>
               \A i, j \in 1 .. n : i < j => IF q.list = "cc" THEN o[i] < o[j] ELSE o[i] > o[j] }

\* normPage, slicePage, LIMIT and OFFSET; memory's PageDesigns has no pages.
Size(q) == IF q.size <= 0 THEN DefaultSize ELSE q.size
Slice_Overlaps(q, order, page) ==
  {order[i] : i \in {k \in DOMAIN order : (page - 1) * Size(q) <= k /\ k <= page * Size(q)}}
Slice(q, order, page) ==
  IF q.list = "design" /\ store = "memory" THEN {order[i] : i \in DOMAIN order}
  ELSE {order[i] : i \in {k \in DOMAIN order : (page - 1) * Size(q) < k /\ k <= page * Size(q)}}

\* pageData divides by the size that was asked for.
pageData(q) ==
  LET total == Cardinality(Matching(q)) IN
  IF total > 0 /\ q.size = 0 THEN [ok |-> FALSE, total |-> 0, pages |-> 0]
  ELSE [ok |-> TRUE, total |-> total,
        pages |-> IF total > 0 THEN (total + q.size - 1) \div q.size ELSE 0]

\* The first page, or the next one there is.
Turn ==
  /\ answer.ok /\ (turned = 0 \/ turned < answer.pages)
  /\ turned' = turned + 1
  /\ answer' = pageData(query)
  /\ \E order \in Orders(query) :
       shown' = IF answer'.ok
                THEN [i \in Id |-> shown[i] + IF i \in Slice(query, order, turned') THEN 1 ELSE 0]
                ELSE shown
  /\ UNCHANGED <<store, table, query>>

\* The m_ arguments become at most one condition on a row of the models.
Query ==
  [list : Lists, operator : User \union {""}, direct : BOOLEAN,
   conditions : {{}} \union {{c} : c \in Condition}, size : PageSize]

Init ==
  /\ store \in Stores
  /\ \E n \in SUBSET Id : table \in [n -> Record]
  /\ query \in Query
  /\ turned = 0
  /\ shown = [i \in Id |-> 0]
  /\ answer = [ok |-> TRUE, total |-> 0, pages |-> 0]

Next == Turn
Spec == Init /\ [][Next]_vars

(***************************************************************************)
(* Properties                                                              *)
(***************************************************************************)
\* Whose a row is, in terms of the tables alone.
Owners(list, r) ==
  CASE list \in {"instance", "done", "surrogate"} -> {r.operator}
    [] list \in {"todo", "cc"} -> Who(r)
    [] OTHER -> User

\* Whatever is asked, the rows of a list that belongs to somebody are theirs; a
\* blank operator gets the rows of user1 by the facade and none from a
\* repository, in particular not the old rows whose owner is blank.
OwnRowsOnly ==
  \A i \in DOMAIN table : shown[i] > 0 /\ query.list \in Owned =>
    /\ Caller(query) # ""
    /\ Caller(query) \in Owners(query.list, table[i])

\* Who turns all the pages of a list sees each of its rows once.
Read == answer.ok /\ turned > 0 /\ turned >= answer.pages
EachRowOnce ==
  Read /\ Sorted(query.list) =>
    \A i \in DOMAIN table : shown[i] = IF i \in Matching(query) THEN 1 ELSE 0

\* The two repositories give the same answer to the conditions on a column of the
\* row itself, its owner among them, that both of them know; the lists of designs
\* are not the same, as memory's has no conditions.
Common(list) == MemoryFields(list) \intersect Whitelist(list) \intersect {"name", "operator"}
SameAnswer ==
  query.list # "design" /\ (\A c \in query.conditions :
      c.column \in Common(query.list) /\ c.op \in Operators(query.list) /\ c.value # {})
  => MemoryRows(query) = JdbcRows(query)
=============================================================================

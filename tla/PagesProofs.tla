------------------------------ MODULE PagesProofs -------------------------------
(***************************************************************************)
(* What holds of every list, for any rows, users, conditions and page      *)
(* sizes.                                                                  *)
(***************************************************************************)
EXTENDS Pages, FiniteSetTheorems, TLAPS

\* What has been shown is of the list that is asked for.
IInv ==
  /\ DOMAIN table \subseteq Id /\ \A i \in DOMAIN table : table[i] \in Record
  /\ query \in Query
  /\ shown \in [Id -> Nat]
  /\ \A i \in Id : shown[i] > 0 => i \in Matching(query)

LEMMA InitHolds == Init => IInv
  <1> SUFFICES ASSUME Init PROVE IInv
    OBVIOUS
  <1>1. PICK n \in SUBSET Id : table \in [n -> Record]
    BY DEF Init
  <1>2. query \in Query /\ shown = [i \in Id |-> 0]
    BY DEF Init
  <1> QED
    BY <1>1, <1>2 DEF IInv

LEMMA SliceMatches ==
  ASSUME NEW order \in Orders(query), NEW page
  PROVE  Slice(query, order, page) \subseteq Matching(query)
  <1>1. \A k \in DOMAIN order : order[k] \in Matching(query)
    BY DEF Orders
  <1> QED
    BY <1>1 DEF Slice

LEMMA TurnKeeps ==
  ASSUME IInv, Turn
  PROVE  IInv'
  <1>1. UNCHANGED <<store, table, query>>
    BY DEF Turn
  <1>2. Matching(query)' = Matching(query)
    BY <1>1 DEF Matching, MemoryRows, JdbcRows
  <1>3. CASE shown' = shown
    BY <1>1, <1>2, <1>3 DEF IInv
  <1>4. ASSUME NEW order \in Orders(query), NEW page,
               shown' = [i \in Id |-> shown[i] + IF i \in Slice(query, order, page) THEN 1 ELSE 0]
        PROVE  IInv'
    <2>1. shown' \in [Id -> Nat]
      BY <1>4 DEF IInv
    <2>2. \A i \in Id : shown'[i] > 0 => shown[i] > 0 \/ i \in Slice(query, order, page)
      BY <1>4 DEF IInv
    <2> QED
      BY <1>1, <1>2, <2>1, <2>2, SliceMatches DEF IInv
  <1> QED
    BY <1>3, <1>4 DEF Turn

LEMMA ShownMatches == Spec => []IInv
  <1>1. IInv /\ [Next]_vars => IInv'
    <2>1. IInv /\ UNCHANGED vars => IInv'
      BY DEF IInv, vars, Matching, MemoryRows, JdbcRows
    <2> QED
      BY <2>1, TurnKeeps DEF Next
  <1> QED
    BY <1>1, InitHolds, PTL DEF Spec

LEMMA CallerNamed ==
  ASSUME query \in Query, Caller(query) # ""
  PROVE  Caller(query) \in User
  BY UserAssumption DEF Query, Caller, operatorArg

\* Joining a row with its actors adds and loses nobody with a name.
LEMMA JoinedActors ==
  ASSUME NEW list \in {"todo", "cc"}, NEW r
  PROVE  /\ r.actors \subseteq Joined(list, r)
         /\ \A a \in Joined(list, r) : a.who = "NULL" \/ a \in r.actors
  <1>1. Nobody.who = "NULL"
    BY DEF Nobody
  <1>2. CASE r.actors = {}
    BY <1>1, <1>2 DEF Joined
  <1>3. CASE r.actors # {}
    BY <1>3 DEF Joined
  <1> QED
    BY <1>2, <1>3

\* A row of a list that belongs to somebody is theirs, over either repository.
LEMMA MineIsOwned ==
  ASSUME query \in Query, Caller(query) \in User, query.list \in Owned,
         NEW i \in MemoryRows(query) \union JdbcRows(query)
  PROVE  Caller(query) \in Owners(query.list, table[i])
  <1>1. query.list # "design"
    BY DEF Owned
  <1>2. CASE i \in MemoryRows(query)
    BY <1>1, <1>2 DEF MemoryRows, MemoryMine, Owners, Owned
  <1>3. CASE i \in JdbcRows(query)
    <2>1. PICK a \in Joined(query.list, table[i]) : JdbcMine(query, table[i], a)
      BY <1>3 DEF JdbcRows
    <2>2. CASE query.list \in {"todo", "cc"}
      <3>1. a.who = Caller(query)
        BY <2>1, <2>2 DEF JdbcMine
      <3>2. Caller(query) # "NULL"
        BY UserAssumption
      <3>3. a \in table[i].actors
        BY <2>1, <2>2, <3>1, <3>2, JoinedActors
      <3> QED
        BY <2>2, <3>1, <3>3 DEF Owners, Who
    <2>3. CASE query.list \in {"instance", "done", "surrogate"}
      BY <2>1, <2>3 DEF JdbcMine, Owners
    <2> QED
      BY <2>2, <2>3 DEF Owned
  <1> QED
    BY <1>2, <1>3

\* Whatever is asked, nobody is shown a row that is not theirs (operatorArg,
\* blankOwnership and the ownership columns of buildWhere and matchConditions).
THEOREM Ownership == Spec => []OwnRowsOnly
  <1>1. IInv => OwnRowsOnly
    <2> SUFFICES ASSUME IInv, NEW i \in DOMAIN table, shown[i] > 0, query.list \in Owned
                 PROVE  Caller(query) # "" /\ Caller(query) \in Owners(query.list, table[i])
      BY DEF OwnRowsOnly
    <2>1. i \in Matching(query)
      BY DEF IInv
    <2>2. Caller(query) # ""
      BY <2>1 DEF Matching, OwnershipEffective, blankOwnership
    <2>3. i \in MemoryRows(query) \union JdbcRows(query)
      BY <2>1 DEF Matching
    <2> QED
      BY <2>2, <2>3, CallerNamed, MineIsOwned DEF IInv
  <1> QED
    BY <1>1, ShownMatches, PTL
-----------------------------------------------------------------------------
(* The two repositories. *)

\* What the precondition of SameAnswer says of one condition.
Shared(c, list) == c.column \in Common(list) /\ c.op \in Operators(list) /\ c.value # {}

\* Such a condition says the same of the object and of each row of its join.
LEMMA ConditionAgrees ==
  ASSUME NEW list \in Lists \ {"design"}, NEW c \in Condition, Shared(c, list), NEW r \in Record, NEW a
  PROVE  matchCondition(c, list, r) <=> buildWhere(c, list, r, a)
  <1> DEFINE v == IF c.column = "name" THEN r.name ELSE r.operator
             says == CASE c.op = "EQ" -> c.value = {v}
                       [] c.op = "NE" -> c.value # {v}
                       [] c.op = "IN" -> v \in c.value
  <1>1. c.column \in {"name", "operator"} /\ c.column \in MemoryFields(list) /\ c.column \in Whitelist(list)
        /\ c.op \in {"EQ", "NE", "IN"} /\ c.op \in Operators(list) /\ c.value # {} /\ v # "NULL"
    BY ConditionAssumption, RecordAssumption DEF Shared, Common
  <1>2. matchCondition(c, list, r) <=> ~ BlankOwner(c) /\ says
    BY <1>1 DEF matchCondition
  <1>3. buildWhere(c, list, r, a) <=> ~ BlankOwner(c) /\ says
    BY <1>1 DEF buildWhere
  <1> QED
    BY <1>2, <1>3

\* The rows a caller asks for are the same as objects and in the join.
LEMMA MineAgrees ==
  ASSUME query \in Query, query.list # "design", Caller(query) \in User \union {""}, NEW r \in Record
  PROVE  MemoryMine(query, r) <=> \E a \in Joined(query.list, r) : JdbcMine(query, r, a)
  <1>1. query.list \in {"define", "instance", "todo", "done", "cc", "surrogate"}
    BY ListsAssumption DEF Query
  <1>2. Joined(query.list, r) # {}
    BY DEF Joined
  <1>3. CASE query.list \in {"define", "instance", "done", "surrogate"}
    BY <1>2, <1>3 DEF MemoryMine, JdbcMine
  <1>4. CASE query.list \in {"todo", "cc"}
    <2>1. Caller(query) # "NULL"
      BY UserAssumption
    <2>2. /\ r.actors \subseteq Joined(query.list, r)
          /\ \A a \in Joined(query.list, r) : a.who = "NULL" \/ a \in r.actors
      BY <1>4, JoinedActors
    <2>3. MemoryMine(query, r) <=> \E a \in Joined(query.list, r) : a.who = Caller(query) /\ (query.list = "todo" => r.open)
      BY <1>4, <2>1, <2>2 DEF MemoryMine, Who
    <2> QED
      BY <1>4, <2>3 DEF JdbcMine
  <1> QED
    BY <1>1, <1>3, <1>4

\* The two repositories answer alike, whatever the rows are, to the conditions
\* both of them know (matchConditions of memory, buildWhere of jdbc).
THEOREM Agreement == Spec => []SameAnswer
  <1>1. IInv => SameAnswer
    <2> SUFFICES ASSUME IInv, query.list # "design",
                        \A c \in query.conditions : Shared(c, query.list)
                 PROVE  MemoryRows(query) = JdbcRows(query)
      BY DEF SameAnswer, Shared
    <2>1. query \in Query /\ Caller(query) \in User \union {""}
      BY UserAssumption DEF IInv, Query, Caller, operatorArg
    <2>2. query.conditions \subseteq Condition /\ query.list \in Lists \ {"design"}
      BY <2>1 DEF Query
    <2>3. ASSUME NEW i \in DOMAIN table PROVE i \in MemoryRows(query) <=> i \in JdbcRows(query)
      <3>1. table[i] \in Record
        BY DEF IInv
      <3>2. \A c \in query.conditions, a \in Joined(query.list, table[i]) :
               matchCondition(c, query.list, table[i]) <=> buildWhere(c, query.list, table[i], a)
        BY <2>2, <3>1, ConditionAgrees
      <3>3. MemoryMine(query, table[i]) <=> \E a \in Joined(query.list, table[i]) : JdbcMine(query, table[i], a)
        BY <2>1, <3>1, MineAgrees
      <3>4. Joined(query.list, table[i]) # {}
        BY DEF Joined
      <3> QED
        BY <3>2, <3>3, <3>4 DEF MemoryRows, JdbcRows
    <2> QED
      BY <2>3 DEF MemoryRows, JdbcRows
  <1> QED
    BY <1>1, ShownMatches, PTL
-----------------------------------------------------------------------------
(* Turning all the pages of a sorted list. *)

\* The place of a row in a sorted list is one more than the rows before it.
Before(j, i) == IF query.list = "cc" THEN j < i ELSE j > i
Earlier(i) == {j \in Matching(query) : Before(j, i)}
Place(i) == Cardinality(Earlier(i)) + 1

\* A row is shown when the pages that have been turned reach its place.
ShownInPlace ==
  Sorted(query.list) => \A i \in Id :
    shown[i] = IF i \in Matching(query) /\ Place(i) <= turned * Size(query) THEN 1 ELSE 0

\* The answer is that of the pages, and what was shown is the places they reach.
TurnInv ==
  /\ IInv
  /\ turned \in Nat
  /\ IF turned = 0 THEN answer.ok ELSE answer = pageData(query)
  /\ answer.ok => ShownInPlace

LEMMA MatchingFinite ==
  ASSUME IInv
  PROVE  /\ Matching(query) \subseteq Id
         /\ IsFiniteSet(Matching(query))
         /\ Cardinality(Matching(query)) \in Nat
  <1>1. Matching(query) \subseteq Id
    BY DEF IInv, Matching, MemoryRows, JdbcRows
  <1>2. IsFiniteSet(Matching(query))
    BY <1>1, IdAssumption, FS_Subset
  <1> QED
    BY <1>1, <1>2, FS_CardinalityType

\* Every row of the list is in every order of it.
LEMMA OrderCovers ==
  ASSUME IInv, NEW order \in Orders(query)
  PROVE  LET n == Cardinality(Matching(query))
         IN  /\ order \in [1 .. n -> Matching(query)]
             /\ \A i \in Matching(query) : \E k \in 1 .. n : order[k] = i
  <1> DEFINE S == Matching(query)
             n == Cardinality(S)
  <1>1. IsFiniteSet(S) /\ n \in Nat
    BY MatchingFinite
  <1>2. order \in [1 .. n -> S] /\ \A i, j \in 1 .. n : i # j => order[i] # order[j]
    BY DEF Orders
  <1> HIDE DEF n, S
  <1>3. order \in Injection(1 .. n, S)
    BY <1>2 DEF Injection, IsInjective
  <1>4. IsFiniteSet(1 .. n) /\ Cardinality(1 .. n) = n
    BY <1>1, FS_Interval
  <1>5. order \in Surjection(1 .. n, S)
    BY <1>1, <1>3, <1>4, FS_Injection DEF n
  <1>6. \A i \in S : \E k \in 1 .. n : order[k] = i
    BY <1>5 DEF Surjection
  <1> QED
    BY <1>2, <1>6 DEF n, S

\* In a sorted list every order puts a row at its place.
LEMMA OrderPlaces ==
  ASSUME IInv, Sorted(query.list), NEW order \in Orders(query),
         NEW k \in 1 .. Cardinality(Matching(query))
  PROVE  Place(order[k]) = k
  <1> DEFINE S == Matching(query)
             n == Cardinality(S)
             E == Earlier(order[k])
             f == [j \in 1 .. (k - 1) |-> order[j]]
  <1>1. S \subseteq Nat /\ n \in Nat
    BY MatchingFinite, IdAssumption
  <1>2. order \in [1 .. n -> S] /\ \A i \in S : \E j \in 1 .. n : order[j] = i
    BY OrderCovers
  <1>3. \A i, j \in 1 .. n : i < j => Before(order[i], order[j])
    BY DEF Orders, Before
  <1>4. k \in 1 .. n
    OBVIOUS
  <1>5. \A j \in 1 .. n : Before(order[j], order[k]) <=> j < k
    <2> HIDE DEF n, S
    <2>1. \A i, j \in Nat : ~ (Before(i, j) /\ Before(j, i)) /\ ~ Before(i, i)
      BY DEF Before
    <2> SUFFICES ASSUME NEW j \in 1 .. n PROVE Before(order[j], order[k]) <=> j < k
      OBVIOUS
    <2>2. order[j] \in Nat /\ order[k] \in Nat
      BY <1>1, <1>2, <1>4
    <2>3. CASE j < k
      BY <1>3, <1>4, <2>3
    <2>4. CASE j = k
      BY <1>1, <2>1, <2>2, <2>4
    <2>5. CASE j > k
      <3>1. Before(order[k], order[j])
        BY <1>1, <1>3, <1>4, <2>5
      <3> QED
        BY <1>1, <1>4, <2>1, <2>2, <2>5, <3>1
    <2> QED
      BY <1>1, <1>4, <2>3, <2>4, <2>5
  <1>6. \A j \in 1 .. n : order[j] \in E <=> j < k
    BY <1>2, <1>5 DEF Earlier
  <1>7. \A i \in E : i \in S
    BY DEF Earlier
  <1>8. \A i, j \in 1 .. n : i # j => order[i] # order[j]
    BY DEF Orders
  <1> HIDE DEF n, S, E
  <1>9. f \in [1 .. (k - 1) -> E]
    BY <1>1, <1>4, <1>6
  <1>10. \A i, j \in 1 .. (k - 1) : f[i] = f[j] => i = j
    BY <1>1, <1>4, <1>8
  <1>11. \A i \in E : \E j \in 1 .. (k - 1) : f[j] = i
    <2> SUFFICES ASSUME NEW i \in E PROVE \E j \in 1 .. (k - 1) : f[j] = i
      OBVIOUS
    <2>1. PICK j \in 1 .. n : order[j] = i
      BY <1>2, <1>7
    <2>2. j \in 1 .. (k - 1)
      BY <1>1, <1>4, <1>6, <2>1
    <2>3. f[j] = i
      BY <2>1, <2>2
    <2> QED
      BY <2>2, <2>3
  <1> HIDE DEF f
  <1>12. ExistsBijection(1 .. (k - 1), E)
    <2>1. f \in Bijection(1 .. (k - 1), E)
      BY <1>9, <1>10, <1>11 DEF Bijection, Injection, IsInjective, Surjection
    <2> QED
      BY <2>1 DEF ExistsBijection
  <1>13. Cardinality(E) = k - 1
    BY <1>1, <1>4, <1>12, FS_CountingElements
  <1> QED
    BY <1>1, <1>4, <1>13 DEF Place, E

\* What a page of a sorted list shows, whatever the order is computed from.
LEMMA SlicePlaces ==
  ASSUME IInv, Sorted(query.list), NEW order \in Orders(query), NEW page \in Nat, NEW i \in Id
  PROVE  i \in Slice(query, order, page) <=>
           /\ i \in Matching(query)
           /\ (page - 1) * Size(query) < Place(i) /\ Place(i) <= page * Size(query)
  <1> DEFINE n == Cardinality(Matching(query))
  <1>1. order \in [1 .. n -> Matching(query)] /\ \A j \in Matching(query) : \E k \in 1 .. n : order[k] = j
    BY OrderCovers
  <1>2. \A k \in 1 .. n : Place(order[k]) = k
    BY OrderPlaces
  <1>3. ~ (query.list = "design" /\ store = "memory")
    BY DEF Sorted
  <1> HIDE DEF n
  <1>4. Slice(query, order, page) =
          {order[k] : k \in {m \in 1 .. n : (page - 1) * Size(query) < m /\ m <= page * Size(query)}}
    BY <1>1, <1>3 DEF Slice
  <1> QED
    BY <1>1, <1>2, <1>4

LEMMA SizePositive ==
  ASSUME query \in Query
  PROVE  query.size \in Int /\ Size(query) \in Nat \ {0}
  <1>1. query.size \in PageSize
    BY DEF Query
  <1>2. query.size \in Int
    BY <1>1, SizeAssumption
  <1> QED
    BY <1>2 DEF Size, DefaultSize

LEMMA PlaceInList ==
  ASSUME IInv, NEW i \in Matching(query)
  PROVE  Place(i) \in 1 .. Cardinality(Matching(query))
  <1> DEFINE S == Matching(query)
  <1>1. IsFiniteSet(S) /\ S \subseteq Nat /\ Cardinality(S) \in Nat
    BY MatchingFinite, IdAssumption
  <1>2. Earlier(i) \in SUBSET (S \ {i})
    BY <1>1 DEF Earlier, Before
  <1> HIDE DEF S
  <1>3. IsFiniteSet(S \ {i}) /\ Cardinality(S \ {i}) = Cardinality(S) - 1
    BY <1>1, FS_RemoveElement DEF S
  <1>4. IsFiniteSet(Earlier(i)) /\ Cardinality(Earlier(i)) <= Cardinality(S) - 1
    BY <1>2, <1>3, FS_Subset
  <1>5. Cardinality(Earlier(i)) \in Nat
    BY <1>4, FS_CardinalityType
  <1> QED
    BY <1>1, <1>4, <1>5 DEF Place, S

\* A page more shows the places after those that were reached.
LEMMA PageMore ==
  ASSUME NEW t \in Nat, NEW s \in Nat, NEW p \in Nat
  PROVE  /\ (t + 1 - 1) * s = t * s
         /\ t * s <= (t + 1) * s
         /\ t * s \in Nat /\ (t + 1) * s \in Nat
  <1>1. (t + 1) * s = t * s + s
    OBVIOUS
  <1>2. t * s \in Nat
    OBVIOUS
  <1> QED
    BY <1>1, <1>2

LEMMA TurnPlaces ==
  ASSUME TurnInv, Turn
  PROVE  TurnInv'
  <1> DEFINE s == Size(query)
  <1>1. UNCHANGED <<store, table, query>> /\ turned' = turned + 1 /\ answer' = pageData(query) /\ answer.ok
    BY DEF Turn
  <1>2. IInv /\ turned \in Nat /\ turned' \in Nat /\ ShownInPlace /\ s \in Nat \ {0}
    BY <1>1, SizePositive DEF TurnInv, IInv
  <1>3. /\ Matching(query)' = Matching(query) /\ pageData(query)' = pageData(query)
        /\ \A i : Place(i)' = Place(i)
        /\ Sorted(query.list)' = Sorted(query.list) /\ Size(query)' = s
    BY <1>1 DEF Matching, MemoryRows, JdbcRows, Place, Earlier, Before, Sorted, Size, pageData
  <1>4. IInv'
    BY <1>2, TurnKeeps
  <1>5. ASSUME answer'.ok, Sorted(query.list)
        PROVE  \A i \in Id : shown'[i] = IF i \in Matching(query) /\ Place(i) <= turned' * s THEN 1 ELSE 0
    <2>1. PICK order \in Orders(query) :
            shown' = [i \in Id |-> shown[i] + IF i \in Slice(query, order, turned') THEN 1 ELSE 0]
      BY <1>5 DEF Turn
    <2> SUFFICES ASSUME NEW i \in Id
                 PROVE  shown'[i] = IF i \in Matching(query) /\ Place(i) <= turned' * s THEN 1 ELSE 0
      OBVIOUS
    <2>2. shown'[i] = shown[i] + IF i \in Slice(query, order, turned') THEN 1 ELSE 0
      BY <2>1
    <2>3. shown[i] = IF i \in Matching(query) /\ Place(i) <= turned * s THEN 1 ELSE 0
      BY <1>2, <1>5 DEF ShownInPlace
    <2>4. i \in Slice(query, order, turned') <=>
            i \in Matching(query) /\ (turned' - 1) * s < Place(i) /\ Place(i) <= turned' * s
      BY <1>2, <1>5, SlicePlaces
    <2>5. i \in Matching(query) => Place(i) \in Nat
      BY <1>2, PlaceInList, MatchingFinite
    <2>6. (turned' - 1) * s = turned * s /\ turned * s <= turned' * s /\ turned * s \in Nat /\ turned' * s \in Nat
      BY <1>1, <1>2, PageMore
    <2> HIDE DEF s
    <2> QED
      BY <2>2, <2>3, <2>4, <2>5, <2>6
  <1>6. answer'.ok => ShownInPlace'
    BY <1>1, <1>3, <1>5 DEF ShownInPlace
  <1> QED
    BY <1>1, <1>2, <1>3, <1>4, <1>6 DEF TurnInv

LEMMA TurnInductive == Spec => []TurnInv
  <1>1. Init => TurnInv
    <2> SUFFICES ASSUME Init PROVE TurnInv
      OBVIOUS
    <2>1. IInv /\ turned = 0 /\ answer.ok /\ \A i \in Id : shown[i] = 0
      BY InitHolds DEF Init
    <2>2. Size(query) \in Nat \ {0}
      BY <2>1, SizePositive DEF IInv
    <2>3. \A i \in Matching(query) : ~ (Place(i) <= turned * Size(query))
      <3>1. turned * Size(query) = 0
        BY <2>1, <2>2
      <3> QED
        BY <2>1, <3>1, PlaceInList, MatchingFinite
    <2> QED
      BY <2>1, <2>3 DEF TurnInv, ShownInPlace
  <1>2. TurnInv /\ [Next]_vars => TurnInv'
    <2>1. ASSUME TurnInv, UNCHANGED vars PROVE TurnInv'
      <3>1. UNCHANGED <<store, table, query, turned, shown, answer>>
        BY <2>1 DEF vars
      <3>2. /\ Matching(query)' = Matching(query) /\ pageData(query)' = pageData(query)
            /\ \A i : Place(i)' = Place(i)
            /\ Sorted(query.list)' = Sorted(query.list) /\ Size(query)' = Size(query)
        BY <3>1 DEF Matching, MemoryRows, JdbcRows, Place, Earlier, Before, Sorted, Size, pageData
      <3>3. IInv'
        BY <2>1, <3>1, <3>2 DEF TurnInv, IInv
      <3>4. ShownInPlace' = ShownInPlace
        BY <3>1, <3>2 DEF ShownInPlace
      <3> QED
        BY <2>1, <3>1, <3>2, <3>3, <3>4 DEF TurnInv
    <2> QED
      BY <2>1, TurnPlaces DEF Next
  <1> QED
    BY <1>1, <1>2, PTL DEF Spec

\* The pages that pageData announces reach the last row.
LEMMA PagesSuffice ==
  ASSUME NEW n \in Nat, NEW s \in Nat \ {0}, NEW t \in Nat, t >= (n + s - 1) \div s
  PROVE  n <= t * s
  <1> DEFINE x == n + s - 1
             d == x \div s
             r == x % s
  <1>1. x = s * d + r /\ d \in Int /\ r \in 0 .. (s - 1)
    OBVIOUS
  <1> HIDE DEF d, r
  <1>2. n <= s * d
    BY <1>1
  <1>3. s * d <= t * s
    <2>1. PICK e \in Nat : t = d + e
      <3>1. t - d \in Nat
        BY <1>1 DEF d
      <3> QED
        BY <1>1, <3>1
    <2>2. t * s = s * d + e * s
      BY <1>1, <2>1
    <2>3. e * s \in Nat
      BY <2>1
    <2> QED
      BY <1>1, <2>2, <2>3
  <1> QED
    BY <1>1, <1>2, <1>3

\* Who turns all the pages of a sorted list is shown each of its rows once, for
\* every page size but a negative one, by which pageData would divide all the
\* same (normPage, slicePage, LIMIT and OFFSET, pageData).
THEOREM Paging ==
  ASSUME \A s \in PageSize : s >= 0
  PROVE  Spec => []EachRowOnce
  <1>1. TurnInv => EachRowOnce
    <2> SUFFICES ASSUME TurnInv, Read, Sorted(query.list), NEW i \in DOMAIN table
                 PROVE  shown[i] = IF i \in Matching(query) THEN 1 ELSE 0
      BY DEF EachRowOnce
    <2> DEFINE n == Cardinality(Matching(query))
    <2>1. /\ IInv /\ turned \in Nat /\ i \in Id
          /\ answer = pageData(query) /\ answer.ok /\ turned >= answer.pages
          /\ shown[i] = IF i \in Matching(query) /\ Place(i) <= turned * Size(query) THEN 1 ELSE 0
      BY DEF TurnInv, IInv, Read, ShownInPlace
    <2>2. ASSUME i \in Matching(query) PROVE Place(i) <= turned * Size(query)
      <3>1. Place(i) \in 1 .. n /\ n \in Nat
        BY <2>1, <2>2, PlaceInList, MatchingFinite
      <3>2. n > 0
        BY <3>1
      <3>3. query.size \in Nat /\ query.size # 0 /\ turned >= (n + query.size - 1) \div query.size
        <4>1. query.size \in PageSize /\ query.size \in Int
          BY <2>1, SizePositive DEF IInv, Query
        <4>2. query.size \in Nat
          BY <4>1
        <4>3. query.size # 0 /\ answer.pages = (n + query.size - 1) \div query.size
          BY <2>1, <3>1, <3>2 DEF pageData
        <4> QED
          BY <2>1, <4>2, <4>3
      <3>4. Size(query) = query.size
        BY <3>3 DEF Size
      <3>5. n <= turned * query.size
        BY <2>1, <3>1, <3>3, PagesSuffice
      <3>6. turned * query.size \in Int
        BY <2>1, <3>3
      <3> HIDE DEF n
      <3> QED
        BY <3>1, <3>4, <3>5, <3>6
    <2> QED
      BY <2>1, <2>2
  <1> QED
    BY <1>1, TurnInductive, PTL
=============================================================================

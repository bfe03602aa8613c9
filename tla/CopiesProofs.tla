----------------------------- MODULE CopiesProofs ------------------------------
(***************************************************************************)
(* Theorems about Copies, for any number of callers and of people, lists   *)
(* and listeners.                                                          *)
(*                                                                         *)
(* Whoever an event or a leg is about has a copy already, which everybody  *)
(* can see or is written by the transaction the event belongs to; once it  *)
(* has committed, everybody can see it.  And the accounts balance: what a  *)
(* listener has told about a person, and what the callers will still have  *)
(* it tell, is one notice for a copy and none where there is no copy.      *)
(***************************************************************************)
EXTENDS Copies, TLAPS

\* Some listener has its leg copy somebody.
Forwards == \E l \in Listener : Listeners[l] = "forward"

-----------------------------------------------------------------------------
(* The inductive invariant. *)

\* What remains of a script, and how deep in transactions it is.
Course(script, depth) ==
  \/ depth = 0 /\ \/ script = <<>>
                  \/ Forwards /\ script = <<"copy">>
                  \/ script = <<"enter", "copy", "leave">>
                  \/ script = <<"enter", "enter", "copy", "work", "leave", "leave">>
                  \/ script = <<"enter", "enter", "work", "leave", "copy", "enter", "work", "leave", "leave">>
  \/ depth = 1 /\ \/ script = <<"copy", "leave">>
                  \/ script = <<"leave">>
                  \/ script = <<"enter", "copy", "work", "leave", "leave">>
                  \/ script = <<"enter", "work", "leave", "copy", "enter", "work", "leave", "leave">>
                  \/ script = <<"copy", "enter", "work", "leave", "leave">>
                  \/ script = <<"enter", "work", "leave", "leave">>
  \/ depth = 2 /\ \/ script = <<"copy", "work", "leave", "leave">>
                  \/ script = <<"work", "leave", "leave">>
                  \/ script = <<"leave", "leave">>
                  \/ script = <<"work", "leave", "copy", "enter", "work", "leave", "leave">>
                  \/ script = <<"leave", "copy", "enter", "work", "leave", "leave">>

\* A list of people, each of them once.
IsList(f) ==
  /\ \A i \in DOMAIN f : f[i] \in Person
  /\ \A i, k \in DOMAIN f : f[i] = f[k] => i = k

Fielded(j) ==
  j = [pc |-> j.pc, script |-> j.script, forms |-> j.forms, depth |-> j.depth, table |-> j.table,
       own |-> j.own, fresh |-> j.fresh, seen |-> j.seen, events |-> j.events, event |-> j.event,
       listener |-> j.listener, legs |-> j.legs]

Shaped(j) ==
  /\ Fielded(j)
  /\ j.pc \in {"idle", "run", "second", "fire", "legs"}
  /\ j.pc = "idle" => j = Idle
  /\ j.forms \in Seq(DOMAIN Of)
  /\ j.depth \in Nat
  /\ j.own \subseteq Person
  /\ IsList(j.fresh) /\ IsList(j.events)
  /\ j.event \in Person \union {Nobody} /\ j.event \notin Range(j.events)
  /\ j.listener \in Nat \ {0}
  /\ j.legs \in Seq(Heard \X Person)

\* Whom the job speaks of.
Due(j, l, p) == \E k \in DOMAIN j.legs : j.legs[k] = <<l, p>>
Firing(j, l, p) == p \in Range(j.events) \/ (p = j.event /\ j.listener <= l)
Telling(j, l, p) == Due(j, l, p) \/ Firing(j, l, p)

\* Where the job is, and in which transaction.
Placed(j, s) ==
  /\ IF s = "memory" THEN j.depth = 0 /\ j.table = "none" /\ j.legs = <<>>
                     ELSE Course(j.script, j.depth)
  /\ j.table = "open" <=> j.depth > 0
  /\ j.table \in {"none", "open", "done"}
  /\ j.table = "none" => j.legs = <<>>
  /\ j.table = "done" => j.script \in {<<>>, <<"copy">>}
  /\ j.depth = 0 => j.own = {}
  /\ j.pc = "legs" => s = "jdbc" /\ j.depth = 0 /\ j.script = <<>>
  /\ j.pc = "second" => s = "jdbc" /\ j.script # <<>> /\ Head(j.script) = "copy"
  /\ s = "jdbc" /\ j.pc \in {"second", "fire"} => j.depth > 0 \/ Forwards
  /\ j.pc # "fire" => DOMAIN j.events = {} /\ j.event = Nobody

\* Those it speaks of have a copy, in there or in its transaction.
Sighted(j, there) ==
  /\ \A i \in DOMAIN j.events : j.events[i] \in there \union j.own
  /\ j.event # Nobody => j.event \in there \union j.own
  /\ \A k \in DOMAIN j.legs : j.legs[k][2] \in there \union j.own
  /\ j.pc = "second" => j.seen \subseteq there \union j.own

\* It speaks of nobody twice.
Once(j) ==
  /\ \A i, k \in DOMAIN j.legs : j.legs[i] = j.legs[k] => i = k
  /\ \A l \in Heard, p \in Person : Firing(j, l, p) => ~Due(j, l, p)
  /\ j.pc = "second" => \A i \in DOMAIN j.fresh :
       j.fresh[i] \notin j.own /\ \A l \in Heard : ~Due(j, l, j.fresh[i])

\* What it will still tell, now that everybody can see the copies.
Owes(j, l, p) == j.depth = 0 /\ Telling(j, l, p)

\* In a transaction that met no other it speaks of those it has copied.
Own(j) == j.depth > 0 => \A l \in Heard, p \in Person : p \in j.own <=> Telling(j, l, p)

JobOK(j, s, there) == Shaped(j) /\ Placed(j, s) /\ Sighted(j, there) /\ Once(j)

TablesOK ==
  /\ store \in {"memory", "jdbc"}
  /\ copies \in [Person -> [unread : Nat, read : Nat]]
  /\ told \in [Listener -> [Person -> Nat]]
  /\ raced \in BOOLEAN

\* Where no two actions met.
Balanced(l, p) ==
  /\ told[l][p] <= Rows(p)
  /\ \A c \in Client : Owes(job[c], l, p) => told[l][p] = 0
  /\ \A c, d \in Client : Owes(job[c], l, p) /\ Owes(job[d], l, p) => c = d
  /\ told[l][p] < Rows(p) => \E c \in Client : Owes(job[c], l, p)

Accounts ==
  /\ \A p \in Person : Rows(p) <= 1
  /\ ~Forwards => /\ \A c \in Client : Own(job[c])
                  /\ \A l \in Listener, p \in Person : IF l \in Heard THEN Balanced(l, p) ELSE told[l][p] = 0

IInv ==
  /\ TablesOK
  /\ job = [c \in Client |-> job[c]] /\ \A c \in Client : JobOK(job[c], store, There)
  /\ ~raced => Accounts

-----------------------------------------------------------------------------
(* Scripts. *)

\* Entering, working, copying and leaving follow the script: a command works and
\* leaves in its transaction, and nothing is left to do when the last is left.
LEMMA Moves ==
  ASSUME NEW script, NEW depth, Course(script, depth), script # <<>>
  PROVE  /\ depth \in Nat
         /\ Head(script) = "enter" => Course(Tail(script), depth + 1)
         /\ Head(script) = "copy" => Course(Tail(script), depth) /\ (depth > 0 \/ Forwards)
         /\ Head(script) = "work" => Course(Tail(script), depth) /\ depth > 0
         /\ Head(script) = "leave" => /\ depth > 0 /\ Course(Tail(script), depth - 1)
                                      /\ depth = 1 => Tail(script) = <<>>
  <1>1. CASE depth = 0 /\ script = <<"copy">> /\ Forwards
    <2>1. Head(script) = "copy" /\ Tail(script) = <<>>
      BY <1>1
    <2> QED
      BY <1>1, <2>1 DEF Course
  <1>2. CASE depth = 0 /\ script = <<"enter", "copy", "leave">>
    <2>1. Head(script) = "enter" /\ Tail(script) = <<"copy", "leave">>
      BY <1>2
    <2> QED
      BY <1>2, <2>1 DEF Course
  <1>3. CASE depth = 0 /\ script = <<"enter", "enter", "copy", "work", "leave", "leave">>
    <2>1. Head(script) = "enter" /\ Tail(script) = <<"enter", "copy", "work", "leave", "leave">>
      BY <1>3
    <2> QED
      BY <1>3, <2>1 DEF Course
  <1>4. CASE depth = 0 /\ script = <<"enter", "enter", "work", "leave", "copy", "enter", "work", "leave", "leave">>
    <2>1. Head(script) = "enter" /\ Tail(script) = <<"enter", "work", "leave", "copy", "enter", "work", "leave", "leave">>
      BY <1>4
    <2> QED
      BY <1>4, <2>1 DEF Course
  <1>5. CASE depth = 1 /\ script = <<"copy", "enter", "work", "leave", "leave">>
    <2>1. Head(script) = "copy" /\ Tail(script) = <<"enter", "work", "leave", "leave">>
      BY <1>5
    <2> QED
      BY <1>5, <2>1 DEF Course
  <1>6. CASE depth = 1 /\ script = <<"copy", "leave">>
    <2>1. Head(script) = "copy" /\ Tail(script) = <<"leave">>
      BY <1>6
    <2> QED
      BY <1>6, <2>1 DEF Course
  <1>7. CASE depth = 1 /\ script = <<"enter", "copy", "work", "leave", "leave">>
    <2>1. Head(script) = "enter" /\ Tail(script) = <<"copy", "work", "leave", "leave">>
      BY <1>7
    <2> QED
      BY <1>7, <2>1 DEF Course
  <1>8. CASE depth = 1 /\ script = <<"enter", "work", "leave", "copy", "enter", "work", "leave", "leave">>
    <2>1. Head(script) = "enter" /\ Tail(script) = <<"work", "leave", "copy", "enter", "work", "leave", "leave">>
      BY <1>8
    <2> QED
      BY <1>8, <2>1 DEF Course
  <1>9. CASE depth = 1 /\ script = <<"enter", "work", "leave", "leave">>
    <2>1. Head(script) = "enter" /\ Tail(script) = <<"work", "leave", "leave">>
      BY <1>9
    <2> QED
      BY <1>9, <2>1 DEF Course
  <1>10. CASE depth = 1 /\ script = <<"leave">>
    <2>1. Head(script) = "leave" /\ Tail(script) = <<>>
      BY <1>10
    <2> QED
      BY <1>10, <2>1 DEF Course
  <1>11. CASE depth = 2 /\ script = <<"copy", "work", "leave", "leave">>
    <2>1. Head(script) = "copy" /\ Tail(script) = <<"work", "leave", "leave">>
      BY <1>11
    <2> QED
      BY <1>11, <2>1 DEF Course
  <1>12. CASE depth = 2 /\ script = <<"leave", "copy", "enter", "work", "leave", "leave">>
    <2>1. Head(script) = "leave" /\ Tail(script) = <<"copy", "enter", "work", "leave", "leave">>
      BY <1>12
    <2> QED
      BY <1>12, <2>1 DEF Course
  <1>13. CASE depth = 2 /\ script = <<"leave", "leave">>
    <2>1. Head(script) = "leave" /\ Tail(script) = <<"leave">>
      BY <1>13
    <2> QED
      BY <1>13, <2>1 DEF Course
  <1>14. CASE depth = 2 /\ script = <<"work", "leave", "copy", "enter", "work", "leave", "leave">>
    <2>1. Head(script) = "work" /\ Tail(script) = <<"leave", "copy", "enter", "work", "leave", "leave">>
      BY <1>14
    <2> QED
      BY <1>14, <2>1 DEF Course
  <1>15. CASE depth = 2 /\ script = <<"work", "leave", "leave">>
    <2>1. Head(script) = "work" /\ Tail(script) = <<"leave", "leave">>
      BY <1>15
    <2> QED
      BY <1>15, <2>1 DEF Course
  <1> QED
    BY <1>1, <1>2, <1>3, <1>4, <1>5, <1>6, <1>7, <1>8, <1>9, <1>10, <1>11, <1>12, <1>13, <1>14, <1>15 DEF Course

LEMMA AtTheEnd ==
  ASSUME NEW depth, Course(<<>>, depth)
  PROVE  depth = 0
  BY DEF Course

\* After the commit there is at most one copy to make.
LEMMA ForwardedDone ==
  ASSUME NEW script \in {<<>>, <<"copy">>}, script # <<>>
  PROVE  Tail(script) = <<>>
  <1>1. script = <<"copy">>
    OBVIOUS
  <1> QED
    BY <1>1

-----------------------------------------------------------------------------
(* A caller's job. *)

\* What one job is about another is about, too.
Alike(j, k) ==
  /\ k.forms = j.forms /\ k.own = j.own /\ k.fresh = j.fresh /\ k.seen = j.seen
  /\ k.events = j.events /\ k.event = j.event /\ k.listener = j.listener /\ k.legs = j.legs

LEMMA AlikeTells ==
  ASSUME NEW j, NEW k, Alike(j, k), NEW l, NEW p
  PROVE  Telling(k, l, p) <=> Telling(j, l, p)
  BY DEF Alike, Telling, Due, Firing

\* A job that goes on and is about the same.
LEMMA Recast ==
  ASSUME NEW j, NEW k, NEW s, NEW there,
         JobOK(j, s, there), Alike(j, k), Fielded(k), k.pc \in {"run", "fire", "legs"}, Placed(k, s)
  PROVE  JobOK(k, s, there)
  <1>1. k.depth \in Nat
    BY DEF Placed, Course
  <1>2. Shaped(k)
    BY <1>1 DEF JobOK, Shaped, Alike
  <1>3. Sighted(k, there)
    BY DEF JobOK, Sighted, Alike
  <1>4. Once(k)
    <2>1. \A l, p : (Firing(k, l, p) <=> Firing(j, l, p)) /\ (Due(k, l, p) <=> Due(j, l, p))
      BY DEF Alike, Firing, Due
    <2>2. \A i, n \in DOMAIN k.legs : k.legs[i] = k.legs[n] => i = n
      BY DEF JobOK, Once, Alike
    <2> QED
      BY <2>1, <2>2 DEF JobOK, Once
  <1> QED
    BY <1>2, <1>3, <1>4 DEF JobOK

\* More copies are nothing to it.
LEMMA Wider ==
  ASSUME NEW j, NEW s, NEW there, NEW wider, JobOK(j, s, there), there \subseteq wider
  PROVE  JobOK(j, s, wider)
  <1>1. Sighted(j, wider)
    BY DEF JobOK, Sighted
  <1> QED
    BY <1>1 DEF JobOK

LEMMA IdleOK ==
  ASSUME NEW s \in {"memory", "jdbc"}, NEW there
  PROVE  /\ JobOK(Idle, s, there) /\ Own(Idle)
         /\ \A l, p : p \in Person => ~Telling(Idle, l, p)
  <1>1. PICK j : j = Idle
    OBVIOUS
  <1>2. j.pc = "idle" /\ j.depth = 0 /\ j.own = {} /\ j.table = "none" /\ j.event = Nobody /\ j.listener = 1
    BY <1>1 DEF Idle
  <1>3. j.forms = <<>> /\ j.legs = <<>> /\ j.script = <<>> /\ Fielded(j)
    BY <1>1 DEF Idle, Fielded
  <1>4. DOMAIN j.events = {} /\ DOMAIN j.fresh = {} /\ DOMAIN j.legs = {}
    BY <1>1 DEF Idle
  <1>5. Shaped(j)
    <2>1. IsList(j.fresh) /\ IsList(j.events) /\ j.event \notin Range(j.events)
      BY <1>4 DEF IsList, Range
    <2>2. j.forms \in Seq(DOMAIN Of) /\ j.legs \in Seq(Heard \X Person)
      BY <1>3
    <2> QED
      BY <1>1, <1>2, <1>3, <2>1, <2>2 DEF Shaped
  <1>6. Placed(j, s)
    <2>1. Course(j.script, j.depth)
      BY <1>2, <1>3 DEF Course
    <2> QED
      BY <1>2, <1>3, <1>4, <2>1 DEF Placed
  <1>7. Sighted(j, there)
    BY <1>2, <1>4 DEF Sighted
  <1>8. \A l, p : p \in Person => ~Telling(j, l, p)
    BY <1>2, <1>4, SpellingAssumption DEF Telling, Due, Firing, Range
  <1>9. Once(j)
    BY <1>2, <1>4, <1>8 DEF Once, Telling
  <1>10. Own(j)
    BY <1>2 DEF Own
  <1> QED
    BY <1>1, <1>5, <1>6, <1>7, <1>8, <1>9, <1>10 DEF JobOK

-----------------------------------------------------------------------------
(* The tables. *)

LEMMA RowsNat ==
  ASSUME TablesOK, NEW p \in Person
  PROVE  copies[p].unread \in Nat /\ copies[p].read \in Nat /\ Rows(p) \in Nat /\ (p \in There <=> Rows(p) > 0)
  BY DEF TablesOK, Rows, There

LEMMA InsertedRows ==
  ASSUME TablesOK, NEW people, people \subseteq Person, copies' = Inserted(people)
  PROVE  /\ copies' \in [Person -> [unread : Nat, read : Nat]]
         /\ There' = There \union people
         /\ \A p \in Person : /\ p \in people => Rows(p)' = Rows(p) + 1
                              /\ p \notin people => Rows(p)' = Rows(p) /\ copies'[p] = copies[p]
  <1>1. ASSUME NEW p \in Person, p \in people
        PROVE  copies'[p] \in [unread : Nat, read : Nat] /\ Rows(p)' = Rows(p) + 1
    <2>1. copies'[p] = [copies[p] EXCEPT !.unread = @ + 1]
      BY <1>1 DEF Inserted
    <2>2. copies[p] \in [unread : Nat, read : Nat]
      BY DEF TablesOK
    <2>3. copies'[p] \in [unread : Nat, read : Nat] /\ copies'[p].unread = copies[p].unread + 1 /\ copies'[p].read = copies[p].read
      BY <2>1, <2>2
    <2> QED
      BY <2>2, <2>3 DEF Rows
  <1>2. ASSUME NEW p \in Person, p \notin people
        PROVE  copies'[p] = copies[p] /\ copies'[p] \in [unread : Nat, read : Nat] /\ Rows(p)' = Rows(p)
    BY <1>2 DEF Inserted, TablesOK, Rows
  <1>3. copies' = [p \in Person |-> copies'[p]]
    BY DEF Inserted
  <1>4. copies' \in [Person -> [unread : Nat, read : Nat]]
    BY <1>1, <1>2, <1>3
  <1>5. There' = There \union people
    <2>1. \A p \in Person : Rows(p)' > 0 <=> Rows(p) > 0 \/ p \in people
      BY <1>1, <1>2, RowsNat
    <2> QED
      BY <2>1 DEF There
  <1> QED
    BY <1>1, <1>2, <1>4, <1>5

LEMMA CopiesStay ==
  ASSUME TablesOK, UNCHANGED copies
  PROVE  There' = There /\ (\A p \in Person : Rows(p)' = Rows(p)) /\ copies' \in [Person -> [unread : Nat, read : Nat]]
  BY DEF TablesOK, There, Rows

-----------------------------------------------------------------------------
(* The accounts. *)

\* What a step of c does to the account of a listener and a person: nothing, a
\* copy whose notice c owes, or a notice c owed.
Nothing(c, k, l, p) ==
  told'[l][p] = told[l][p] /\ Rows(p)' = Rows(p) /\ (Owes(k, l, p) <=> Owes(job[c], l, p))
NewCopy(k, l, p) ==
  told'[l][p] = told[l][p] /\ Rows(p) = 0 /\ Rows(p)' = 1 /\ Owes(k, l, p)
Notice(c, k, l, p) ==
  told'[l][p] = told[l][p] + 1 /\ Rows(p)' = Rows(p) /\ Owes(job[c], l, p) /\ ~Owes(k, l, p)

Orderly(c, k, l, p) == Nothing(c, k, l, p) \/ NewCopy(k, l, p) \/ Notice(c, k, l, p)

LEMMA JobsKept ==
  ASSUME IInv, NEW c \in Client, NEW k, Become(c, k), store' = store, There \subseteq There',
         JobOK(k, store, There')
  PROVE  /\ job' = [d \in Client |-> job'[d]]
         /\ job'[c] = k /\ \A d \in Client : d # c => job'[d] = job[d]
         /\ \A d \in Client : JobOK(job'[d], store', There')
  <1>1. /\ job' = [d \in Client |-> job'[d]]
        /\ job'[c] = k /\ \A d \in Client : d # c => job'[d] = job[d]
    BY DEF IInv, Become
  <1>2. \A d \in Client : JobOK(job[d], store, There')
    BY Wider DEF IInv
  <1> QED
    BY <1>1, <1>2

\* Whoever owes a notice of somebody owes it of a copy.
LEMMA OwedHave ==
  ASSUME IInv, NEW c \in Client, NEW l, NEW p \in Person, Owes(job[c], l, p)
  PROVE  Rows(p) > 0
  <1>1. PICK j : j = job[c]
    OBVIOUS
  <1>2. JobOK(j, store, There) /\ Owes(j, l, p)
    BY <1>1 DEF IInv
  <1>3. j.own = {} /\ Telling(j, l, p)
    BY <1>2 DEF JobOK, Placed, Owes
  <1>4. p \in There
    <2>1. CASE Due(j, l, p)
      BY <1>2, <1>3, <2>1 DEF Due, JobOK, Sighted
    <2>2. CASE p \in Range(j.events)
      BY <1>2, <1>3, <2>2 DEF Range, JobOK, Sighted
    <2>3. CASE p = j.event
      BY <1>2, <1>3, <2>3, SpellingAssumption DEF JobOK, Sighted
    <2> QED
      BY <1>3, <2>1, <2>2, <2>3 DEF Telling, Firing
  <1> QED
    BY <1>4 DEF There

LEMMA BalanceKept ==
  ASSUME IInv, NEW c \in Client, NEW k, NEW l \in Heard, NEW p \in Person,
         job'[c] = k, \A d \in Client : d # c => job'[d] = job[d],
         Balanced(l, p), Rows(p) <= 1, Orderly(c, k, l, p)
  PROVE  Balanced(l, p)'
  <1> DEFINE owes(d) == Owes(job[d], l, p)
             owes2(d) == Owes(job'[d], l, p)
  <1>1. PICK t, r, t2, r2 : t = told[l][p] /\ r = Rows(p) /\ t2 = told'[l][p] /\ r2 = Rows(p)'
    OBVIOUS
  <1>2. t \in Nat /\ r \in Nat
    BY <1>1, RowsNat DEF IInv, TablesOK, Heard
  <1>3. /\ t <= r /\ r <= 1
        /\ \A d \in Client : owes(d) => t = 0 /\ r > 0
        /\ \A d, e \in Client : owes(d) /\ owes(e) => d = e
        /\ t < r => \E d \in Client : owes(d)
    BY <1>1, OwedHave DEF Balanced
  <1>4. \A d \in Client : d # c => (owes2(d) <=> owes(d))
    OBVIOUS
  <1>5. \/ t2 = t /\ r2 = r /\ (owes2(c) <=> owes(c))
        \/ t2 = t /\ r = 0 /\ r2 = 1 /\ owes2(c)
        \/ t2 = t + 1 /\ r2 = r /\ owes(c) /\ ~owes2(c)
    BY <1>1 DEF Orderly, Nothing, NewCopy, Notice
  <1>6. /\ t2 <= r2
        /\ \A d \in Client : owes2(d) => t2 = 0
        /\ \A d, e \in Client : owes2(d) /\ owes2(e) => d = e
        /\ t2 < r2 => \E d \in Client : owes2(d)
    <2> HIDE DEF owes, owes2
    <2>1. CASE t2 = t /\ r2 = r /\ (owes2(c) <=> owes(c))
      BY <1>2, <1>3, <1>4, <2>1
    <2>2. CASE t2 = t /\ r = 0 /\ r2 = 1 /\ owes2(c)
      BY <1>2, <1>3, <1>4, <2>2
    <2>3. CASE t2 = t + 1 /\ r2 = r /\ owes(c) /\ ~owes2(c)
      BY <1>2, <1>3, <1>4, <2>3
    <2> QED
      BY <1>5, <2>1, <2>2, <2>3
  <1> QED
    BY <1>1, <1>6 DEF Balanced

\* A step of c, after which it does k.
LEMMA StepKeeps ==
  ASSUME IInv, NEW c \in Client, NEW k, Become(c, k), TablesOK', store' = store, There \subseteq There',
         JobOK(k, store, There'),
         ~raced' => /\ ~raced
                    /\ \A p \in Person : Rows(p)' <= 1
                    /\ ~Forwards => /\ Own(k)
                                    /\ \A l \in Listener \ Heard, p \in Person : told'[l][p] = told[l][p]
                                    /\ \A l \in Heard, p \in Person : Orderly(c, k, l, p)
  PROVE  IInv'
  <1>1. /\ job' = [d \in Client |-> job'[d]]
        /\ job'[c] = k /\ \A d \in Client : d # c => job'[d] = job[d]
        /\ \A d \in Client : JobOK(job'[d], store', There')
    BY JobsKept
  <1>2. ASSUME ~raced' PROVE Accounts'
    <2>1. Accounts /\ \A p \in Person : Rows(p)' <= 1
      BY <1>2 DEF IInv
    <2>2. ASSUME ~Forwards, NEW d \in Client PROVE Own(job'[d])
      <3>1. Own(job[d])
        BY <2>1, <2>2 DEF Accounts
      <3> QED
        BY <1>1, <1>2, <2>2, <3>1
    <2>3. ASSUME ~Forwards, NEW l \in Heard, NEW p \in Person PROVE Balanced(l, p)'
      <3>1. Balanced(l, p) /\ Rows(p) <= 1
        BY <2>1, <2>3 DEF Accounts, Heard
      <3> QED
        BY <1>1, <1>2, <2>3, <3>1, BalanceKept
    <2>4. ASSUME ~Forwards, NEW l \in Listener, l \notin Heard, NEW p \in Person PROVE told'[l][p] = 0
      BY <1>2, <2>1, <2>4 DEF Accounts
    <2> QED
      BY <2>1, <2>2, <2>3, <2>4 DEF Accounts
  <1> QED
    BY <1>1, <1>2 DEF IInv

-----------------------------------------------------------------------------
(* Steps that leave the tables alone, and what the job is about. *)

LEMMA GoesOn ==
  ASSUME IInv, NEW c \in Client, NEW j, NEW k, j = job[c], Become(c, k), UNCHANGED <<store, copies, told, raced>>,
         Alike(j, k), Fielded(k), k.pc \in {"run", "fire", "legs"}, Placed(k, store),
         (k.depth = 0 <=> j.depth = 0) \/ \A l, p : p \in Person => ~Telling(j, l, p)
  PROVE  IInv'
  <1>1. JobOK(j, store, There) /\ TablesOK /\ j.depth \in Nat
    BY DEF IInv, JobOK, Shaped
  <1>2. JobOK(k, store, There)
    BY <1>1, Recast
  <1>3. /\ There' = There /\ (\A p \in Person : Rows(p)' = Rows(p)) /\ TablesOK' /\ store' = store
        /\ Become(c, k) /\ told' = told /\ raced' = raced
    BY <1>1, CopiesStay DEF TablesOK
  <1>4. JobOK(k, store, There')
    BY <1>2, <1>3
  <1>5. ASSUME ~raced', ~Forwards
        PROVE  /\ Own(k)
               /\ \A l \in Heard, p \in Person : Orderly(c, k, l, p)
    <2>1. Own(j)
      BY <1>3, <1>5 DEF IInv, Accounts
    <2>2. \A l, p : Telling(k, l, p) <=> Telling(j, l, p)
      BY AlikeTells
    <2>3. Own(k)
      <3>1. CASE k.depth = 0 <=> j.depth = 0
        <4>1. k.own = j.own /\ (k.depth > 0 => j.depth > 0)
          <5>1. k.depth \in Nat
            BY <1>2 DEF JobOK, Shaped
          <5> QED
            BY <1>1, <3>1, <5>1 DEF Alike
        <4> QED
          BY <2>1, <2>2, <4>1 DEF Own
      <3>2. CASE \A l, p : p \in Person => ~Telling(j, l, p)
        <4>1. k.own = {} \/ j.depth > 0
          BY <1>1 DEF JobOK, Placed, Alike
        <4>2. j.depth > 0 => \A l \in Heard, p \in Person : p \in k.own <=> Telling(k, l, p)
          BY <2>1, <2>2 DEF Own, Alike
        <4> QED
          BY <2>2, <3>2, <4>1, <4>2 DEF Own
      <3> QED
        BY <3>1, <3>2
    <2>4. \A l \in Heard, p \in Person : Owes(k, l, p) <=> Owes(job[c], l, p)
      BY <2>2 DEF Owes
    <2> QED
      BY <1>3, <2>3, <2>4 DEF Orderly, Nothing
  <1>6. ~raced' => ~raced /\ \A p \in Person : Rows(p)' <= 1
    BY <1>3 DEF IInv, Accounts
  <1> QED
    BY <1>3, <1>4, <1>5, <1>6, StepKeeps

LEMMA Goes ==
  ASSUME IInv, NEW c \in Client, NEW j, NEW k, j = job[c], Step(c, k), Alike(j, k), Fielded(k),
         k.pc \in {"run", "fire", "legs"}, Placed(k, store),
         (k.depth = 0 <=> j.depth = 0) \/ \A l, p : p \in Person => ~Telling(j, l, p)
  PROVE  IInv'
  <1>1. Become(c, k) /\ UNCHANGED <<store, copies, told, raced>>
    BY DEF Step
  <1> QED
    BY <1>1, GoesOn

\* A job is given up, or done.
LEMMA GoesIdle ==
  ASSUME IInv, NEW c \in Client, Step(c, Idle), \A l, p : p \in Person => ~Owes(job[c], l, p)
  PROVE  IInv'
  <1>1. TablesOK /\ TablesOK' /\ There' = There /\ (\A p \in Person : Rows(p)' = Rows(p)) /\ told' = told /\ raced' = raced
    BY CopiesStay DEF Step, IInv, TablesOK
  <1>2. JobOK(Idle, store, There') /\ Own(Idle) /\ \A l, p : p \in Person => ~Telling(Idle, l, p)
    BY <1>1, IdleOK DEF TablesOK
  <1>3. \A l \in Heard, p \in Person : Orderly(c, Idle, l, p)
    BY <1>1, <1>2 DEF Orderly, Nothing, Owes
  <1>4. Become(c, Idle) /\ store' = store
    BY DEF Step
  <1>5. ~raced' => ~raced /\ \A p \in Person : Rows(p)' <= 1
    BY <1>1 DEF IInv, Accounts
  <1> QED
    BY <1>1, <1>2, <1>3, <1>4, <1>5, StepKeeps

\* A step of the script.
LEMMA StepOfScript ==
  ASSUME IInv, NEW c \in Client, NEW step, At(c, step)
  PROVE  /\ job[c].script # <<>> /\ Head(job[c].script) = step /\ job[c].pc = "run"
         /\ JobOK(job[c], store, There) /\ Fielded(job[c])
  BY DEF At, IInv, JobOK, Shaped

\* What Advance leaves behind.
LEMMA Advances ==
  ASSUME NEW j, NEW k, Fielded(j), k = Advance(j)
  PROVE  /\ Fielded(k) /\ Alike(j, k) /\ k.script = Tail(j.script) /\ k.pc = "run"
         /\ k.depth = j.depth /\ k.table = j.table
  <1>1. k = [pc |-> "run", script |-> Tail(j.script), forms |-> j.forms, depth |-> j.depth, table |-> j.table,
             own |-> j.own, fresh |-> j.fresh, seen |-> j.seen, events |-> j.events, event |-> j.event,
             listener |-> j.listener, legs |-> j.legs]
    <2>1. Fielded(j)
      OBVIOUS
    <2>2. k = [j EXCEPT !.script = Tail(j.script), !.pc = "run"]
      BY DEF Advance
    <2> QED
      BY <2>1, <2>2 DEF Fielded
  <1> QED
    BY <1>1 DEF Fielded, Alike

LEMMA NothingToTell ==
  ASSUME NEW j, NEW s, NEW there, JobOK(j, s, there), j.pc # "fire", j.legs = <<>>
  PROVE  \A l, p : p \in Person => ~Telling(j, l, p)
  <1>1. DOMAIN j.events = {} /\ j.event = Nobody /\ DOMAIN j.legs = {}
    BY DEF JobOK, Placed
  <1> QED
    BY <1>1, SpellingAssumption DEF Telling, Due, Firing, Range

LEMMA EnterKeeps ==
  ASSUME IInv, NEW c \in Client, Enter(c)
  PROVE  IInv'
  <1>1. PICK j, i : j = job[c] /\ i = Advance(j)
    OBVIOUS
  <1>2. At(c, "enter") /\ Step(c, IF store = "memory" THEN i ELSE [i EXCEPT !.depth = @ + 1, !.table = "open"])
    BY <1>1 DEF Enter
  <1>3. /\ j.script # <<>> /\ Head(j.script) = "enter" /\ j.pc = "run"
        /\ JobOK(j, store, There) /\ Fielded(j)
    BY <1>1, <1>2, StepOfScript
  <1>4. /\ Fielded(i) /\ Alike(j, i) /\ i.script = Tail(j.script) /\ i.pc = "run"
        /\ i.depth = j.depth /\ i.table = j.table
    BY <1>1, <1>3, Advances
  <1>5. Placed(j, store)
    BY <1>3 DEF JobOK
  <1>6. j.table # "done"
    BY <1>3, <1>5 DEF Placed
  <1>7. CASE store = "memory"
    <2>1. Placed(i, store)
      BY <1>3, <1>4, <1>5, <1>6, <1>7 DEF Placed, Alike
    <2> QED
      BY <1>1, <1>2, <1>4, <1>7, <2>1, Goes
  <1>8. CASE store = "jdbc"
    <2>1. PICK k : k = [i EXCEPT !.depth = @ + 1, !.table = "open"]
      OBVIOUS
    <2>2. /\ Fielded(k) /\ Alike(j, k) /\ k.script = Tail(j.script) /\ k.pc = "run"
          /\ k.depth = j.depth + 1 /\ k.table = "open"
      <3>1. PICK k1 : k1 = [i EXCEPT !.depth = @ + 1]
        OBVIOUS
      <3>2. /\ Fielded(k1) /\ Alike(j, k1) /\ k1.script = Tail(j.script) /\ k1.pc = "run"
            /\ k1.depth = j.depth + 1
        BY <1>4, <3>1 DEF Fielded, Alike
      <3>3. k = [k1 EXCEPT !.table = "open"]
        BY <1>4, <2>1, <3>1 DEF Fielded
      <3> QED
        BY <3>2, <3>3 DEF Fielded, Alike
    <2>3. Course(j.script, j.depth)
      BY <1>5, <1>8 DEF Placed
    <2>4. j.depth \in Nat /\ Course(k.script, k.depth)
      BY <1>3, <2>2, <2>3, Moves
    <2>5. Placed(k, store)
      BY <1>3, <1>5, <1>8, <2>2, <2>4 DEF Placed, Alike
    <2>6. (k.depth = 0 <=> j.depth = 0) \/ \A l, p : p \in Person => ~Telling(j, l, p)
      <3>1. CASE j.depth = 0
        <4>1. j.legs = <<>>
          BY <1>5, <1>6, <3>1 DEF Placed
        <4> QED
          BY <1>3, <4>1, NothingToTell
      <3>2. CASE j.depth # 0
        BY <2>2, <2>4, <3>2
      <3> QED
        BY <3>1, <3>2
    <2> QED
      BY <1>1, <1>2, <1>8, <2>1, <2>2, <2>5, <2>6, Goes
  <1> QED
    BY <1>7, <1>8 DEF IInv, TablesOK

LEMMA EndKeeps ==
  ASSUME IInv, NEW c \in Client, End(c)
  PROVE  IInv'
  <1>1. PICK j : j = job[c]
    OBVIOUS
  <1>2. /\ j.pc = "run" /\ j.script = <<>>
        /\ Step(c, IF j.legs # <<>> THEN [j EXCEPT !.pc = "legs"] ELSE Idle)
    BY <1>1 DEF End
  <1>3. JobOK(j, store, There) /\ Fielded(j) /\ Placed(j, store)
    BY <1>1 DEF IInv, JobOK, Shaped
  <1>4. CASE j.legs # <<>>
    <2>1. PICK k : k = [j EXCEPT !.pc = "legs"]
      OBVIOUS
    <2>2. /\ Fielded(k) /\ Alike(j, k) /\ k.script = j.script /\ k.pc = "legs"
          /\ k.depth = j.depth /\ k.table = j.table
      BY <1>3, <2>1 DEF Fielded, Alike
    <2>3. store = "jdbc" /\ j.depth = 0
      BY <1>2, <1>3, <1>4, AtTheEnd DEF Placed, IInv, TablesOK
    <2>4. Placed(k, store)
      BY <1>2, <1>3, <2>2, <2>3 DEF Placed, Alike
    <2> QED
      BY <1>1, <1>2, <1>4, <2>1, <2>2, <2>4, Goes
  <1>5. CASE j.legs = <<>>
    <2>1. \A l, p : p \in Person => ~Telling(j, l, p)
      BY <1>2, <1>3, <1>5, NothingToTell
    <2>2. Step(c, Idle)
      BY <1>2, <1>5
    <2> QED
      BY <1>1, <2>1, <2>2, GoesIdle DEF Owes
  <1> QED
    BY <1>4, <1>5

LEMMA AbortKeeps ==
  ASSUME IInv, NEW c \in Client, Abort(c)
  PROVE  IInv'
  <1>1. PICK j : j = job[c]
    OBVIOUS
  <1>2. Step(c, Idle)
    BY DEF Abort
  <1>3. JobOK(j, store, There) /\ Placed(j, store)
    BY <1>1 DEF IInv, JobOK
  <1>4. CASE At(c, "leave") /\ InTransaction(j)
    BY <1>1, <1>2, <1>4, GoesIdle DEF InTransaction, Owes
  <1>5. CASE At(c, "work")
    <2>1. j.script # <<>> /\ Head(j.script) = "work" /\ j.pc = "run"
      BY <1>1, <1>5, StepOfScript
    <2>2. CASE store = "memory"
      <3>1. j.legs = <<>>
        BY <1>3, <2>2 DEF Placed
      <3>2. \A l, p : p \in Person => ~Telling(j, l, p)
        BY <1>3, <2>1, <3>1, NothingToTell
      <3> QED
        BY <1>1, <1>2, <3>2, GoesIdle DEF Owes
    <2>3. CASE store = "jdbc"
      <3>1. Course(j.script, j.depth)
        BY <1>3, <2>3 DEF Placed
      <3>2. j.depth > 0 /\ j.depth \in Nat
        BY <2>1, <3>1, Moves
      <3> QED
        BY <1>1, <1>2, <3>2, GoesIdle DEF Owes
    <2> QED
      BY <2>2, <2>3 DEF IInv, TablesOK
  <1> QED
    BY <1>1, <1>4, <1>5 DEF Abort

LEMMA WorkKeeps ==
  ASSUME IInv, NEW c \in Client, Work(c)
  PROVE  IInv'
  <1>1. PICK j, k : j = job[c] /\ k = Advance(j)
    OBVIOUS
  <1>2. At(c, "work") /\ Become(c, k) /\ UNCHANGED <<store, copies, told, raced>>
    BY <1>1 DEF Work
  <1>3. /\ j.script # <<>> /\ Head(j.script) = "work" /\ j.pc = "run"
        /\ JobOK(j, store, There) /\ Fielded(j)
    BY <1>1, <1>2, StepOfScript
  <1>4. /\ Fielded(k) /\ Alike(j, k) /\ k.script = Tail(j.script) /\ k.pc = "run"
        /\ k.depth = j.depth /\ k.table = j.table
    BY <1>1, <1>3, Advances
  <1>5. Placed(j, store)
    BY <1>3 DEF JobOK
  <1>6. store # "memory" => Course(k.script, k.depth)
    BY <1>3, <1>4, <1>5, Moves DEF Placed
  <1>7. j.table # "done"
    BY <1>3, <1>5 DEF Placed
  <1>8. Placed(k, store)
    BY <1>3, <1>4, <1>5, <1>6, <1>7 DEF Placed, Alike
  <1> QED
    BY <1>1, <1>2, <1>4, <1>8, GoesOn

LEMMA AllFiredKeeps ==
  ASSUME IInv, NEW c \in Client, AllFired(c)
  PROVE  IInv'
  <1>1. PICK j, k : j = job[c] /\ k = [j EXCEPT !.pc = "run"]
    OBVIOUS
  <1>2. j.pc = "fire" /\ j.event = Nobody /\ DOMAIN j.events = {} /\ Step(c, k)
    BY <1>1 DEF AllFired
  <1>3. JobOK(j, store, There) /\ Fielded(j) /\ Placed(j, store)
    BY <1>1 DEF IInv, JobOK, Shaped
  <1>4. /\ Fielded(k) /\ Alike(j, k) /\ k.script = j.script /\ k.pc = "run"
        /\ k.depth = j.depth /\ k.table = j.table
    BY <1>1, <1>3 DEF Fielded, Alike
  <1>5. Placed(k, store)
    BY <1>2, <1>3, <1>4 DEF Placed, Alike
  <1> QED
    BY <1>1, <1>2, <1>4, <1>5, Goes

LEMMA LegsDoneKeeps ==
  ASSUME IInv, NEW c \in Client, LegsDone(c)
  PROVE  IInv'
  <1>1. PICK j, k : j = job[c] /\ k = [j EXCEPT !.pc = "run"]
    OBVIOUS
  <1>2. j.pc = "legs" /\ Step(c, k)
    BY <1>1 DEF LegsDone
  <1>3. JobOK(j, store, There) /\ Fielded(j) /\ Placed(j, store)
    BY <1>1 DEF IInv, JobOK, Shaped
  <1>4. /\ Fielded(k) /\ Alike(j, k) /\ k.script = j.script /\ k.pc = "run"
        /\ k.depth = j.depth /\ k.table = j.table
    BY <1>1, <1>3 DEF Fielded, Alike
  <1>5. Placed(k, store)
    BY <1>2, <1>3, <1>4 DEF Placed, Alike
  <1> QED
    BY <1>1, <1>2, <1>4, <1>5, Goes

LEMMA FlowKeeps ==
  ASSUME IInv, NEW c \in Client, NEW script, Course(script, 0), Flow(c, script)
  PROVE  IInv'
  <1>0. PICK forms \in Lists : job[c].pc = "idle" /\ Step(c, Request(script, forms))
    BY DEF Flow
  <1>1. PICK k : k = Request(script, forms) /\ job[c].pc = "idle" /\ Step(c, k)
    BY <1>0
  <1>2. job[c] = Idle
    BY <1>1 DEF IInv, JobOK, Shaped
  <1>3. /\ k = [pc |-> "run", script |-> script, forms |-> forms, depth |-> 0, table |-> "none",
                own |-> {}, fresh |-> <<>>, seen |-> {}, events |-> <<>>, event |-> Nobody, listener |-> 1,
                legs |-> <<>>]
    BY <1>1 DEF Request, Idle
  <1>4. /\ Fielded(k) /\ k.pc = "run" /\ k.script = script /\ k.forms = forms /\ k.depth = 0 /\ k.table = "none"
        /\ k.own = {} /\ k.event = Nobody /\ k.listener = 1 /\ k.legs = <<>>
    BY <1>3 DEF Fielded
  <1>5. DOMAIN k.events = {} /\ DOMAIN k.fresh = {} /\ DOMAIN k.legs = {}
    BY <1>3
  <1>6. TablesOK /\ TablesOK' /\ There' = There /\ (\A p \in Person : Rows(p)' = Rows(p)) /\ told' = told /\ raced' = raced
    BY <1>1, CopiesStay DEF Step, IInv, TablesOK
  <1>7. JobOK(k, store, There')
    <2>1. IsList(k.fresh) /\ IsList(k.events) /\ k.event \notin Range(k.events)
      BY <1>5 DEF IsList, Range
    <2>2. k.forms \in Seq(DOMAIN Of) /\ k.legs \in Seq(Heard \X Person)
      BY <1>4, SpellingAssumption
    <2>3. Shaped(k)
      BY <1>4, <2>1, <2>2 DEF Shaped
    <2>4. Placed(k, store)
      BY <1>4, <1>5 DEF Placed
    <2>5. Sighted(k, There')
      BY <1>4, <1>5 DEF Sighted
    <2>6. Once(k)
      BY <1>4, <1>5 DEF Once, Due
    <2> QED
      BY <2>3, <2>4, <2>5, <2>6 DEF JobOK
  <1>8. \A l, p : p \in Person => ~Telling(k, l, p)
    BY <1>4, <1>7, NothingToTell
  <1>9. \A l, p : p \in Person => ~Telling(job[c], l, p)
    BY <1>2, <1>6, IdleOK DEF TablesOK
  <1>10. Own(k) /\ \A l \in Heard, p \in Person : Orderly(c, k, l, p)
    BY <1>4, <1>6, <1>8, <1>9 DEF Own, Orderly, Nothing, Owes
  <1>11. Become(c, k) /\ store' = store /\ (~raced' => ~raced /\ \A p \in Person : Rows(p)' <= 1)
    BY <1>1, <1>6 DEF Step, IInv, Accounts
  <1> QED
    BY <1>6, <1>7, <1>10, <1>11, StepKeeps

-----------------------------------------------------------------------------
(* The end of a transaction. *)

LEMMA InnerLeaveKeeps ==
  ASSUME IInv, NEW c \in Client, At(c, "leave"), ~(InTransaction(job[c]) /\ Outermost(job[c])), Leave(c)
  PROVE  IInv'
  <1>1. PICK j, i : j = job[c] /\ i = Advance(j)
    OBVIOUS
  <1>2. PICK k : k = [i EXCEPT !.depth = IF InTransaction(i) THEN @ - 1 ELSE 0]
    OBVIOUS
  <1>3. /\ j.script # <<>> /\ Head(j.script) = "leave" /\ j.pc = "run"
        /\ JobOK(j, store, There) /\ Fielded(j)
    BY <1>1, StepOfScript
  <1>4. /\ Fielded(i) /\ Alike(j, i) /\ i.script = Tail(j.script) /\ i.pc = "run"
        /\ i.depth = j.depth /\ i.table = j.table
    BY <1>1, <1>3, Advances
  <1>5. Step(c, k)
    BY <1>1, <1>2, <1>4 DEF Leave, InTransaction, Outermost
  <1>6. /\ Fielded(k) /\ Alike(j, k) /\ k.script = Tail(j.script) /\ k.pc = "run" /\ k.table = j.table
        /\ k.depth = IF j.depth > 0 THEN j.depth - 1 ELSE 0
    BY <1>2, <1>4 DEF Fielded, Alike, InTransaction
  <1>7. Placed(j, store) /\ j.depth \in Nat /\ j.depth # 1
    BY <1>1, <1>3 DEF JobOK, Shaped, InTransaction, Outermost
  <1>8. /\ k.depth \in Nat /\ (k.depth = 0 <=> j.depth = 0)
    BY <1>6, <1>7
  <1>9. store # "memory" => Course(k.script, k.depth)
    BY <1>3, <1>6, <1>7, Moves DEF Placed
  <1>10. j.table # "done"
    BY <1>3, <1>7 DEF Placed
  <1>11. Placed(k, store)
    BY <1>3, <1>6, <1>7, <1>8, <1>9, <1>10 DEF Placed, Alike
  <1> QED
    BY <1>1, <1>5, <1>6, <1>8, <1>11, Goes

\* The commit: the copies are there, and the notices are owed.
LEMMA CommitKeeps ==
  ASSUME IInv, NEW c \in Client, At(c, "leave"), InTransaction(job[c]), Outermost(job[c]), Leave(c)
  PROVE  IInv'
  <1>1. PICK j, i : j = job[c] /\ i = Advance(j)
    OBVIOUS
  <1>2. PICK k : k = [i EXCEPT !.depth = 0, !.table = "done", !.own = {}, !.pc = "legs"]
    OBVIOUS
  <1>3. /\ j.script # <<>> /\ Head(j.script) = "leave" /\ j.pc = "run"
        /\ JobOK(j, store, There) /\ Fielded(j)
    BY <1>1, StepOfScript
  <1>4. /\ Fielded(i) /\ Alike(j, i) /\ i.script = Tail(j.script) /\ i.pc = "run"
        /\ i.depth = j.depth /\ i.table = j.table
    BY <1>1, <1>3, Advances
  <1>5. /\ Become(c, k) /\ copies' = Inserted(j.own) /\ store' = store /\ told' = told
        /\ raced' = (raced \/ j.own \intersect There # {})
    <2>1. InTransaction(i) /\ Outermost(i)
      BY <1>1, <1>4 DEF InTransaction, Outermost
    <2>2. i.own = j.own
      BY <1>4 DEF Alike
    <2> QED
      BY <1>1, <1>2, <2>1, <2>2 DEF Leave
  <1>6. /\ Fielded(k) /\ k.pc = "legs" /\ k.depth = 0 /\ k.table = "done" /\ k.own = {}
        /\ k.script = Tail(j.script) /\ k.forms = j.forms /\ k.fresh = j.fresh
        /\ k.events = j.events /\ k.event = j.event /\ k.listener = j.listener /\ k.legs = j.legs
    <2>1. k = [pc |-> "legs", script |-> i.script, forms |-> i.forms, depth |-> 0, table |-> "done",
               own |-> {}, fresh |-> i.fresh, seen |-> i.seen, events |-> i.events, event |-> i.event,
               listener |-> i.listener, legs |-> i.legs]
      BY <1>2, <1>4 DEF Fielded
    <2> QED
      BY <1>4, <2>1 DEF Fielded, Alike
  <1>7. Placed(j, store) /\ Shaped(j) /\ Sighted(j, There) /\ Once(j) /\ j.depth = 1 /\ j.depth > 0
    BY <1>1, <1>3 DEF JobOK, InTransaction, Outermost
  <1>8. store = "jdbc" /\ k.script = <<>>
    <2>1. store # "memory"
      BY <1>7 DEF Placed
    <2>2. Course(j.script, j.depth)
      BY <1>7, <2>1 DEF Placed
    <2> QED
      BY <1>3, <1>6, <1>7, <2>1, <2>2, Moves DEF IInv, TablesOK
  <1>9. DOMAIN j.events = {} /\ j.event = Nobody
    BY <1>3, <1>7 DEF Placed
  <1>10. TablesOK /\ j.own \subseteq Person
    BY <1>7 DEF IInv, Shaped
  <1>11. /\ copies' \in [Person -> [unread : Nat, read : Nat]]
         /\ There' = There \union j.own
         /\ \A p \in Person : /\ p \in j.own => Rows(p)' = Rows(p) + 1
                              /\ p \notin j.own => Rows(p)' = Rows(p)
    BY <1>5, <1>10, InsertedRows
  <1>12. TablesOK'
    BY <1>5, <1>10, <1>11 DEF TablesOK
  <1>13. JobOK(k, store, There')
    <2>1. Shaped(k)
      BY <1>6, <1>7 DEF Shaped
    <2>2. Placed(k, store)
      <3>1. Course(k.script, k.depth)
        BY <1>6, <1>8 DEF Course
      <3>2. /\ store # "memory" /\ store = "jdbc" /\ k.table = "done" /\ k.depth = 0 /\ k.own = {} /\ k.pc = "legs"
            /\ ~(k.depth > 0) /\ k.script = <<>> /\ DOMAIN k.events = {} /\ k.event = Nobody
        <4>1. DOMAIN k.events = {} /\ k.event = Nobody
          BY <1>6, <1>9
        <4>2. store # "memory" /\ store = "jdbc" /\ k.script = <<>>
          BY <1>8
        <4>3. k.table = "done" /\ k.depth = 0 /\ k.own = {} /\ k.pc = "legs"
          BY <1>6
        <4>4. ~(k.depth > 0)
          BY <4>3
        <4> QED
          BY <4>1, <4>2, <4>3, <4>4
      <3>3. k.script \in {<<>>, <<"copy">>}
        BY <1>8
      <3> QED
        BY <3>1, <3>2, <3>3 DEF Placed
    <2>3. Sighted(k, There')
      BY <1>6, <1>7, <1>9, <1>11 DEF Sighted
    <2>4. Once(k)
      BY <1>6, <1>7 DEF Once, Firing, Due
    <2> QED
      BY <2>1, <2>2, <2>3, <2>4 DEF JobOK
  <1>14. \A l, p : Telling(k, l, p) <=> Telling(j, l, p)
    BY <1>6 DEF Telling, Due, Firing
  <1>15. ASSUME ~raced'
         PROVE  /\ ~raced /\ Accounts
                /\ \A p \in Person : p \in j.own => Rows(p) = 0
                /\ \A p \in Person : Rows(p)' <= 1
    <2>1. ~raced /\ Accounts /\ j.own \intersect There = {}
      BY <1>5, <1>15 DEF IInv
    <2>2. \A p \in Person : Rows(p) \in Nat /\ (p \in There <=> Rows(p) > 0)
      BY <1>10, RowsNat
    <2>3. \A p \in Person : p \in j.own => Rows(p) = 0
      BY <2>1, <2>2
    <2> QED
      BY <1>11, <2>1, <2>3 DEF Accounts
  <1>16. ASSUME ~raced', ~Forwards, NEW l \in Heard, NEW p \in Person
         PROVE  Orderly(c, k, l, p)
    <2>1. p \in j.own <=> Telling(j, l, p)
      BY <1>1, <1>7, <1>15, <1>16 DEF Accounts, Own
    <2>2. CASE p \in j.own
      BY <1>5, <1>6, <1>11, <1>14, <1>15, <1>16, <2>1, <2>2 DEF Orderly, NewCopy, Owes
    <2>3. CASE p \notin j.own
      BY <1>1, <1>5, <1>6, <1>7, <1>11, <1>14, <2>1, <2>3 DEF Orderly, Nothing, Owes
    <2> QED
      BY <2>2, <2>3
  <1>17. Own(k)
    BY <1>6 DEF Own
  <1>18. There \subseteq There'
    BY <1>11
  <1> QED
    BY <1>5, <1>12, <1>13, <1>15, <1>16, <1>17, <1>18, StepKeeps

-----------------------------------------------------------------------------
(* Copying. *)

LEMMA NormalizeList ==
  ASSUME NEW forms \in Seq(DOMAIN Of)
  PROVE  IsList(NormalizeActors(forms))
  <1>1. PICK n \in Nat : n = Len(forms) /\ DOMAIN forms = 1 .. n
    OBVIOUS
  <1>2. PICK f : f = NormalizeActors(forms)
    OBVIOUS
  <1>3. /\ DOMAIN f = {i \in DOMAIN forms : /\ Of[forms[i]] # Nobody
                                            /\ \A k \in 1 .. i - 1 : Of[forms[k]] # Of[forms[i]]}
        /\ \A i \in DOMAIN f : f[i] = Of[forms[i]]
    BY <1>2 DEF NormalizeActors
  <1>4. \A i \in DOMAIN f : f[i] \in Person
    BY <1>3, SpellingAssumption
  <1>5. ASSUME NEW i \in DOMAIN f, NEW k \in DOMAIN f, i < k PROVE f[i] # f[k]
    BY <1>1, <1>3, <1>5
  <1>6. ASSUME NEW i \in DOMAIN f, NEW k \in DOMAIN f, f[i] = f[k] PROVE i = k
    <2>1. i \in Nat /\ k \in Nat
      BY <1>1, <1>3
    <2> QED
      BY <1>5, <1>6, <2>1
  <1> QED
    BY <1>2, <1>4, <1>6 DEF IsList

LEMMA FreshList ==
  ASSUME NEW people, NEW there, IsList(people)
  PROVE  /\ IsList(Fresh(people, there))
         /\ Range(Fresh(people, there)) = Range(people) \ there
  BY DEF IsList, Fresh, Restrict, Range

LEMMA RangeOf ==
  ASSUME NEW f, IsList(f)
  PROVE  Range(f) \subseteq Person
  BY DEF IsList, Range

LEMMA CopyInMemoryKeeps ==
  ASSUME IInv, NEW c \in Client, CopyInMemory(c)
  PROVE  IInv'
  <1>1. PICK j, i, people, fresh : /\ j = job[c] /\ i = Advance(j) /\ people = NormalizeActors(j.forms)
                                   /\ fresh = Fresh(people, There)
    OBVIOUS
  <1>2. PICK k : k = [i EXCEPT !.pc = "fire", !.events = fresh]
    OBVIOUS
  <1>3. /\ At(c, "copy") /\ store = "memory" /\ Become(c, k) /\ copies' = Inserted(Range(people) \ There)
        /\ store' = store /\ told' = told /\ raced' = raced
    BY <1>1, <1>2 DEF CopyInMemory, CreateCcInstance
  <1>4. /\ j.script # <<>> /\ Head(j.script) = "copy" /\ j.pc = "run"
        /\ JobOK(j, store, There) /\ Fielded(j)
    BY <1>1, <1>3, StepOfScript
  <1>5. /\ Fielded(i) /\ Alike(j, i) /\ i.script = Tail(j.script) /\ i.pc = "run"
        /\ i.depth = j.depth /\ i.table = j.table
    BY <1>1, <1>4, Advances
  <1>6. /\ Fielded(k) /\ k.pc = "fire" /\ k.events = fresh /\ k.depth = j.depth /\ k.table = j.table
        /\ k.own = j.own /\ k.script = Tail(j.script) /\ k.forms = j.forms /\ k.fresh = j.fresh
        /\ k.event = j.event /\ k.listener = j.listener /\ k.legs = j.legs
    <2>1. k = [pc |-> "fire", script |-> i.script, forms |-> i.forms, depth |-> i.depth, table |-> i.table,
               own |-> i.own, fresh |-> i.fresh, seen |-> i.seen, events |-> fresh, event |-> i.event,
               listener |-> i.listener, legs |-> i.legs]
      BY <1>2, <1>5 DEF Fielded
    <2> QED
      BY <1>5, <2>1 DEF Fielded, Alike
  <1>7. Placed(j, store) /\ Shaped(j) /\ Sighted(j, There) /\ Once(j)
    BY <1>4 DEF JobOK
  <1>8. /\ j.event = Nobody /\ j.depth = 0 /\ j.table = "none" /\ j.legs = <<>> /\ j.own = {}
        /\ DOMAIN j.legs = {}
    BY <1>3, <1>4, <1>7 DEF Placed
  <1>9. IsList(people) /\ IsList(fresh) /\ Range(fresh) = Range(people) \ There /\ Range(people) \subseteq Person
    BY <1>1, <1>7, NormalizeList, FreshList, RangeOf DEF Shaped
  <1>10. TablesOK
    BY DEF IInv
  <1>11. /\ copies' \in [Person -> [unread : Nat, read : Nat]]
         /\ There' = There \union Range(fresh)
         /\ \A p \in Person : /\ p \in Range(fresh) => Rows(p)' = Rows(p) + 1
                              /\ p \notin Range(fresh) => Rows(p)' = Rows(p)
    <2>1. Range(fresh) \subseteq Person /\ copies' = Inserted(Range(fresh))
      BY <1>3, <1>9
    <2> QED
      BY <1>10, <2>1, InsertedRows
  <1>12. TablesOK'
    BY <1>3, <1>10, <1>11 DEF TablesOK
  <1>13. \A l, p : p \in Person => (Telling(k, l, p) <=> p \in Range(fresh))
    BY <1>6, <1>8, SpellingAssumption DEF Telling, Due, Firing
  <1>14. JobOK(k, store, There')
    <2>1. Shaped(k)
      <3>1. k.event \notin Range(k.events)
        BY <1>6, <1>8, <1>9, SpellingAssumption
      <3> QED
        BY <1>6, <1>7, <1>9, <3>1 DEF Shaped
    <2>2. Placed(k, store)
      BY <1>3, <1>6, <1>7, <1>8 DEF Placed
    <2>3. Sighted(k, There')
      <3>1. \A n \in DOMAIN k.events : k.events[n] \in There'
        BY <1>6, <1>11 DEF Range
      <3> QED
        BY <1>6, <1>8, <3>1 DEF Sighted
    <2>4. Once(k)
      BY <1>6, <1>8 DEF Once, Due
    <2> QED
      BY <2>1, <2>2, <2>3, <2>4 DEF JobOK
  <1>15. ASSUME ~raced' PROVE ~raced /\ Accounts
    BY <1>3, <1>15 DEF IInv
  <1>16. \A p \in Person : p \in Range(fresh) => Rows(p) = 0
    BY <1>9, <1>10, RowsNat
  <1>17. ASSUME ~raced' PROVE \A p \in Person : Rows(p)' <= 1
    BY <1>11, <1>15, <1>16, <1>17 DEF Accounts
  <1>18. \A l, p : p \in Person => ~Telling(j, l, p)
    BY <1>4, <1>8, NothingToTell
  <1>19. ASSUME NEW l \in Heard, NEW p \in Person
         PROVE  Orderly(c, k, l, p)
    <2>1. CASE p \in Range(fresh)
      BY <1>3, <1>6, <1>8, <1>11, <1>13, <1>16, <2>1 DEF Orderly, NewCopy, Owes
    <2>2. CASE p \notin Range(fresh)
      BY <1>1, <1>3, <1>11, <1>13, <1>18, <2>2 DEF Orderly, Nothing, Owes
    <2> QED
      BY <2>1, <2>2
  <1>20. Own(k)
    BY <1>6, <1>8 DEF Own
  <1>21. There \subseteq There'
    BY <1>11
  <1> QED
    BY <1>3, <1>12, <1>14, <1>15, <1>17, <1>19, <1>20, <1>21, StepKeeps

LEMMA NobodyMissingKeeps ==
  ASSUME IInv, NEW c \in Client, At(c, "copy"), store = "jdbc", Step(c, Advance(job[c]))
  PROVE  IInv'
  <1>1. PICK j, k : j = job[c] /\ k = Advance(j)
    OBVIOUS
  <1>2. /\ j.script # <<>> /\ Head(j.script) = "copy" /\ j.pc = "run"
        /\ JobOK(j, store, There) /\ Fielded(j)
    BY <1>1, StepOfScript
  <1>3. /\ Fielded(k) /\ Alike(j, k) /\ k.script = Tail(j.script) /\ k.pc = "run"
        /\ k.depth = j.depth /\ k.table = j.table
    BY <1>1, <1>2, Advances
  <1>4. Placed(j, store)
    BY <1>2 DEF JobOK
  <1>5. Course(k.script, k.depth)
    BY <1>2, <1>3, <1>4, Moves, ZenonT(40) DEF Placed
  <1>6. j.table = "done" => k.script = <<>>
    BY <1>2, <1>3, <1>4, ForwardedDone DEF Placed
  <1>7. Placed(k, store)
    BY <1>2, <1>3, <1>4, <1>5, <1>6 DEF Placed, Alike
  <1> QED
    BY <1>1, <1>3, <1>7, Goes

LEMMA SomebodyMissingKeeps ==
  ASSUME IInv, NEW c \in Client, NEW j, NEW fresh, j = job[c], fresh = Fresh(NormalizeActors(j.forms), Seen(j)),
         At(c, "copy"), store = "jdbc", Step(c, [j EXCEPT !.fresh = fresh, !.seen = Seen(j), !.pc = "second"])
  PROVE  IInv'
  <1>1. PICK k : k = [j EXCEPT !.fresh = fresh, !.seen = Seen(j), !.pc = "second"]
    OBVIOUS
  <1>2. /\ j.script # <<>> /\ Head(j.script) = "copy" /\ j.pc = "run"
        /\ JobOK(j, store, There) /\ Fielded(j)
    BY StepOfScript
  <1>3. /\ Fielded(k) /\ k.pc = "second" /\ k.events = j.events /\ k.depth = j.depth /\ k.table = j.table
        /\ k.own = j.own /\ k.script = j.script /\ k.forms = j.forms /\ k.fresh = fresh /\ k.seen = Seen(j)
        /\ k.event = j.event /\ k.listener = j.listener /\ k.legs = j.legs
    <2>1. k = [pc |-> "second", script |-> j.script, forms |-> j.forms, depth |-> j.depth, table |-> j.table,
               own |-> j.own, fresh |-> fresh, seen |-> Seen(j), events |-> j.events, event |-> j.event,
               listener |-> j.listener, legs |-> j.legs]
      BY <1>1, <1>2 DEF Fielded
    <2> QED
      BY <2>1 DEF Fielded
  <1>4. Placed(j, store) /\ Shaped(j) /\ Sighted(j, There) /\ Once(j)
    BY <1>2 DEF JobOK
  <1>5. IsList(fresh) /\ Range(fresh) \intersect Seen(j) = {}
    <2>1. IsList(NormalizeActors(j.forms))
      BY <1>4, NormalizeList DEF Shaped
    <2> QED
      BY <2>1, FreshList
  <1>6. \A l, p : (Telling(k, l, p) <=> Telling(j, l, p)) /\ (Due(k, l, p) <=> Due(j, l, p)) /\ (Firing(k, l, p) <=> Firing(j, l, p))
    BY <1>3 DEF Telling, Due, Firing
  <1>7. TablesOK /\ TablesOK' /\ There' = There /\ (\A p \in Person : Rows(p)' = Rows(p)) /\ told' = told /\ raced' = raced
    BY CopiesStay DEF Step, IInv, TablesOK
  <1>8. Course(j.script, j.depth) /\ (j.depth > 0 \/ Forwards)
    BY <1>2, <1>4, Moves DEF Placed
  <1>9. JobOK(k, store, There')
    <2>1. Shaped(k)
      BY <1>3, <1>4, <1>5 DEF Shaped
    <2>2. Placed(k, store)
      BY <1>2, <1>3, <1>4, <1>8 DEF Placed
    <2>3. Sighted(k, There')
      BY <1>3, <1>4, <1>7 DEF Sighted, Seen
    <2>4. ASSUME NEW i \in DOMAIN k.fresh
          PROVE  k.fresh[i] \notin k.own /\ \A l \in Heard : ~Due(k, l, k.fresh[i])
      <3>1. k.fresh[i] \notin There \union j.own
        BY <1>3, <1>5 DEF Range, Seen
      <3> QED
        BY <1>3, <1>4, <3>1 DEF Due, Sighted
    <2>5. Once(k)
      <3>1. \A i, n \in DOMAIN k.legs : k.legs[i] = k.legs[n] => i = n
        BY <1>3, <1>4 DEF Once
      <3>2. \A l \in Heard, p \in Person : Firing(k, l, p) => ~Due(k, l, p)
        BY <1>4, <1>6 DEF Once
      <3> QED
        BY <2>4, <3>1, <3>2 DEF Once
    <2> QED
      BY <2>1, <2>2, <2>3, <2>5 DEF JobOK
  <1>10. ASSUME ~raced', ~Forwards PROVE Own(k)
    <2>1. Own(j)
      BY <1>7, <1>10 DEF IInv, Accounts
    <2> QED
      BY <1>3, <1>6, <2>1 DEF Own
  <1>11. \A l \in Heard, p \in Person : Orderly(c, k, l, p)
    BY <1>3, <1>6, <1>7 DEF Orderly, Nothing, Owes
  <1>12. Become(c, k) /\ store' = store /\ (~raced' => ~raced /\ \A p \in Person : Rows(p)' <= 1)
    BY <1>1, <1>7 DEF Step, IInv, Accounts
  <1> QED
    BY <1>7, <1>9, <1>10, <1>11, <1>12, StepKeeps

LEMMA FindCcActorIDsKeeps ==
  ASSUME IInv, NEW c \in Client, FindCcActorIDs(c)
  PROVE  IInv'
  <1>1. PICK j, fresh : j = job[c] /\ fresh = Fresh(NormalizeActors(j.forms), Seen(j))
    OBVIOUS
  <1>2. /\ At(c, "copy") /\ store = "jdbc"
        /\ Step(c, IF Range(fresh) = {} THEN Advance(j)
                   ELSE [j EXCEPT !.fresh = fresh, !.seen = Seen(j), !.pc = "second"])
    BY <1>1 DEF FindCcActorIDs
  <1>3. CASE Range(fresh) = {}
    BY <1>1, <1>2, <1>3, NobodyMissingKeeps
  <1>4. CASE Range(fresh) # {}
    BY <1>1, <1>2, <1>4, SomebodyMissingKeeps
  <1> QED
    BY <1>3, <1>4

LEMMA InsertMissingKeeps ==
  ASSUME IInv, NEW c \in Client, InsertMissing(c)
  PROVE  IInv'
  <1>1. PICK j, i : j = job[c] /\ i = Advance(j)
    OBVIOUS
  <1>2. PICK next : next = [i EXCEPT !.pc = "fire", !.events = j.fresh, !.fresh = <<>>, !.seen = {}]
    OBVIOUS
  <1>3. PICK seen \in {j.seen, Seen(j)} :
          /\ j.pc = "second"
          /\ raced' = (raced \/ Range(j.fresh) \ seen # Range(j.fresh)
                             \/ (~InTransaction(j) /\ (Range(j.fresh) \ seen) \intersect There # {}))
          /\ IF InTransaction(j)
             THEN Become(c, [next EXCEPT !.own = @ \union (Range(j.fresh) \ seen)]) /\ UNCHANGED copies
             ELSE Become(c, next) /\ copies' = Inserted(Range(j.fresh) \ seen)
          /\ UNCHANGED <<store, born, told, owed>>
    BY <1>1, <1>2 DEF InsertMissing
  <1>4. PICK missing : missing = Range(j.fresh) \ seen
    OBVIOUS
  <1>5. JobOK(j, store, There) /\ Fielded(j)
    BY <1>1 DEF IInv, JobOK, Shaped
  <1>6. Placed(j, store) /\ Shaped(j) /\ Sighted(j, There) /\ Once(j)
    BY <1>5 DEF JobOK
  <1>7. /\ Fielded(i) /\ Alike(j, i) /\ i.script = Tail(j.script) /\ i.pc = "run"
        /\ i.depth = j.depth /\ i.table = j.table
    BY <1>1, <1>5, Advances
  <1>8. PICK k : /\ Become(c, k) /\ Fielded(k) /\ k.pc = "fire" /\ k.script = Tail(j.script) /\ k.forms = j.forms
                 /\ k.depth = j.depth /\ k.table = j.table /\ DOMAIN k.fresh = {} /\ k.events = j.fresh
                 /\ k.event = j.event /\ k.listener = j.listener /\ k.legs = j.legs
                 /\ k.own = IF j.depth > 0 THEN j.own \union missing ELSE j.own
    <2>1. next = [pc |-> "fire", script |-> i.script, forms |-> i.forms, depth |-> i.depth, table |-> i.table,
                  own |-> i.own, fresh |-> <<>>, seen |-> {}, events |-> j.fresh, event |-> i.event,
                  listener |-> i.listener, legs |-> i.legs]
      BY <1>2, <1>7 DEF Fielded
    <2>2. /\ Fielded(next) /\ next.pc = "fire" /\ next.script = Tail(j.script) /\ next.forms = j.forms
          /\ next.depth = j.depth /\ next.table = j.table /\ next.fresh = <<>> /\ next.events = j.fresh
          /\ next.event = j.event /\ next.listener = j.listener /\ next.legs = j.legs /\ next.own = j.own
      BY <1>7, <2>1 DEF Fielded, Alike
    <2>3. DOMAIN next.fresh = {}
      BY <2>1
    <2>4. CASE j.depth > 0
      <3>1. PICK k : k = [next EXCEPT !.own = @ \union missing]
        OBVIOUS
      <3>2. Become(c, k)
        BY <1>3, <1>4, <2>4, <3>1 DEF InTransaction
      <3>3. /\ Fielded(k) /\ k.pc = "fire" /\ k.script = Tail(j.script) /\ k.forms = j.forms
            /\ k.depth = j.depth /\ k.table = j.table /\ k.fresh = next.fresh /\ k.events = j.fresh
            /\ k.event = j.event /\ k.listener = j.listener /\ k.legs = j.legs /\ k.own = j.own \union missing
        BY <2>2, <3>1 DEF Fielded
      <3> QED
        BY <2>3, <2>4, <3>2, <3>3
    <2>5. CASE ~(j.depth > 0)
      <3>1. Become(c, next)
        BY <1>3, <2>5 DEF InTransaction
      <3> QED
        BY <2>2, <2>3, <2>5, <3>1
    <2> QED
      BY <2>4, <2>5
  <1>9. /\ store = "jdbc" /\ Course(j.script, j.depth) /\ (j.depth > 0 \/ Forwards)
        /\ DOMAIN j.events = {} /\ j.event = Nobody /\ j.depth \in Nat
    BY <1>3, <1>6 DEF Placed, Shaped
  <1>10. /\ IsList(j.fresh) /\ Range(j.fresh) \subseteq Person /\ missing \subseteq Person
    BY <1>4, <1>6, RangeOf DEF Shaped
  <1>11. Range(j.fresh) \subseteq missing \union There \union j.own
    BY <1>3, <1>4, <1>6 DEF Sighted, Seen
  <1>12. TablesOK
    BY DEF IInv
  <1>13. /\ copies' \in [Person -> [unread : Nat, read : Nat]]
         /\ There' = IF j.depth > 0 THEN There ELSE There \union missing
         /\ \A p \in Person : /\ p \in missing /\ ~(j.depth > 0) => Rows(p)' = Rows(p) + 1
                              /\ p \notin missing \/ j.depth > 0 => Rows(p)' = Rows(p)
    <2>1. CASE j.depth > 0
      BY <1>3, <1>12, <2>1, CopiesStay DEF InTransaction
    <2>2. CASE ~(j.depth > 0)
      <3>1. copies' = Inserted(missing)
        BY <1>3, <1>4, <2>2 DEF InTransaction
      <3> QED
        BY <1>10, <1>12, <2>2, <3>1, InsertedRows
    <2> QED
      BY <2>1, <2>2
  <1>14. TablesOK'
    BY <1>3, <1>12, <1>13 DEF TablesOK
  <1>15. \A l, p : (Due(k, l, p) <=> Due(j, l, p)) /\ (p \in Person => (Firing(k, l, p) <=> p \in Range(j.fresh)))
    BY <1>8, <1>9, SpellingAssumption DEF Due, Firing
  <1>16. JobOK(k, store, There')
    <2>1. Shaped(k)
      <3>1. k.event \notin Range(k.events) /\ IsList(k.fresh)
        BY <1>8, <1>9, <1>10, SpellingAssumption DEF IsList
      <3>2. k.own \subseteq Person
        BY <1>6, <1>8, <1>10 DEF Shaped
      <3> QED
        BY <1>6, <1>8, <3>1, <3>2 DEF Shaped
    <2>2. Placed(k, store)
      <3>1. Head(j.script) = "copy" /\ j.script # <<>>
        BY <1>3, <1>6 DEF Placed
      <3>2. Course(k.script, k.depth)
        BY <1>8, <1>9, <3>1, Moves
      <3>3. j.table = "done" => k.script = <<>>
        BY <1>6, <1>8, <3>1, ForwardedDone DEF Placed
      <3>4. k.depth = 0 => k.own = {}
        BY <1>6, <1>8 DEF Placed
      <3> QED
        BY <1>6, <1>8, <1>9, <3>2, <3>3, <3>4 DEF Placed
    <2>3. Sighted(k, There')
      <3>1. There' \union k.own = There \union j.own \union missing
        BY <1>8, <1>13
      <3>2. \A n \in DOMAIN k.events : k.events[n] \in There' \union k.own
        BY <1>8, <1>11, <3>1 DEF Range
      <3> QED
        BY <1>6, <1>8, <1>9, <3>1, <3>2 DEF Sighted
    <2>4. Once(k)
      <3>1. \A m, n \in DOMAIN k.legs : k.legs[m] = k.legs[n] => m = n
        BY <1>6, <1>8 DEF Once
      <3>2. \A l \in Heard, p \in Person : Firing(k, l, p) => ~Due(k, l, p)
        BY <1>3, <1>6, <1>15 DEF Once, Range
      <3> QED
        BY <1>8, <3>1, <3>2 DEF Once
    <2> QED
      BY <2>1, <2>2, <2>3, <2>4 DEF JobOK
  <1>17. ASSUME ~raced'
         PROVE  /\ ~raced /\ Accounts /\ missing = Range(j.fresh)
                /\ ~(j.depth > 0) => missing \intersect There = {}
    BY <1>3, <1>4, <1>17 DEF IInv, InTransaction
  <1>18. ASSUME ~raced', NEW p \in Person PROVE Rows(p)' <= 1
    <2>1. CASE p \in missing /\ ~(j.depth > 0)
      <3>1. Rows(p) = 0
        BY <1>12, <1>17, <1>18, <2>1, RowsNat
      <3> QED
        BY <1>13, <2>1, <3>1
    <2>2. CASE p \notin missing \/ j.depth > 0
      BY <1>13, <1>17, <1>18, <2>2 DEF Accounts
    <2> QED
      BY <2>1, <2>2
  <1>19. ASSUME ~raced', ~Forwards
         PROVE  Own(k) /\ \A l \in Heard, p \in Person : Orderly(c, k, l, p)
    <2>1. Own(j) /\ j.depth > 0
      BY <1>1, <1>9, <1>17, <1>19 DEF Accounts
    <2>2. \A l, p : p \in Person => ~Firing(j, l, p)
      BY <1>9, SpellingAssumption DEF Firing, Range
    <2>3. Own(k)
      BY <1>8, <1>15, <1>17, <1>19, <2>1, <2>2 DEF Own, Telling
    <2>4. \A l, p : ~Owes(k, l, p) /\ ~Owes(job[c], l, p)
      BY <1>1, <1>8, <2>1 DEF Owes
    <2> QED
      BY <1>3, <1>13, <2>1, <2>3, <2>4 DEF Orderly, Nothing
  <1>20. There \subseteq There' /\ store' = store /\ told' = told
    BY <1>3, <1>13
  <1> QED
    BY <1>8, <1>14, <1>16, <1>17, <1>18, <1>19, <1>20, StepKeeps

-----------------------------------------------------------------------------
(* Events. *)

LEMMA HeardNumber ==
  Heard \subseteq Listener /\ \E n \in Nat : Listener = 1 .. n
  <1>1. PICK n \in Nat : n = Len(Listeners)
    BY ListenersAssumption
  <1>2. DOMAIN Listeners = 1 .. n
    BY <1>1, ListenersAssumption
  <1> QED
    BY <1>1, <1>2 DEF Heard, Listener

\* What a job that fires keeps.
Dispatches(j, k) ==
  /\ Fielded(k) /\ j.pc = "fire" /\ k.pc = "fire" /\ k.script = j.script /\ k.forms = j.forms
  /\ k.depth = j.depth /\ k.table = j.table /\ k.own = j.own /\ k.fresh = j.fresh /\ k.seen = j.seen

\* It fires less than before, and its legs are as before.
LEMMA DispatchOK ==
  ASSUME NEW j, NEW k, NEW s, NEW there, JobOK(j, s, there), Dispatches(j, k),
         IsList(k.events), k.event \in Person \union {Nobody}, k.event \notin Range(k.events),
         k.listener \in Nat \ {0}, k.legs = j.legs,
         \A l \in Heard, p \in Person : Firing(k, l, p) => Firing(j, l, p),
         \A n \in DOMAIN k.events : k.events[n] \in there \union j.own,
         k.event # Nobody => k.event \in there \union j.own
  PROVE  JobOK(k, s, there)
  <1>1. Placed(j, s) /\ Shaped(j) /\ Sighted(j, there) /\ Once(j)
    BY DEF JobOK
  <1>2. Shaped(k)
    BY <1>1 DEF Shaped, Dispatches
  <1>3. Placed(k, s)
    BY <1>1 DEF Placed, Dispatches
  <1>4. Sighted(k, there)
    BY <1>1 DEF Sighted, Dispatches
  <1>5. \A l, p : Due(k, l, p) <=> Due(j, l, p)
    BY DEF Due
  <1>6. Once(k)
    <2>1. k.pc # "second"
      BY DEF Dispatches
    <2>2. \A m, n \in DOMAIN k.legs : k.legs[m] = k.legs[n] => m = n
      BY <1>1 DEF Once
    <2>3. \A l \in Heard, p \in Person : Firing(k, l, p) => ~Due(k, l, p)
      BY <1>1, <1>5 DEF Once
    <2> QED
      BY <2>1, <2>2, <2>3 DEF Once
  <1> QED
    BY <1>2, <1>3, <1>4, <1>6 DEF JobOK

\* A step within the dispatch that calls nobody.
LEMMA Dispatched ==
  ASSUME IInv, NEW c \in Client, NEW j, NEW k, j = job[c], Step(c, k), Dispatches(j, k),
         IsList(k.events), k.event \in Person \union {Nobody}, k.event \notin Range(k.events),
         k.listener \in Nat \ {0}, k.legs = j.legs,
         \A l \in Heard, p \in Person : Firing(k, l, p) <=> Firing(j, l, p),
         \A n \in DOMAIN k.events : k.events[n] \in There \union j.own,
         k.event # Nobody => k.event \in There \union j.own
  PROVE  IInv'
  <1>1. JobOK(j, store, There)
    BY DEF IInv
  <1>2. JobOK(k, store, There)
    BY <1>1, DispatchOK
  <1>3. TablesOK /\ TablesOK' /\ There' = There /\ (\A p \in Person : Rows(p)' = Rows(p)) /\ told' = told /\ raced' = raced
    BY CopiesStay DEF Step, IInv, TablesOK
  <1>4. \A l \in Heard, p \in Person : Telling(k, l, p) <=> Telling(j, l, p)
    BY DEF Telling, Due
  <1>5. k.depth = j.depth /\ k.own = j.own
    BY DEF Dispatches
  <1>6. ASSUME ~raced', ~Forwards PROVE Own(k)
    BY <1>3, <1>4, <1>5, <1>6 DEF IInv, Accounts, Own
  <1>7. \A l \in Heard, p \in Person : Orderly(c, k, l, p)
    BY <1>3, <1>4, <1>5 DEF Orderly, Nothing, Owes
  <1>8. Become(c, k) /\ store' = store /\ (~raced' => ~raced /\ \A p \in Person : Rows(p)' <= 1)
    BY <1>3 DEF Step, IInv, Accounts
  <1> QED
    BY <1>2, <1>3, <1>6, <1>7, <1>8, StepKeeps

LEMMA NextEventKeeps ==
  ASSUME IInv, NEW c \in Client, NextEvent(c)
  PROVE  IInv'
  <1>1. PICK j : j = job[c]
    OBVIOUS
  <1>2. PICK i \in DOMAIN j.events :
          Step(c, [j EXCEPT !.events = Restrict(j.events, DOMAIN j.events \ {i}), !.event = j.events[i], !.listener = 1])
    BY <1>1 DEF NextEvent
  <1>3. PICK rest, k : /\ rest = Restrict(j.events, DOMAIN j.events \ {i})
                       /\ k = [j EXCEPT !.events = rest, !.event = j.events[i], !.listener = 1]
    OBVIOUS
  <1>4. Step(c, k) /\ j.pc = "fire" /\ j.event = Nobody
    BY <1>1, <1>2, <1>3 DEF NextEvent
  <1>5. JobOK(j, store, There) /\ Fielded(j) /\ Shaped(j) /\ Sighted(j, There)
    BY <1>1 DEF IInv, JobOK, Shaped
  <1>6. Dispatches(j, k) /\ k.events = rest /\ k.event = j.events[i] /\ k.listener = 1 /\ k.legs = j.legs
    <2>1. k = [pc |-> j.pc, script |-> j.script, forms |-> j.forms, depth |-> j.depth, table |-> j.table,
               own |-> j.own, fresh |-> j.fresh, seen |-> j.seen, events |-> rest, event |-> j.events[i],
               listener |-> 1, legs |-> j.legs]
      BY <1>3, <1>5 DEF Fielded
    <2> QED
      BY <1>4, <2>1 DEF Fielded, Dispatches
  <1>7. DOMAIN rest = DOMAIN j.events \ {i} /\ \A n \in DOMAIN rest : rest[n] = j.events[n]
    BY <1>3 DEF Restrict
  <1>8. IsList(j.events)
    BY <1>5 DEF Shaped
  <1>9. IsList(rest) /\ k.event \in Person /\ k.event \notin Range(rest)
    BY <1>6, <1>7, <1>8 DEF IsList, Range
  <1>10. ASSUME NEW l \in Heard, NEW p \in Person
         PROVE  Firing(k, l, p) <=> Firing(j, l, p)
    <2>1. l \in Nat /\ 1 <= l
      BY HeardNumber
    <2>2. p \in Range(j.events) <=> p \in Range(rest) \/ p = j.events[i]
      BY <1>7 DEF Range
    <2> QED
      BY <1>4, <1>6, <2>1, <2>2, SpellingAssumption DEF Firing
  <1>11. \A n \in DOMAIN k.events : k.events[n] \in There \union j.own
    BY <1>5, <1>6, <1>7 DEF Sighted
  <1>12. k.event \in There \union j.own
    BY <1>5, <1>6 DEF Sighted
  <1> QED
    BY <1>1, <1>4, <1>6, <1>9, <1>10, <1>11, <1>12, Dispatched

LEMMA FiredKeeps ==
  ASSUME IInv, NEW c \in Client, Fired(c)
  PROVE  IInv'
  <1>1. PICK j, k : j = job[c] /\ k = [j EXCEPT !.event = Nobody]
    OBVIOUS
  <1>2. Step(c, k) /\ j.pc = "fire" /\ j.event # Nobody /\ j.listener \notin Listener
    BY <1>1 DEF Fired
  <1>3. JobOK(j, store, There) /\ Fielded(j) /\ Shaped(j) /\ Sighted(j, There)
    BY <1>1 DEF IInv, JobOK, Shaped
  <1>4. Dispatches(j, k) /\ k.events = j.events /\ k.event = Nobody /\ k.listener = j.listener /\ k.legs = j.legs
    BY <1>1, <1>2, <1>3 DEF Fielded, Dispatches
  <1>5. IsList(k.events) /\ k.event \notin Range(k.events) /\ k.listener \in Nat \ {0}
    <2>1. IsList(j.events) /\ j.listener \in Nat \ {0}
      BY <1>3 DEF Shaped
    <2>2. Nobody \notin Range(j.events)
      BY <2>1, RangeOf, SpellingAssumption
    <2> QED
      BY <1>4, <2>1, <2>2
  <1>6. ASSUME NEW l \in Heard, NEW p \in Person
        PROVE  Firing(k, l, p) <=> Firing(j, l, p)
    <2>1. PICK n \in Nat : Listener = 1 .. n /\ l \in 1 .. n
      BY HeardNumber
    <2>2. ~(j.listener <= l)
      BY <1>2, <1>4, <1>5, <2>1
    <2> QED
      BY <1>4, <2>2, SpellingAssumption DEF Firing
  <1>7. \A n \in DOMAIN k.events : k.events[n] \in There \union j.own
    BY <1>3, <1>4 DEF Sighted
  <1> QED
    BY <1>1, <1>2, <1>4, <1>5, <1>6, <1>7, Dispatched

\* The next listener: what it leaves to be done.
Heeded(j) == [j EXCEPT !.listener = @ + 1]
LeftTo(j, next) == IF j.table = "open" THEN [next EXCEPT !.legs = Append(@, <<j.listener, j.event>>)] ELSE next
ToldNow(j) == told' = [told EXCEPT ![j.listener][j.event] = @ + 1]

LEMMA NextListener ==
  ASSUME NEW j, NEW k, NEW s, NEW there, JobOK(j, s, there), j.pc = "fire", j.event # Nobody,
         k = Heeded(j)
  PROVE  /\ JobOK(k, s, there) /\ Dispatches(j, k) /\ k.events = j.events /\ k.event = j.event
         /\ k.listener = j.listener + 1 /\ k.legs = j.legs
         /\ j.event \in Person /\ j.event \in there \union j.own
         /\ \A l \in Heard, p \in Person : Firing(k, l, p) <=> Firing(j, l, p) /\ ~(l = j.listener /\ p = j.event)
  <1>1. Fielded(j) /\ Shaped(j) /\ Sighted(j, there)
    BY DEF JobOK, Shaped
  <1>2. /\ Dispatches(j, k) /\ k.events = j.events /\ k.event = j.event
        /\ k.listener = j.listener + 1 /\ k.legs = j.legs
    BY <1>1 DEF Fielded, Dispatches, Heeded
  <1>3. /\ IsList(k.events) /\ k.event \notin Range(k.events) /\ k.event \in Person /\ k.event \in there \union j.own
        /\ j.listener \in Nat \ {0} /\ k.listener \in Nat \ {0}
    BY <1>1, <1>2 DEF Shaped, Sighted
  <1>4. ASSUME NEW l \in Heard, NEW p \in Person
        PROVE  Firing(k, l, p) <=> Firing(j, l, p) /\ ~(l = j.listener /\ p = j.event)
    <2>1. l \in Nat
      BY HeardNumber
    <2>2. k.listener <= l <=> j.listener <= l /\ l # j.listener
      BY <1>2, <1>3, <2>1
    <2>3. p = j.event => p \notin Range(j.events)
      BY <1>2, <1>3
    <2> QED
      BY <1>2, <2>2, <2>3 DEF Firing
  <1>5. \A n \in DOMAIN k.events : k.events[n] \in there \union j.own
    BY <1>1, <1>2 DEF Sighted
  <1>6. JobOK(k, s, there)
    BY <1>2, <1>3, <1>4, <1>5, DispatchOK
  <1> QED
    BY <1>2, <1>3, <1>4, <1>6

\* A listener that panics.
LEMMA PassKeeps ==
  ASSUME IInv, NEW c \in Client, NEW j, NEW k, j = job[c], j.pc = "fire", j.event # Nobody, j.listener \notin Heard,
         k = Heeded(j), Step(c, k)
  PROVE  IInv'
  <1>1. JobOK(j, store, There) /\ Shaped(j) /\ Sighted(j, There)
    BY DEF IInv, JobOK
  <1>2. /\ Dispatches(j, k) /\ k.events = j.events /\ k.event = j.event
        /\ k.listener = j.listener + 1 /\ k.legs = j.legs
        /\ \A l \in Heard, p \in Person : Firing(k, l, p) <=> Firing(j, l, p)
    BY <1>1, NextListener
  <1>3. /\ IsList(k.events) /\ k.event \in Person \union {Nobody} /\ k.event \notin Range(k.events)
        /\ k.listener \in Nat \ {0}
    BY <1>1, <1>2 DEF Shaped
  <1>4. /\ \A n \in DOMAIN k.events : k.events[n] \in There \union j.own
        /\ k.event # Nobody => k.event \in There \union j.own
    BY <1>1, <1>2 DEF Sighted
  <1> QED
    BY <1>2, <1>3, <1>4, Dispatched

\* A listener whose leg runs at once.
LEMMA AtOnceKeeps ==
  ASSUME IInv, NEW c \in Client, NEW j, NEW k, j = job[c], j.pc = "fire", j.event # Nobody, j.listener \in Heard,
         k = Heeded(j), ~AfterCommit(j), ToldNow(j),
         Become(c, k), UNCHANGED <<store, born, copies, raced>>
  PROVE  IInv'
  <1>1. JobOK(j, store, There) /\ Placed(j, store) /\ Once(j)
    BY DEF IInv, JobOK
  <1>2. /\ JobOK(k, store, There) /\ Dispatches(j, k) /\ k.events = j.events /\ k.event = j.event
        /\ k.listener = j.listener + 1 /\ k.legs = j.legs
        /\ j.event \in Person /\ j.event \in There \union j.own
        /\ \A l \in Heard, p \in Person : Firing(k, l, p) <=> Firing(j, l, p) /\ ~(l = j.listener /\ p = j.event)
    BY <1>1, NextListener
  <1>3. j.depth = 0 /\ k.depth = 0
    BY <1>1, <1>2 DEF Placed, AfterCommit, Dispatches, JobOK, Shaped
  <1>4. TablesOK /\ There' = There /\ (\A p \in Person : Rows(p)' = Rows(p)) /\ raced' = raced
    BY CopiesStay DEF IInv
  <1>5. /\ told' \in [Listener -> [Person -> Nat]]
        /\ \A l \in Listener, p \in Person :
             told'[l][p] = IF l = j.listener /\ p = j.event THEN told[l][p] + 1 ELSE told[l][p]
    <2>1. told \in [Listener -> [Person -> Nat]] /\ j.listener \in Listener
      BY <1>4, HeardNumber DEF TablesOK
    <2> QED
      BY <1>2, <2>1 DEF ToldNow
  <1>6. TablesOK'
    BY <1>4, <1>5 DEF TablesOK
  <1>7. \A l, p : Due(k, l, p) <=> Due(j, l, p)
    BY <1>2 DEF Due
  <1>8. ASSUME NEW l \in Heard, NEW p \in Person PROVE Orderly(c, k, l, p)
    <2>1. CASE l = j.listener /\ p = j.event
      <3>1. Firing(j, l, p) /\ ~Firing(k, l, p)
        <4>1. j.listener <= l
          BY <2>1, HeardNumber
        <4> QED
          BY <1>2, <2>1, <4>1 DEF Firing
      <3>2. ~Due(k, l, p)
        BY <1>1, <1>7, <3>1 DEF Once
      <3> QED
        BY <1>3, <1>4, <1>5, <2>1, <3>1, <3>2, HeardNumber DEF Orderly, Notice, Owes, Telling
    <2>2. CASE ~(l = j.listener /\ p = j.event)
      <3>1. Telling(k, l, p) <=> Telling(j, l, p)
        BY <1>2, <1>7, <2>2 DEF Telling
      <3>2. told'[l][p] = told[l][p]
        BY <1>5, <2>2, HeardNumber
      <3> QED
        BY <1>3, <1>4, <3>1, <3>2 DEF Orderly, Nothing, Owes
    <2> QED
      BY <2>1, <2>2
  <1>9. \A l \in Listener \ Heard, p \in Person : told'[l][p] = told[l][p]
    BY <1>5
  <1>10. Own(k)
    BY <1>3 DEF Own
  <1>11. JobOK(k, store, There') /\ store' = store /\ (~raced' => ~raced /\ \A p \in Person : Rows(p)' <= 1)
    BY <1>2, <1>4 DEF IInv, Accounts
  <1> QED
    BY <1>4, <1>6, <1>8, <1>9, <1>10, <1>11, StepKeeps

\* A listener whose leg waits for the commit, or comes too late for it.
LEMMA LaterKeeps ==
  ASSUME IInv, NEW c \in Client, NEW j, NEW next, NEW k, j = job[c], j.pc = "fire", j.event # Nobody,
         j.listener \in Heard, next = Heeded(j), AfterCommit(j),
         k = LeftTo(j, next),
         Become(c, k), UNCHANGED <<store, born, copies, told, raced>>
  PROVE  IInv'
  <1>1. JobOK(j, store, There) /\ Placed(j, store) /\ Once(j) /\ Shaped(j) /\ Sighted(j, There)
    BY DEF IInv, JobOK
  <1>2. /\ JobOK(next, store, There) /\ Dispatches(j, next) /\ next.events = j.events /\ next.event = j.event
        /\ next.listener = j.listener + 1 /\ next.legs = j.legs
        /\ j.event \in Person /\ j.event \in There \union j.own
        /\ \A l \in Heard, p \in Person : Firing(next, l, p) <=> Firing(j, l, p) /\ ~(l = j.listener /\ p = j.event)
    BY <1>1, NextListener
  <1>3. TablesOK /\ TablesOK' /\ There' = There /\ (\A p \in Person : Rows(p)' = Rows(p)) /\ told' = told /\ raced' = raced
    BY CopiesStay DEF IInv, TablesOK
  <1>4. store' = store /\ (~raced' => ~raced /\ \A p \in Person : Rows(p)' <= 1)
    BY <1>3 DEF IInv, Accounts
  <1>5. CASE j.table = "open"
    <2>1. PICK leg, legs : leg = <<j.listener, j.event>> /\ legs = Append(j.legs, leg)
      OBVIOUS
    <2>2. k = [next EXCEPT !.legs = legs]
      BY <1>2, <1>5, <2>1 DEF LeftTo
    <2>3. Dispatches(j, k) /\ k.events = j.events /\ k.event = j.event /\ k.listener = next.listener /\ k.legs = legs
      BY <1>2, <2>2 DEF Dispatches, Fielded
    <2>4. j.legs \in Seq(Heard \X Person) /\ leg \in Heard \X Person
      BY <1>1, <1>2, <2>1 DEF Shaped
    <2>5. PICK n \in Nat : /\ DOMAIN j.legs = 1 .. n /\ DOMAIN legs = 1 .. n + 1 /\ legs[n + 1] = leg
                           /\ \A i \in 1 .. n : legs[i] = j.legs[i]
      <3>1. PICK n \in Nat : n = Len(j.legs)
        BY <2>4
      <3>2. DOMAIN j.legs = 1 .. n
        BY <2>4, <3>1
      <3>3. DOMAIN legs = 1 .. n + 1
        BY <2>1, <2>4, <3>1
      <3>4. legs[n + 1] = leg
        BY <2>1, <2>4, <3>1
      <3>5. \A i \in 1 .. n : legs[i] = j.legs[i]
        BY <2>1, <2>4, <3>1
      <3> QED
        BY <3>2, <3>3, <3>4, <3>5
    <2>6. legs \in Seq(Heard \X Person)
      BY <2>1, <2>4
    <2>7. \A l, p : Due(k, l, p) <=> Due(j, l, p) \/ (l = j.listener /\ p = j.event)
      <3>1. \A l, p : <<l, p>> = leg <=> l = j.listener /\ p = j.event
        BY <2>1
      <3>2. ASSUME NEW l, NEW p PROVE Due(k, l, p) <=> Due(j, l, p) \/ <<l, p>> = leg
        <4>1. PICK x : x = <<l, p>>
          OBVIOUS
        <4>2. (\E i \in 1 .. n + 1 : legs[i] = x) <=> (\E i \in 1 .. n : j.legs[i] = x) \/ x = leg
          BY <2>5
        <4> QED
          BY <2>3, <2>5, <4>1, <4>2 DEF Due
      <3> QED
        BY <3>1, <3>2
    <2>8. Firing(j, j.listener, j.event)
      <3>1. j.listener <= j.listener
        BY <1>1 DEF Shaped
      <3> QED
        BY <3>1 DEF Firing
    <2>9. \A l \in Heard, p \in Person : Firing(k, l, p) <=> Firing(next, l, p)
      BY <1>2, <2>3 DEF Firing
    <2>10. j.depth > 0
      BY <1>1, <1>5 DEF Placed
    <2>11. JobOK(k, store, There)
      <3>1. Shaped(k)
        BY <1>2, <2>3, <2>6 DEF JobOK, Shaped, Dispatches
      <3>2. Placed(k, store)
        <4>1. store # "memory"
          BY <1>1, <1>5 DEF Placed
        <4> QED
          BY <1>1, <1>5, <2>3, <4>1 DEF Placed, Dispatches
      <3>3. Sighted(k, There)
        <4>1. \A i \in DOMAIN k.legs : k.legs[i][2] \in There \union j.own
          <5>1. leg[2] = j.event
            BY <2>1
          <5>2. \A i \in 1 .. n : j.legs[i][2] \in There \union j.own
            BY <1>1, <2>5 DEF Sighted
          <5> QED
            BY <1>2, <2>3, <2>5, <5>1, <5>2
        <4> QED
          BY <1>1, <2>3, <4>1 DEF Sighted, Dispatches
      <3>4. Once(k)
        <4>1. ASSUME NEW m \in DOMAIN k.legs, NEW i \in DOMAIN k.legs, k.legs[m] = k.legs[i] PROVE m = i
          <5>1. \A u \in 1 .. n : j.legs[u] # leg
            <6>1. ~Due(j, j.listener, j.event)
              BY <1>1, <1>2, <2>8 DEF Once
            <6> QED
              BY <2>1, <2>5, <6>1 DEF Due
          <5>2. \A u, v \in 1 .. n : j.legs[u] = j.legs[v] => u = v
            BY <1>1, <2>5 DEF Once
          <5>3. /\ m \in 1 .. n \/ m = n + 1
                /\ i \in 1 .. n \/ i = n + 1
                /\ legs[m] = legs[i]
            BY <2>3, <2>5, <4>1
          <5>4. CASE m \in 1 .. n /\ i \in 1 .. n
            BY <2>5, <5>2, <5>3, <5>4
          <5>5. CASE m \in 1 .. n /\ i = n + 1
            BY <2>5, <5>1, <5>3, <5>5
          <5>6. CASE m = n + 1 /\ i \in 1 .. n
            BY <2>5, <5>1, <5>3, <5>6
          <5> QED
            BY <5>3, <5>4, <5>5, <5>6
        <4>2. \A l \in Heard, p \in Person : Firing(k, l, p) => ~Due(k, l, p)
          <5>1. \A l \in Heard, p \in Person : Firing(j, l, p) => ~Due(j, l, p)
            BY <1>1 DEF Once
          <5> QED
            BY <1>2, <2>7, <2>9, <5>1
        <4>3. k.pc # "second"
          BY <2>3 DEF Dispatches
        <4> QED
          BY <4>1, <4>2, <4>3 DEF Once
      <3> QED
        BY <3>1, <3>2, <3>3, <3>4 DEF JobOK
    <2>12. \A l \in Heard, p \in Person : Telling(k, l, p) <=> Telling(j, l, p)
      BY <1>2, <2>7, <2>8, <2>9 DEF Telling
    <2>13. k.depth = j.depth /\ k.own = j.own
      BY <2>3 DEF Dispatches
    <2>14. ASSUME ~raced', ~Forwards PROVE Own(k)
      <3>1. Own(j)
        BY <1>3, <2>14 DEF IInv, Accounts
      <3> QED
        BY <2>12, <2>13, <3>1 DEF Own
    <2>15. \A l \in Heard, p \in Person : Orderly(c, k, l, p)
      BY <1>3, <2>12, <2>13 DEF Orderly, Nothing, Owes
    <2> QED
      BY <1>3, <1>4, <2>11, <2>14, <2>15, StepKeeps
  <1>6. CASE j.table # "open"
    <2>1. k = next
      BY <1>6 DEF LeftTo
    <2>2. store # "memory" /\ ~(j.depth > 0)
      BY <1>1, <1>6 DEF Placed, AfterCommit
    <2>3. Forwards
      BY <1>1, <2>2 DEF Placed, IInv, TablesOK
    <2> QED
      BY <1>2, <1>3, <1>4, <2>1, <2>3, StepKeeps
  <1> QED
    BY <1>5, <1>6

LEMMA FireEventKeeps ==
  ASSUME IInv, NEW c \in Client, FireEvent(c)
  PROVE  IInv'
  <1>1. PICK j, next : j = job[c] /\ next = Heeded(j)
    OBVIOUS
  <1>2. /\ j.pc = "fire" /\ j.event # Nobody
        /\ \/ j.listener \notin Heard /\ Step(c, next)
           \/ /\ j.listener \in Heard /\ ~AfterCommit(j)
              /\ ToldNow(j)
              /\ Become(c, next) /\ UNCHANGED <<store, born, copies, raced>>
           \/ /\ j.listener \in Heard /\ AfterCommit(j)
              /\ Become(c, LeftTo(j, next))
              /\ UNCHANGED <<store, born, copies, told, raced>>
    BY <1>1 DEF FireEvent, Heeded, LeftTo, ToldNow
  <1>3. CASE j.listener \notin Heard /\ Step(c, next)
    BY <1>1, <1>2, <1>3, PassKeeps
  <1>4. CASE /\ j.listener \in Heard /\ ~AfterCommit(j)
             /\ ToldNow(j)
             /\ Become(c, next) /\ UNCHANGED <<store, born, copies, raced>>
    BY <1>1, <1>2, <1>4, AtOnceKeeps
  <1>5. CASE /\ j.listener \in Heard /\ AfterCommit(j)
             /\ Become(c, LeftTo(j, next))
             /\ UNCHANGED <<store, born, copies, told, raced>>
    BY <1>1, <1>2, <1>5, LaterKeeps
  <1> QED
    BY <1>2, <1>3, <1>4, <1>5

-----------------------------------------------------------------------------
(* Legs. *)

LEMMA TailOf ==
  ASSUME NEW S, NEW legs \in Seq(S), legs # <<>>
  PROVE  /\ Head(legs) \in S /\ Tail(legs) \in Seq(S)
         /\ \E n \in Nat : /\ DOMAIN legs = 1 .. n + 1 /\ legs[1] = Head(legs) /\ DOMAIN Tail(legs) = 1 .. n
                           /\ \A i \in 1 .. n : Tail(legs)[i] = legs[i + 1]
  <1>1. PICK n \in Nat : n + 1 = Len(legs)
    <2>1. Len(legs) \in Nat /\ Len(legs) # 0
      OBVIOUS
    <2>2. Len(legs) - 1 \in Nat /\ (Len(legs) - 1) + 1 = Len(legs)
      BY <2>1
    <2> QED
      BY <2>2
  <1>2. DOMAIN legs = 1 .. n + 1 /\ legs[1] = Head(legs)
    BY <1>1
  <1>3. Tail(legs) \in Seq(S) /\ Len(Tail(legs)) = n
    BY <1>1
  <1>4. DOMAIN Tail(legs) = 1 .. n /\ \A i \in 1 .. n : Tail(legs)[i] = legs[i + 1]
    BY <1>1, <1>3
  <1>5. Head(legs) \in S
    BY <1>1, <1>2
  <1> QED
    BY <1>2, <1>3, <1>4, <1>5

\* A job without the first of its legs.
Relieved(j, k) ==
  /\ Fielded(k) /\ k.pc \in {"run", "legs"} /\ k.forms \in Seq(DOMAIN Of) /\ k.depth = j.depth /\ k.own = j.own
  /\ k.fresh = j.fresh /\ k.seen = j.seen /\ k.events = j.events /\ k.event = j.event /\ k.listener = j.listener
  /\ k.legs = Tail(j.legs)

Takes(j, k, leg) ==
  /\ leg \in Heard \X Person
  /\ \A l, p : Due(j, l, p) <=> Due(k, l, p) \/ <<l, p>> = leg
  /\ \A l, p : Due(k, l, p) => <<l, p>> # leg
  /\ \A l, p : p \in Person => ~Firing(j, l, p) /\ ~Firing(k, l, p)

LEMMA LegTaken ==
  ASSUME NEW j, NEW k, NEW leg, NEW s, NEW there, leg = Head(j.legs), JobOK(j, s, there), j.pc = "legs", j.legs # <<>>,
         Relieved(j, k), Placed(k, s)
  PROVE  JobOK(k, s, there) /\ Takes(j, k, leg)
  <1>1. Shaped(j) /\ Placed(j, s) /\ Sighted(j, there) /\ Once(j)
    BY DEF JobOK
  <1>2. j.legs \in Seq(Heard \X Person) /\ k.legs = Tail(j.legs)
    BY <1>1 DEF Shaped, Relieved
  <1>3. Head(j.legs) \in Heard \X Person /\ k.legs \in Seq(Heard \X Person)
    BY <1>2, TailOf
  <1>4. PICK n \in Nat : /\ DOMAIN j.legs = 1 .. n + 1 /\ j.legs[1] = Head(j.legs) /\ DOMAIN k.legs = 1 .. n
                         /\ \A i \in 1 .. n : k.legs[i] = j.legs[i + 1]
    BY <1>2, TailOf
  <1>5. \A i, m \in 1 .. n + 1 : j.legs[i] = j.legs[m] => i = m
    BY <1>1, <1>4 DEF Once
  <1>6. \A i \in 1 .. n : i + 1 \in 1 .. n + 1 /\ i + 1 # 1
    OBVIOUS
  <1>7. \A i \in 1 .. n + 1 : i = 1 \/ \E m \in 1 .. n : i = m + 1
    <2>1. \A i \in 1 .. n + 1 : i # 1 => i - 1 \in 1 .. n /\ i = (i - 1) + 1
      OBVIOUS
    <2> QED
      BY <2>1
  <1>8. ASSUME NEW x
        PROVE  /\ (\E i \in DOMAIN j.legs : j.legs[i] = x) <=> (\E i \in DOMAIN k.legs : k.legs[i] = x) \/ x = Head(j.legs)
               /\ (\E i \in DOMAIN k.legs : k.legs[i] = x) => x # Head(j.legs)
    <2>1. 1 \in 1 .. n + 1
      OBVIOUS
    <2>2. ASSUME NEW i \in DOMAIN k.legs PROVE k.legs[i] # Head(j.legs) /\ \E m \in DOMAIN j.legs : j.legs[m] = k.legs[i]
      <3>1. i + 1 \in 1 .. n + 1 /\ i + 1 # 1 /\ k.legs[i] = j.legs[i + 1]
        BY <1>4, <1>6
      <3>2. j.legs[i + 1] # j.legs[1]
        BY <1>5, <2>1, <3>1
      <3> QED
        BY <1>4, <3>1, <3>2
    <2>3. ASSUME NEW i \in DOMAIN j.legs, j.legs[i] # Head(j.legs) PROVE \E m \in DOMAIN k.legs : k.legs[m] = j.legs[i]
      <3>1. i \in 1 .. n + 1 /\ i # 1
        BY <1>4, <2>3
      <3>2. PICK m \in 1 .. n : i = m + 1
        BY <1>7, <3>1
      <3> QED
        BY <1>4, <3>2
    <2>4. 1 \in DOMAIN j.legs /\ j.legs[1] = Head(j.legs)
      BY <1>4, <2>1
    <2>5. (\E i \in DOMAIN j.legs : j.legs[i] = x) => (\E i \in DOMAIN k.legs : k.legs[i] = x) \/ x = Head(j.legs)
      BY <2>3
    <2>6. (\E i \in DOMAIN k.legs : k.legs[i] = x) => (\E i \in DOMAIN j.legs : j.legs[i] = x) /\ x # Head(j.legs)
      BY <2>2
    <2>7. x = Head(j.legs) => \E i \in DOMAIN j.legs : j.legs[i] = x
      BY <2>4
    <2> QED
      BY <2>5, <2>6, <2>7
  <1>9. \A l, p : (Due(j, l, p) <=> Due(k, l, p) \/ <<l, p>> = leg) /\ (Due(k, l, p) => <<l, p>> # leg)
    BY <1>8 DEF Due
  <1>10. j.events = k.events /\ DOMAIN j.events = {} /\ j.event = Nobody /\ k.event = Nobody
    BY <1>1 DEF Placed, Relieved
  <1>11. \A l, p : p \in Person => ~Firing(j, l, p) /\ ~Firing(k, l, p)
    BY <1>10, SpellingAssumption DEF Firing, Range
  <1>12. Shaped(k)
    BY <1>1, <1>3 DEF Shaped, Relieved
  <1>13. Sighted(k, there)
    <2>1. \A i \in DOMAIN k.legs : k.legs[i][2] \in there \union j.own
      BY <1>1, <1>4, <1>6 DEF Sighted
    <2> QED
      BY <1>10, <2>1 DEF Sighted, Relieved
  <1>14. Once(k)
    <2>1. ASSUME NEW i \in DOMAIN k.legs, NEW m \in DOMAIN k.legs, k.legs[i] = k.legs[m] PROVE i = m
      <3>1. i + 1 = m + 1
        BY <1>4, <1>5, <1>6, <2>1
      <3> QED
        BY <1>4, <3>1
    <2> QED
      BY <1>11, <2>1 DEF Once, Relieved
  <1> QED
    BY <1>3, <1>9, <1>11, <1>12, <1>13, <1>14 DEF JobOK, Takes

Notified(j) == [j EXCEPT !.legs = Tail(@)]
Forwarding(next) == [next EXCEPT !.pc = "run", !.script = <<"copy">> \o @, !.forms = <<Boss>>]
ToldBy(leg) == told' = [told EXCEPT ![leg[1]][leg[2]] = @ + 1]

LEMMA ToldOne ==
  ASSUME TablesOK, NEW leg \in Heard \X Person, ToldBy(leg)
  PROVE  /\ told' \in [Listener -> [Person -> Nat]]
         /\ \A l \in Listener, p \in Person :
              told'[l][p] = IF <<l, p>> = leg THEN told[l][p] + 1 ELSE told[l][p]
  <1>1. PICK m, q : m = leg[1] /\ q = leg[2]
    OBVIOUS
  <1>2. m \in Listener /\ q \in Person /\ leg = <<m, q>>
    BY <1>1, HeardNumber
  <1>3. told' = [told EXCEPT ![m][q] = @ + 1]
    BY <1>1 DEF ToldBy
  <1>4. told \in [Listener -> [Person -> Nat]]
    BY DEF TablesOK
  <1>5. told' \in [Listener -> [Person -> Nat]]
    BY <1>2, <1>3, <1>4
  <1>6. \A l \in Listener, p \in Person : told'[l][p] = IF l = m /\ p = q THEN told[l][p] + 1 ELSE told[l][p]
    BY <1>2, <1>3, <1>4
  <1>7. \A l, p : <<l, p>> = leg <=> l = m /\ p = q
    BY <1>2
  <1>8. ASSUME NEW l \in Listener, NEW p \in Person
        PROVE  told'[l][p] = IF <<l, p>> = leg THEN told[l][p] + 1 ELSE told[l][p]
    <2>1. CASE l = m /\ p = q
      <3>1. <<l, p>> = leg
        BY <1>7, <2>1
      <3> QED
        BY <1>6, <2>1, <3>1
    <2>2. CASE ~(l = m /\ p = q)
      <3>1. <<l, p>> # leg
        BY <1>7, <2>2
      <3> QED
        BY <1>6, <2>2, <3>1
    <2> QED
      BY <2>1, <2>2
  <1> QED
    BY <1>5, <1>8

\* A leg that runs.
LEMMA LegKeeps ==
  ASSUME IInv, NEW c \in Client, NEW j, NEW k, NEW leg, j = job[c], j.pc = "legs", j.legs # <<>>, leg = Head(j.legs),
         ToldBy(leg), Become(c, k), UNCHANGED <<store, born, copies, raced>>,
         Relieved(j, k), Placed(k, store)
  PROVE  IInv'
  <1>1. JobOK(j, store, There) /\ Placed(j, store)
    BY DEF IInv, JobOK
  <1>2. /\ JobOK(k, store, There)
        /\ leg \in Heard \X Person
        /\ \A l, p : Due(j, l, p) <=> Due(k, l, p) \/ <<l, p>> = leg
        /\ \A l, p : Due(k, l, p) => <<l, p>> # leg
        /\ \A l, p : p \in Person => ~Firing(j, l, p) /\ ~Firing(k, l, p)
    <2>1. JobOK(k, store, There) /\ Takes(j, k, leg)
      BY <1>1, LegTaken
    <2> QED
      BY <2>1 DEF Takes
  <1>3. TablesOK /\ There' = There /\ (\A p \in Person : Rows(p)' = Rows(p)) /\ raced' = raced
    BY CopiesStay DEF IInv
  <1>4. /\ told' \in [Listener -> [Person -> Nat]]
        /\ \A l \in Listener, p \in Person :
             told'[l][p] = IF <<l, p>> = leg THEN told[l][p] + 1 ELSE told[l][p]
    BY <1>2, <1>3, ToldOne
  <1>5. TablesOK'
    BY <1>3, <1>4 DEF TablesOK
  <1>6. j.depth = 0 /\ k.depth = 0
    BY <1>1 DEF Placed, Relieved
  <1>7. ASSUME NEW l \in Heard, NEW p \in Person PROVE Orderly(c, k, l, p)
    <2>1. CASE <<l, p>> = leg
      <3>1. Owes(j, l, p) /\ ~Owes(k, l, p)
        BY <1>2, <1>6, <2>1 DEF Owes, Telling
      <3>2. told'[l][p] = told[l][p] + 1
        BY <1>4, <2>1, HeardNumber
      <3> QED
        BY <1>3, <3>1, <3>2 DEF Orderly, Notice
    <2>2. CASE <<l, p>> # leg
      <3>1. Owes(j, l, p) <=> Owes(k, l, p)
        BY <1>2, <1>6, <2>2 DEF Owes, Telling
      <3>2. told'[l][p] = told[l][p]
        BY <1>4, <2>2, HeardNumber
      <3> QED
        BY <1>3, <3>1, <3>2 DEF Orderly, Nothing
    <2> QED
      BY <2>1, <2>2
  <1>8. \A l \in Listener \ Heard, p \in Person : told'[l][p] = told[l][p]
    <2>1. ASSUME NEW l \in Listener \ Heard, NEW p \in Person PROVE <<l, p>> # leg
      BY <1>2
    <2> QED
      BY <1>4, <2>1
  <1>9. Own(k)
    BY <1>6 DEF Own
  <1>10. JobOK(k, store, There') /\ store' = store /\ (~raced' => ~raced /\ \A p \in Person : Rows(p)' <= 1)
    BY <1>2, <1>3 DEF IInv, Accounts
  <1> QED
    BY <1>3, <1>5, <1>7, <1>8, <1>9, <1>10, StepKeeps

LEMMA FireLegKeeps ==
  ASSUME IInv, NEW c \in Client, FireLeg(c)
  PROVE  IInv'
  <1>1. PICK j, leg, next : j = job[c] /\ leg = Head(j.legs) /\ next = Notified(j)
    OBVIOUS
  <1>2. /\ j.pc = "legs" /\ j.legs # <<>> /\ ToldBy(leg) /\ UNCHANGED <<store, born, copies, raced>>
        /\ Become(c, IF Listeners[leg[1]] = "forward" THEN Forwarding(next) ELSE next)
    BY <1>1 DEF FireLeg, Notified, Forwarding, ToldBy
  <1>3. JobOK(j, store, There) /\ Fielded(j) /\ Shaped(j) /\ Placed(j, store)
    BY <1>1 DEF IInv, JobOK, Shaped
  <1>4. next = [pc |-> j.pc, script |-> j.script, forms |-> j.forms, depth |-> j.depth, table |-> j.table,
                own |-> j.own, fresh |-> j.fresh, seen |-> j.seen, events |-> j.events, event |-> j.event,
                listener |-> j.listener, legs |-> Tail(j.legs)]
    BY <1>1, <1>3 DEF Notified, Fielded
  <1>5. /\ Fielded(next) /\ next.pc = j.pc /\ next.script = j.script /\ next.forms = j.forms /\ next.depth = j.depth
        /\ next.table = j.table /\ next.own = j.own /\ next.fresh = j.fresh /\ next.seen = j.seen
        /\ next.events = j.events /\ next.event = j.event /\ next.listener = j.listener /\ next.legs = Tail(j.legs)
    BY <1>4 DEF Fielded
  <1>6. j.script = <<>> /\ j.depth = 0 /\ store = "jdbc" /\ j.table = "done"
    BY <1>2, <1>3 DEF Placed
  <1>7. CASE Listeners[leg[1]] # "forward"
    <2>1. Become(c, next)
      BY <1>2, <1>7
    <2>2. Placed(next, store)
      BY <1>2, <1>3, <1>5, <1>6 DEF Placed
    <2>3. next.forms \in Seq(DOMAIN Of) /\ next.pc \in {"run", "legs"}
      BY <1>2, <1>3, <1>5 DEF Shaped
    <2>4. Relieved(j, next)
      BY <1>5, <2>3 DEF Relieved
    <2> QED
      BY <1>1, <1>2, <2>1, <2>2, <2>4, LegKeeps
  <1>8. CASE Listeners[leg[1]] = "forward"
    <2>1. PICK k : k = Forwarding(next)
      OBVIOUS
    <2>2. Become(c, k)
      BY <1>2, <1>8, <2>1
    <2>3. k = [pc |-> "run", script |-> <<"copy">> \o next.script, forms |-> <<Boss>>, depth |-> next.depth, table |-> next.table,
               own |-> next.own, fresh |-> next.fresh, seen |-> next.seen, events |-> next.events, event |-> next.event,
               listener |-> next.listener, legs |-> next.legs]
      BY <1>5, <2>1 DEF Forwarding, Fielded
    <2>4. /\ Fielded(k) /\ k.pc = "run" /\ k.script = <<"copy">> \o <<>> /\ k.forms = <<Boss>> /\ k.depth = j.depth
          /\ k.table = j.table /\ k.own = j.own /\ k.fresh = j.fresh /\ k.seen = j.seen
          /\ k.events = j.events /\ k.event = j.event /\ k.listener = j.listener /\ k.legs = Tail(j.legs)
      BY <1>5, <1>6, <2>3 DEF Fielded
    <2>5. k.script = <<"copy">>
      BY <2>4
    <2>6. k.forms \in Seq(DOMAIN Of)
      BY <2>4, SpellingAssumption
    <2>7. Forwards
      <3>1. leg \in Heard \X Person
        BY <1>1, <1>2, <1>3, TailOf DEF Shaped
      <3> QED
        BY <1>8, <3>1, HeardNumber DEF Forwards
    <2>8. Course(k.script, k.depth)
      BY <1>6, <2>4, <2>5, <2>7 DEF Course
    <2>9. Placed(k, store)
      BY <1>2, <1>3, <1>6, <2>4, <2>5, <2>8 DEF Placed
    <2>10. k.pc \in {"run", "legs"}
      BY <2>4
    <2>11. Relieved(j, k)
      BY <2>4, <2>6, <2>10 DEF Relieved
    <2> QED
      BY <1>1, <1>2, <2>2, <2>9, <2>11, LegKeeps
  <1> QED
    BY <1>7, <1>8

-----------------------------------------------------------------------------
(* The other steps. *)

LEMMA UpdateCCStatusKeeps ==
  ASSUME IInv, NEW c \in Client, updateCCStatus(c)
  PROVE  IInv'
  <1>1. PICK p \in Person : /\ copies' = [copies EXCEPT ![p] = [unread |-> 0, read |-> Rows(p)]]
                            /\ UNCHANGED <<store, born, told, owed, job, raced>>
    BY DEF updateCCStatus
  <1>2. TablesOK /\ Rows(p) \in Nat
    BY RowsNat DEF IInv
  <1>3. copies' \in [Person -> [unread : Nat, read : Nat]]
    BY <1>1, <1>2 DEF TablesOK
  <1>4. ASSUME NEW q \in Person PROVE Rows(q)' = Rows(q)
    <2>1. CASE q = p
      <3>1. copies'[q].unread = 0 /\ copies'[q].read = Rows(p)
        BY <1>1, <1>2, <2>1 DEF TablesOK
      <3> QED
        BY <1>2, <2>1, <3>1 DEF Rows
    <2>2. CASE q # p
      BY <1>1, <1>2, <2>2 DEF Rows, TablesOK
    <2> QED
      BY <2>1, <2>2
  <1>5. There' = There
    BY <1>4 DEF There
  <1>6. TablesOK'
    BY <1>1, <1>2, <1>3 DEF TablesOK
  <1>7. Accounts => Accounts'
    BY <1>1, <1>4 DEF Accounts, Balanced
  <1> QED
    BY <1>1, <1>5, <1>6, <1>7 DEF IInv

LEMMA StutterKeeps ==
  ASSUME IInv, UNCHANGED vars
  PROVE  IInv'
  <1>1. There' = There /\ \A p : Rows(p)' = Rows(p)
    BY DEF vars, There, Rows
  <1>2. TablesOK' <=> TablesOK
    BY DEF vars, TablesOK
  <1>3. Accounts => Accounts'
    BY <1>1 DEF vars, Accounts, Balanced
  <1> QED
    BY <1>1, <1>2, <1>3 DEF IInv, vars

LEMMA InitInv ==
  ASSUME Init
  PROVE  IInv
  <1>1. /\ store \in {"memory", "jdbc"}
        /\ copies = [p \in Person |-> [unread |-> 0, read |-> 0]]
        /\ told = [l \in Listener |-> [p \in Person |-> 0]]
        /\ job = [c \in Client |-> Idle] /\ raced = FALSE
    BY StoresAssumption DEF Init
  <1>2. TablesOK /\ \A p \in Person : Rows(p) = 0
    <2>1. copies \in [Person -> [unread : Nat, read : Nat]] /\ \A p \in Person : Rows(p) = 0
      BY <1>1 DEF Rows
    <2>2. told \in [Listener -> [Person -> Nat]]
      BY <1>1
    <2> QED
      BY <1>1, <2>1, <2>2 DEF TablesOK
  <1>3. JobOK(Idle, store, There) /\ Own(Idle) /\ \A l, p : p \in Person => ~Telling(Idle, l, p)
    BY <1>1, IdleOK
  <1>4. \A l \in Listener, p \in Person : told[l][p] = 0
    BY <1>1
  <1>5. \A c \in Client : job[c] = Idle
    BY <1>1
  <1>6. Accounts
    <2>1. ASSUME NEW l \in Heard, NEW p \in Person PROVE Balanced(l, p)
      <3>1. told[l][p] = 0 /\ Rows(p) = 0
        BY <1>2, <1>4, HeardNumber
      <3>2. \A c \in Client : ~Owes(job[c], l, p)
        BY <1>3, <1>5 DEF Owes
      <3> QED
        BY <3>1, <3>2 DEF Balanced
    <2> QED
      BY <1>2, <1>3, <1>4, <1>5, <2>1 DEF Accounts
  <1>7. job = [c \in Client |-> job[c]]
    BY <1>1
  <1> QED
    BY <1>2, <1>3, <1>5, <1>6, <1>7 DEF IInv

LEMMA NextKeeps ==
  ASSUME IInv, Next
  PROVE  IInv'
  <1>1. PICK c \in Client :
          \/ createCCInstance(c) \/ executeProcessTask(c) \/ startAndExecute(c) \/ updateCCStatus(c)
          \/ Enter(c) \/ Leave(c) \/ Work(c) \/ Abort(c) \/ End(c)
          \/ CopyInMemory(c) \/ FindCcActorIDs(c) \/ InsertMissing(c)
          \/ NextEvent(c) \/ FireEvent(c) \/ Fired(c) \/ AllFired(c) \/ FireLeg(c) \/ LegsDone(c)
    BY DEF Next
  <1>2. CASE createCCInstance(c) \/ executeProcessTask(c) \/ startAndExecute(c)
    <2>1. PICK script : Flow(c, script) /\ Course(script, 0)
      BY <1>2 DEF createCCInstance, executeProcessTask, startAndExecute, Course
    <2> QED
      BY <2>1, FlowKeeps
  <1>3. CASE updateCCStatus(c)
    BY <1>3, UpdateCCStatusKeeps
  <1>4. CASE Enter(c)
    BY <1>4, EnterKeeps
  <1>5. CASE Leave(c)
    <2>1. At(c, "leave")
      BY <1>5 DEF Leave
    <2> QED
      BY <1>5, <2>1, InnerLeaveKeeps, CommitKeeps
  <1>6. CASE Work(c)
    BY <1>6, WorkKeeps
  <1>7. CASE Abort(c)
    BY <1>7, AbortKeeps
  <1>8. CASE End(c)
    BY <1>8, EndKeeps
  <1>9. CASE CopyInMemory(c)
    BY <1>9, CopyInMemoryKeeps
  <1>10. CASE FindCcActorIDs(c)
    BY <1>10, FindCcActorIDsKeeps
  <1>11. CASE InsertMissing(c)
    BY <1>11, InsertMissingKeeps
  <1>12. CASE NextEvent(c)
    BY <1>12, NextEventKeeps
  <1>13. CASE FireEvent(c)
    BY <1>13, FireEventKeeps
  <1>14. CASE Fired(c)
    BY <1>14, FiredKeeps
  <1>15. CASE AllFired(c)
    BY <1>15, AllFiredKeeps
  <1>16. CASE FireLeg(c)
    BY <1>16, FireLegKeeps
  <1>17. CASE LegsDone(c)
    BY <1>17, LegsDoneKeeps
  <1> QED
    BY <1>1, <1>2, <1>3, <1>4, <1>5, <1>6, <1>7, <1>8, <1>9, <1>10, <1>11, <1>12, <1>13, <1>14, <1>15, <1>16, <1>17

-----------------------------------------------------------------------------
(* Theorems. *)

\* Whoever an event or a leg is about has a copy; once the transaction of the
\* event has committed everybody sees it; and what has been told and what will
\* be is one notice for every copy.
THEOREM Inductive == Spec => []IInv
  <1>1. Init => IInv
    BY InitInv
  <1>2. IInv /\ [Next]_vars => IInv'
    BY NextKeeps, StutterKeeps
  <1> QED
    BY <1>1, <1>2, PTL DEF Spec

LEMMA IdleMeansIdle ==
  ASSUME IInv, Settled, NEW c \in Client, NEW l, NEW p \in Person
  PROVE  ~Owes(job[c], l, p)
  <1>1. job[c] = Idle /\ store \in {"memory", "jdbc"}
    BY DEF IInv, JobOK, Shaped, Settled, TablesOK
  <1> QED
    BY <1>1, IdleOK DEF Owes

\* Whatever failed, was submitted twice or in two spellings, in the end each
\* person has at most one copy, and every listener with a leg has told those who
\* have one about it, once, and nobody else: with any listeners but those whose
\* legs make copies of their own, until two actions copy the same person at the
\* same time.
THEOREM CopiedAndTold ==
  ASSUME ~Forwards
  PROVE  Spec => []AsCopied
  <1>1. ASSUME IInv, Settled, ~raced, NEW p \in Person
        PROVE  /\ Rows(p) <= 1
               /\ \A l \in Listener : told[l][p] = IF Listeners[l] = "panic" THEN 0 ELSE Rows(p)
    <2>1. Accounts
      BY <1>1 DEF IInv
    <2>2. ASSUME NEW l \in Listener, l \in Heard PROVE told[l][p] = Rows(p)
      <3>1. Balanced(l, p)
        BY <2>1, <2>2 DEF Accounts
      <3>2. \A c \in Client : ~Owes(job[c], l, p)
        BY <1>1, IdleMeansIdle
      <3>3. told[l][p] \in Nat /\ Rows(p) \in Nat
        BY <1>1, <2>2, RowsNat DEF IInv, TablesOK
      <3> QED
        BY <3>1, <3>2, <3>3 DEF Balanced
    <2>3. \A l \in Listener : l \notin Heard => told[l][p] = 0
      BY <2>1 DEF Accounts
    <2>4. \A l \in Listener : l \in Heard <=> Listeners[l] # "panic"
      BY DEF Heard
    <2> QED
      BY <2>1, <2>2, <2>3, <2>4 DEF Accounts
  <1>2. IInv => AsCopied
    BY <1>1 DEF AsCopied
  <1> QED
    BY <1>2, Inductive, PTL

LEMMA ToldOfSomebody ==
  ASSUME IInv, Next, NEW l \in Listener, NEW p \in Person, told'[l][p] > told[l][p]
  PROVE  Rows(p) > 0
  <1>1. told[l][p] \in Nat /\ told' # told
    BY DEF IInv, TablesOK
  <1>2. PICK c \in Client : FireEvent(c) \/ FireLeg(c)
    BY <1>1 DEF Next, createCCInstance, executeProcessTask, startAndExecute, Flow, updateCCStatus, Enter, Leave,
       Work, Abort, End, CopyInMemory, FindCcActorIDs, InsertMissing, NextEvent, Fired, AllFired, LegsDone, Step
  <1>3. PICK j : j = job[c]
    OBVIOUS
  <1>4. JobOK(j, store, There) /\ TablesOK
    BY <1>3 DEF IInv
  <1>5. Placed(j, store) /\ Shaped(j) /\ Sighted(j, There)
    BY <1>4 DEF JobOK
  <1>6. CASE FireEvent(c)
    <2>1. j.event # Nobody /\ j.listener \in Heard /\ ~AfterCommit(j) /\ ToldNow(j)
      BY <1>1, <1>3, <1>6 DEF FireEvent, Step, ToldNow
    <2>2. p = j.event
      <3>1. j.listener \in Listener /\ j.event \in Person
        BY <1>5, <2>1, HeardNumber DEF Shaped
      <3> QED
        BY <1>1, <1>4, <2>1, <3>1 DEF ToldNow, TablesOK
    <2>3. ~(j.depth > 0)
      BY <1>5, <2>1 DEF Placed, AfterCommit
    <2>4. p \in There
      BY <1>5, <2>1, <2>2, <2>3 DEF Sighted, Placed, Shaped
    <2> QED
      BY <2>4 DEF There
  <1>7. CASE FireLeg(c)
    <2>1. PICK leg : leg = Head(j.legs)
      OBVIOUS
    <2>2. j.legs # <<>> /\ j.pc = "legs" /\ ToldBy(leg)
      BY <1>3, <1>7, <2>1 DEF FireLeg, ToldBy
    <2>3. leg \in Heard \X Person
      BY <1>5, <2>1, <2>2, TailOf DEF Shaped
    <2>4. <<l, p>> = leg
      BY <1>1, <1>4, <2>2, <2>3, ToldOne
    <2>5. p \in There
      <3>1. \E k \in DOMAIN j.legs : j.legs[k] = leg
        BY <1>5, <2>1, <2>2, TailOf DEF Shaped
      <3>2. leg[2] \in There \union j.own
        BY <1>5, <3>1 DEF Sighted
      <3>3. j.own = {} /\ leg[2] = p
        BY <1>5, <2>2, <2>4 DEF Placed
      <3> QED
        BY <3>2, <3>3
    <2> QED
      BY <2>5 DEF There
  <1> QED
    BY <1>2, <1>6, <1>7

\* A leg runs when the copy it tells about can be seen by everybody: never for
\* what is rolled back, never before the commit.
THEOREM ToldWhenSeen == Spec => LegsSeeCopies
  <1>1. IInv /\ [Next]_vars => [\A l \in Listener, p \in Person : told'[l][p] > told[l][p] => Rows(p) > 0]_vars
    BY ToldOfSomebody
  <1> QED
    BY <1>1, Inductive, PTL DEF Spec, LegsSeeCopies

LEMMA ReadAgain ==
  ASSUME IInv, NEW c \in Client, updateCCStatus(c), ~raced, NEW p \in Person, copies[p].read > 0
  PROVE  copies'[p] = copies[p]
  <1>1. PICK q \in Person : copies' = [copies EXCEPT ![q] = [unread |-> 0, read |-> Rows(q)]]
    BY DEF updateCCStatus
  <1>2. TablesOK /\ Rows(p) <= 1
    BY DEF IInv, Accounts
  <1>3. PICK m : m = copies[p]
    OBVIOUS
  <1>4. m \in [unread : Nat, read : Nat] /\ m.read > 0 /\ m.unread + m.read <= 1 /\ Rows(p) = m.unread + m.read
    BY <1>2, <1>3 DEF TablesOK, Rows
  <1>5. m.unread = 0 /\ m.read = Rows(p)
    BY <1>4
  <1>6. m = [unread |-> m.unread, read |-> m.read]
    BY <1>4
  <1>7. CASE p = q
    BY <1>1, <1>2, <1>3, <1>5, <1>6, <1>7 DEF TablesOK
  <1>8. CASE p # q
    BY <1>1, <1>2, <1>8 DEF TablesOK
  <1> QED
    BY <1>7, <1>8

LEMMA ReadKept ==
  ASSUME IInv, Next, ~raced', NEW p \in Person, copies[p].read > 0
  PROVE  copies'[p] = copies[p]
  <1>1. TablesOK
    BY DEF IInv
  <1>2. p \in There
    BY <1>1, RowsNat DEF Rows, There
  <1>3. \A people : p \notin people => Inserted(people)[p] = copies[p]
    BY DEF Inserted
  <1>4. PICK c \in Client :
          copies' = copies \/ updateCCStatus(c) \/ Leave(c) \/ CopyInMemory(c) \/ InsertMissing(c)
    BY DEF Next, createCCInstance, executeProcessTask, startAndExecute, Flow, Enter,
       Work, Abort, End, FindCcActorIDs, NextEvent, FireEvent, Fired, AllFired, FireLeg, LegsDone, Step
  <1>5. CASE updateCCStatus(c)
    <2>1. ~raced
      BY <1>5 DEF updateCCStatus
    <2> QED
      BY <1>5, <2>1, ReadAgain
  <1>6. CASE Leave(c) /\ copies' # copies
    <2>1. PICK own : copies' = Inserted(own) /\ raced' = (raced \/ own \intersect There # {})
      BY <1>6 DEF Leave, Step
    <2>2. p \notin own
      BY <1>2, <2>1
    <2> QED
      BY <1>3, <2>1, <2>2
  <1>7. CASE CopyInMemory(c)
    <2>1. PICK people : copies' = Inserted(people \ There)
      BY <1>7 DEF CopyInMemory, CreateCcInstance
    <2> QED
      BY <1>2, <1>3, <2>1
  <1>8. CASE InsertMissing(c) /\ copies' # copies
    <2>1. PICK missing : copies' = Inserted(missing) /\ (~raced' => missing \intersect There = {})
      BY <1>8 DEF InsertMissing
    <2>2. p \notin missing
      BY <1>2, <2>1
    <2> QED
      BY <1>3, <2>1, <2>2
  <1> QED
    BY <1>4, <1>5, <1>6, <1>7, <1>8

\* Copying somebody again does not make the copy unread again, nor does marking
\* it as read again make another of it.
THEOREM ReadOnce == Spec => ReadStays
  <1>1. IInv /\ [Next]_vars => [\A p \in Person : copies[p].read > 0 => raced' \/ copies'[p] = copies[p]]_vars
    BY ReadKept
  <1> QED
    BY <1>1, Inductive, PTL DEF Spec, ReadStays
=============================================================================

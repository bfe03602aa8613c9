-------------------------- MODULE InstanceLockProofs ---------------------------
(***************************************************************************)
(* What the mutex of an instance is worth, for any number of requests and  *)
(* branches, where every request takes it and keeps it until its           *)
(* transaction has ended (Serialised).                                     *)
(***************************************************************************)
EXTENDS InstanceLock, FiniteSetTheorems, TLAPS

-----------------------------------------------------------------------------
(* The inductive invariant. *)

Values == {"absent", "DOING", "DONE", "WITHDRAW", "REJECT"}

\* The calls during which a request has the mutex.
Held == {"begin", "check", "load", "update", "save", "follow", "commit", "unlock", "rollback"}
Calls == Held \cup {"new", "peek", "lock", "ok", "failed"}

Typed ==
  /\ scene \in Scenes
  /\ pc \in [Request -> Calls]
  /\ store \in [Cell -> Values]
  /\ dirty \in [Request -> UNION {[D -> Values] : D \in SUBSET Cell}]
  /\ copy \in [Request -> [Cell -> Values]]

\* What can be said of a store, whichever request looks at it.
Shape(f) ==
  /\ \A b \in Branch : f[Row(b)] \in {"DOING", "DONE"}
  /\ \A q \in Request : f[Apply(q)] \in {"absent", "DOING"} /\ f[Behind(q)] \in {"absent", "DOING"}

Released(f) == \E q \in Request : f[Behind(q)] # "absent"

Sound(f) ==
  /\ \A q, p \in Request : f[Behind(q)] # "absent" /\ f[Behind(p)] # "absent" => q = p
  /\ Released(f) => \A c \in InRound : f[c] # "DOING"

Alive(f) == \E c \in Rows : f[c] = "DOING"

\* What is done in f is done in g.
Extends(f, g) == \A c \in Rows : f[c] = "DONE" => g[c] = "DONE"

Writing == {"save", "follow"}

\* What the next call of request q finds.
Stage(q) ==
  /\ pc[q] \in Held <=> lock = q
  /\ dirty[q] # Empty => InTx /\ pc[q] \in Writing \cup {"commit", "rollback"}
  /\ pc[q] \in {"load", "update"} => store[Row(Target[q])] = "DOING"
  /\ pc[q] = "update" => copy[q] = store
  /\ pc[q] \in Writing => copy[q] = Seen(q) /\ ~ Released(Seen(q))
  /\ pc[q] = "commit" => InTx /\ Sound(Seen(q)) /\ Alive(Seen(q))
  /\ pc[q] \in Writing \cup {"commit"} =>
       /\ Shape(Seen(q)) /\ Extends(store, Seen(q))
       /\ Seen(q)[Row(Target[q])] = "DONE"
  /\ pc[q] \in {"unlock", "ok"} => store[Row(Target[q])] = "DONE"

\* A request that has found its row DOING and has settled it.
Past == Writing \cup {"commit", "unlock", "ok"}
HandledApart ==
  \A q, p \in Request : pc[q] \in Past /\ pc[p] \in Past /\ Target[q] = Target[p] => q = p

Locking ==
  /\ Typed
  /\ Shape(store) /\ Sound(store)
  /\ Alive(store) \/ (~ InTx /\ \E q \in Request : pc[q] \in Writing)
  /\ HandledApart
  /\ \A q \in Request : Stage(q)

IInv == scene \in Scenes /\ (Serialised => Locking)

-----------------------------------------------------------------------------
(* Cells and what a request sees. *)

LEMMA SceneTyped ==
  ASSUME scene \in Scenes
  PROVE  Kind \in [Request -> Kinds] /\ Target \in [Request -> Branch] /\ Boundary \in Boundaries
  BY SceneAssumption DEF Scene, Kind, Target, Boundary

LEMMA Cells ==
  /\ \A b \in Branch : Row(b) \in Cell /\ Row(b) \in Rows /\ Row(b) \in InRound
  /\ \A q \in Request : /\ Apply(q) \in Cell /\ Apply(q) \in Rows /\ Apply(q) \in InRound
                        /\ Behind(q) \in Cell /\ Behind(q) \in Rows
  /\ InRound \subseteq Rows /\ Rows \subseteq Cell
  BY DEF Cell, Rows, InRound, Row, Apply, Behind

LEMMA CellsDiffer ==
  /\ \A b, d \in Branch : Row(b) = Row(d) => b = d
  /\ \A q, p \in Request : (Apply(q) = Apply(p) => q = p) /\ (Behind(q) = Behind(p) => q = p)
  /\ \A b \in Branch, q \in Request : Row(b) # Apply(q) /\ Row(b) # Behind(q)
  /\ \A q, p \in Request : Apply(q) # Behind(p)
  BY DEF Row, Apply, Behind

LEMMA RowsAre ==
  ASSUME NEW c \in Rows
  PROVE  (\E b \in Branch : c = Row(b)) \/ (\E q \in Request : c = Apply(q) \/ c = Behind(q))
  BY DEF Rows, InRound

LEMMA InRoundIs ==
  ASSUME NEW c \in InRound
  PROVE  (\E b \in Branch : c = Row(b)) \/ (\E q \in Request : c = Apply(q))
  BY DEF InRound

LEMMA OverAt ==
  ASSUME NEW f, NEW g, NEW c \in Cell
  PROVE  Over(f, g)[c] = IF c \in DOMAIN f THEN f[c] ELSE g[c]
  BY DEF Over

LEMMA OverEmpty ==
  ASSUME NEW g \in [Cell -> Values]
  PROVE  Over(Empty, g) = g
  BY DEF Over, Empty

LEMMA OverTyped ==
  ASSUME NEW D \in SUBSET Cell, NEW f \in [D -> Values], NEW g \in [Cell -> Values]
  PROVE  Over(f, g) \in [Cell -> Values]
  BY DEF Over

LEMMA SeenTyped ==
  ASSUME Typed, NEW q \in Request
  PROVE  Seen(q) \in [Cell -> Values]
  <1>1. PICK D \in SUBSET Cell : dirty[q] \in [D -> Values]
    BY DEF Typed
  <1> QED
    BY <1>1, OverTyped DEF Seen, Typed

LEMMA SeenClean ==
  ASSUME Typed, NEW q \in Request, dirty[q] = Empty
  PROVE  Seen(q) = store
  BY OverEmpty DEF Seen, Typed
\* Only the holder of the mutex is at a call that reads or writes.
LEMMA Others ==
  ASSUME Locking, NEW r \in Request, pc[r] \in Held, NEW q \in Request \ {r}
  PROVE  pc[q] \notin Held /\ dirty[q] = Empty
  <1>1. lock = r /\ lock # q
    BY DEF Locking, Stage
  <1>2. pc[q] \notin Held
    BY <1>1 DEF Locking, Stage
  <1> QED
    BY <1>2 DEF Locking, Stage, Held, Writing

LEMMA WriteSeen ==
  ASSUME Locking, NEW r \in Request, NEW D \in SUBSET Cell, NEW f \in [D -> Values], Write(r, f)
  PROVE  /\ Over(dirty'[r], store') = Over(f, Seen(r))
         /\ dirty' \in [Request -> UNION {[E -> Values] : E \in SUBSET Cell}]
         /\ store' \in [Cell -> Values]
         /\ \A q \in Request \ {r} : dirty'[q] = dirty[q]
         /\ InTx => store' = store
         /\ ~ InTx => dirty' = dirty /\ dirty[r] = Empty /\ store' = Over(f, Seen(r))
  <1>1. Typed
    BY DEF Locking
  <1>2. CASE InTx
    <2> DEFINE E == DOMAIN dirty[r] \cup DOMAIN f
               g == [c \in E |-> IF c \in DOMAIN f THEN f[c] ELSE dirty[r][c]]
    <2>1. dirty' = [dirty EXCEPT ![r] = g] /\ store' = store
      BY <1>2 DEF Write
    <2>2. PICK B \in SUBSET Cell : dirty[r] \in [B -> Values]
      BY <1>1 DEF Typed
    <2>3. E \in SUBSET Cell /\ g \in [E -> Values]
      BY <2>2
    <2>4. dirty'[r] = g
      BY <1>1, <2>1 DEF Typed
    <2>5. Over(g, store) = Over(f, Over(dirty[r], store))
      <3> HIDE DEF E
      <3>1. DOMAIN g = E
        OBVIOUS
      <3> QED
        BY <3>1, <2>2, <2>3 DEF Over, E
    <2>6. dirty' \in [Request -> UNION {[F -> Values] : F \in SUBSET Cell}]
      BY <1>1, <2>1, <2>3, ZenonT(40) DEF Typed
    <2> QED
      BY <1>1, <1>2, <2>1, <2>4, <2>5, <2>6 DEF Seen, Typed
  <1>3. CASE ~ InTx
    <2>1. dirty' = dirty /\ store' = Over(f, store)
      BY <1>3 DEF Write
    <2>2. dirty[r] = Empty
      BY <1>3 DEF Locking, Stage
    <2>3. store' \in [Cell -> Values]
      BY <1>1, <2>1, OverTyped DEF Typed
    <2> QED
      BY <1>1, <1>3, <2>1, <2>2, <2>3, SeenClean, OverEmpty DEF Typed
  <1> QED
    BY <1>2, <1>3

-----------------------------------------------------------------------------
(* Each call keeps the invariant.  The calls that touch neither the store  *)
(* nor what a transaction has written come first.                          *)

\* Such a call takes request r to a stage where it finds what it needs, and
\* leaves the others where they were; the holder of the mutex may change.
LEMMA QuietKeeps ==
  ASSUME Locking, NEW r \in Request, UNCHANGED <<scene, store, dirty>>,
         NEW call \in Calls, pc' = [pc EXCEPT ![r] = call],
         copy' \in [Request -> [Cell -> Values]],
         \A q \in Request \ {r} : copy'[q] = copy[q] /\ (lock' = q <=> lock = q),
         pc[r] \notin Writing, call \notin Writing,
         call \in Past => pc[r] \in Past,
         Stage(r)'
  PROVE  Locking' /\ Extends(store, store')
  <1>1. pc' \in [Request -> Calls] /\ \A q \in Request : pc'[q] = IF q = r THEN call ELSE pc[q]
    BY DEF Locking, Typed
  <1>2. Typed'
    BY <1>1 DEF Locking, Typed
  <1>3. Shape(store)' /\ Sound(store)' /\ Extends(store, store')
    BY DEF Locking, Shape, Sound, Released, Extends
  <1>4. (Alive(store) \/ (~ InTx /\ \E q \in Request : pc[q] \in Writing))'
    BY <1>1 DEF Locking, Alive, InTx, Boundary
  <1>5. HandledApart'
    BY <1>1 DEF Locking, HandledApart, Target
  <1>6. ASSUME NEW q \in Request \ {r} PROVE Stage(q)'
    <2>1. Stage(q) /\ pc'[q] = pc[q] /\ copy'[q] = copy[q] /\ (lock' = q <=> lock = q)
      BY <1>1 DEF Locking
    <2> QED
      BY <2>1 DEF Stage, Seen, InTx, Boundary, Target, Shape, Sound, Released, Extends, Alive
  <1> QED
    BY <1>2, <1>3, <1>4, <1>5, <1>6 DEF Locking
\* The other calls are those of the holder of the mutex.
LEMMA LoudKeeps ==
  ASSUME Locking, NEW r \in Request, pc[r] \in Held, UNCHANGED scene, Typed',
         NEW call \in Calls, pc' = [pc EXCEPT ![r] = call], lock' \in {lock, Nobody},
         \A q \in Request \ {r} : dirty'[q] = dirty[q],
         Shape(store'), Sound(store'), Extends(store, store'),
         Alive(store') \/ (~ InTx /\ call \in Writing),
         call \in Past => pc[r] \in Past \/ store[Row(Target[r])] = "DOING",
         Stage(r)'
  PROVE  Locking' /\ Extends(store, store')
  <1>1. pc' \in [Request -> Calls] /\ \A q \in Request : pc'[q] = IF q = r THEN call ELSE pc[q]
    BY DEF Locking, Typed
  <1>2. Target' = Target /\ (InTx' <=> InTx) /\ Target \in [Request -> Branch]
    BY SceneTyped DEF Locking, Typed, Target, InTx, Boundary
  <1>3. ASSUME NEW q \in Request \ {r} PROVE Stage(q)'
    <2>1. pc'[q] = pc[q] /\ pc[q] \notin Held /\ dirty'[q] = Empty
      BY <1>1, Others
    <2>2. lock' # q
      BY NobodyAssumption DEF Locking, Stage
    <2>3. pc[q] = "ok" => store'[Row(Target[q])] = "DONE"
      BY <1>2, Cells DEF Locking, Stage, Extends
    <2> QED
      BY <1>2, <2>1, <2>2, <2>3 DEF Stage, Held, Writing, Empty
  <1>4. HandledApart'
    <2> SUFFICES ASSUME NEW p \in Request \ {r}, pc'[r] \in Past, pc'[p] \in Past, Target[r] = Target[p]
                 PROVE  FALSE
      <3>1. \A q, p \in Request \ {r} :
               pc'[q] \in Past /\ pc'[p] \in Past /\ Target[q] = Target[p] => q = p
        BY <1>1 DEF Locking, HandledApart
      <3> QED
        BY <1>2, <3>1 DEF HandledApart
    <2>1. pc[p] \in Past /\ pc[p] \notin Held
      BY <1>1, Others
    <2>2. store[Row(Target[p])] = "DONE"
      BY <2>1 DEF Locking, Stage, Past, Held, Writing
    <2>3. pc[r] \in Past
      BY <1>1, <2>2
    <2> QED
      BY <2>1, <2>3 DEF Locking, HandledApart
  <1>5. (Alive(store) \/ (~ InTx /\ \E q \in Request : pc[q] \in Writing))'
    BY <1>1, <1>2
  <1> QED
    BY <1>3, <1>4, <1>5 DEF Locking

LEMMA SerialisedTyped ==
  ASSUME Locking, Serialised, NEW r \in Request
  PROVE  /\ Locked(r) /\ Kind[r] \in {"agree", "return"}
         /\ Boundary # "facade" /\ (InTx => Boundary = "engine")
         /\ Target[r] \in Branch
         /\ pc[r] \in Calls /\ copy[r] \in [Cell -> Values] /\ Stage(r)
  BY SceneTyped DEF Locking, Typed, Serialised, Locked, Boundaries, InTx

LEMMA EnterKeeps ==
  ASSUME Locking, Serialised, NEW r \in Request, UNCHANGED scene,
         start(r) \/ peek(r) \/ lockInstance(r) \/ beginTx(r)
  PROVE  Locking' /\ Extends(store, store')
  <1>1. UNCHANGED <<store, dirty, copy>>
    BY DEF start, peek, lockInstance, beginTx
  <1>2. Stage(r) /\ Locked(r) /\ Boundary # "facade"
    BY SerialisedTyped
  <1>3. \E call \in {"peek", "lock", "begin", "check"} :
           /\ pc' = [pc EXCEPT ![r] = call] /\ pc[r] \in {"new", "peek", "lock", "begin"}
           /\ (call \in Held <=> lock' = r) /\ \A q \in Request \ {r} : lock' = q <=> lock = q
    BY <1>2, NobodyAssumption DEF start, peek, lockInstance, beginTx, Goto, Stage, Held
  <1>4. PICK call \in {"peek", "lock", "begin", "check"} :
           /\ pc' = [pc EXCEPT ![r] = call] /\ pc[r] \in {"new", "peek", "lock", "begin"}
           /\ (call \in Held <=> lock' = r) /\ \A q \in Request \ {r} : lock' = q <=> lock = q
    BY <1>3
  <1>5. pc'[r] = call
    BY <1>4 DEF Locking, Typed
  <1>6. Stage(r)'
    BY <1>1, <1>2, <1>4, <1>5 DEF Stage, Writing
  <1> QED
    BY <1>1, <1>4, <1>6, QuietKeeps DEF Locking, Typed, Calls, Held, Writing, Past
LEMMA CheckKeeps ==
  ASSUME Locking, Serialised, NEW r \in Request, UNCHANGED scene, checkRow(r)
  PROVE  Locking' /\ Extends(store, store')
  <1>1. Stage(r) /\ pc[r] = "check" /\ Kind[r] # "withdraw" /\ lock = r /\ dirty[r] = Empty
    BY SerialisedTyped DEF checkRow, Stage, Held, Writing
  <1>2. Seen(r) = store
    BY <1>1, SeenClean DEF Locking
  <1> DEFINE call == IF store[Row(Target[r])] = "DOING" THEN "load" ELSE "rollback"
  <1>3. pc' = [pc EXCEPT ![r] = call] /\ UNCHANGED <<lock, store, dirty, copy>>
    BY <1>1, <1>2 DEF checkRow, Goto
  <1>4. pc'[r] = call
    BY <1>3 DEF Locking, Typed
  <1>5. Stage(r)'
    BY <1>1, <1>3, <1>4 DEF Stage, Held, Writing, Target
  <1>6. call \in Calls \ (Writing \cup Past) /\ pc[r] \notin Writing /\ copy' \in [Request -> [Cell -> Values]]
    BY <1>1, <1>3 DEF Locking, Typed, Calls, Held, Writing, Past
  <1> HIDE DEF call
  <1> QED
    BY <1>3, <1>5, <1>6, QuietKeeps

LEMMA LoadKeeps ==
  ASSUME Locking, Serialised, NEW r \in Request, UNCHANGED scene, loadInstance(r)
  PROVE  Locking' /\ Extends(store, store')
  <1>1. /\ Stage(r) /\ pc[r] = "load" /\ Kind[r] # "withdraw" /\ lock = r /\ dirty[r] = Empty
        /\ store[Row(Target[r])] = "DOING"
    BY SerialisedTyped DEF loadInstance, Stage, Held, Writing
  <1>2. Seen(r) = store
    BY <1>1, SeenClean DEF Locking
  <1>3. /\ pc' = [pc EXCEPT ![r] = "update"] /\ copy' = [copy EXCEPT ![r] = store]
        /\ UNCHANGED <<lock, store, dirty>>
    BY <1>1, <1>2 DEF loadInstance, Goto
  <1>4. pc'[r] = "update" /\ copy'[r] = store /\ copy' \in [Request -> [Cell -> Values]]
        /\ \A q \in Request \ {r} : copy'[q] = copy[q]
    BY <1>3 DEF Locking, Typed
  <1>5. Stage(r)'
    BY <1>1, <1>3, <1>4 DEF Stage, Held, Writing, Target
  <1> QED
    BY <1>1, <1>3, <1>4, <1>5, QuietKeeps DEF Calls, Held, Writing, Past

LEMMA UnlockKeeps ==
  ASSUME Locking, Serialised, NEW r \in Request, UNCHANGED scene, unlock(r)
  PROVE  Locking' /\ Extends(store, store')
  <1>1. Stage(r) /\ pc[r] = "unlock" /\ lock = r /\ dirty[r] = Empty /\ Boundary # "facade"
    BY SerialisedTyped DEF unlock, Stage, Held, Writing
  <1>2. pc' = [pc EXCEPT ![r] = "ok"] /\ lock' = Nobody /\ UNCHANGED <<store, dirty, copy>>
    BY <1>1 DEF unlock, Goto
  <1>3. pc'[r] = "ok"
    BY <1>2 DEF Locking, Typed
  <1>4. Stage(r)'
    BY <1>1, <1>2, <1>3, NobodyAssumption DEF Stage, Held, Writing, Target
  <1>5. "ok" \in Calls \ Writing /\ pc[r] \in Past \ Writing /\ copy' \in [Request -> [Cell -> Values]]
    BY <1>1, <1>2 DEF Locking, Typed, Calls, Held, Writing, Past
  <1>6. \A q \in Request \ {r} : copy'[q] = copy[q] /\ (lock' = q <=> lock = q)
    BY <1>1, <1>2, NobodyAssumption
  <1> QED
    BY <1>2, <1>4, <1>5, <1>6, QuietKeeps

\* Nobody else has written anything a request could wait for.
LEMMA NeverBlocked ==
  ASSUME Locking, NEW r \in Request, NEW cells, pc[r] \in Held
  PROVE  ~ Blocked(r, cells)
  <1>1. \A q \in Request \ {r} : DOMAIN dirty[q] = {}
    BY Others DEF Empty
  <1> QED
    BY <1>1 DEF Blocked

LEMMA NoTimeout ==
  ASSUME Locking, Serialised, NEW r \in Request
  PROVE  ~ lockTimeout(r)
  <1>1. pc[r] \in Calls
    BY SerialisedTyped
  <1> QED
    BY <1>1, NeverBlocked DEF lockTimeout, Calls, Held

LEMMA RollbackKeeps ==
  ASSUME Locking, Serialised, NEW r \in Request, UNCHANGED scene, rollback(r)
  PROVE  Locking' /\ Extends(store, store')
  <1>1. Stage(r) /\ pc[r] = "rollback" /\ lock = r
    BY SerialisedTyped DEF rollback, Stage, Held
  <1>2. pc' = [pc EXCEPT ![r] = "failed"] /\ dirty' = [dirty EXCEPT ![r] = Empty]
        /\ lock' = Nobody /\ UNCHANGED <<store, copy>>
    BY <1>1 DEF rollback, Goto
  <1>3. pc'[r] = "failed" /\ dirty'[r] = Empty /\ \A q \in Request \ {r} : dirty'[q] = dirty[q]
    BY <1>2 DEF Locking, Typed
  <1>4. Empty \in [{} -> Values]
    BY DEF Empty
  <1>5. Typed'
    BY <1>2, <1>4 DEF Locking, Typed, Calls
  <1>6. Stage(r)'
    BY <1>1, <1>2, <1>3, NobodyAssumption DEF Stage, Held, Writing
  <1>7. Alive(store)
    BY <1>1, Others DEF Locking, Held, Writing
  <1> QED
    BY <1>1, <1>2, <1>3, <1>5, <1>6, <1>7, LoudKeeps
       DEF Locking, Calls, Held, Writing, Past, Alive, Shape, Sound, Released, Extends
\* The store after a call that writes: what request r sees when there is no
\* transaction, what it was when there is one.
LEMMA WriteKeeps ==
  ASSUME Locking, Serialised, NEW r \in Request, pc[r] \in Held, UNCHANGED <<scene, lock>>,
         NEW D \in SUBSET Cell, NEW f \in [D -> Values], Write(r, f),
         NEW g, g = Over(f, Seen(r)), Shape(g), Sound(g), Extends(store, g),
         NEW call \in Writing \cup {"commit", "unlock"}, pc' = [pc EXCEPT ![r] = call],
         g[Row(Target[r])] = "DONE",
         copy' \in [Request -> [Cell -> Values]],
         call \in Writing => copy'[r] = g /\ ~ Released(g),
         call \notin Writing => Alive(g),
         call = "commit" => InTx, call = "unlock" => ~ InTx,
         pc[r] \in Past \/ store[Row(Target[r])] = "DOING"
  PROVE  Locking' /\ Extends(store, store')
  <1>1. /\ Over(dirty'[r], store') = g
        /\ dirty' \in [Request -> UNION {[E -> Values] : E \in SUBSET Cell}]
        /\ store' \in [Cell -> Values]
        /\ \A q \in Request \ {r} : dirty'[q] = dirty[q]
        /\ InTx => store' = store
        /\ ~ InTx => dirty' = dirty /\ dirty[r] = Empty /\ store' = g
    BY WriteSeen
  <1>2. pc'[r] = call /\ call \in Calls /\ call \in Held
    BY DEF Locking, Typed, Calls, Held, Writing
  <1>3. Typed'
    BY <1>1, <1>2 DEF Locking, Typed
  <1>4. Extends(store, store) /\ Extends(g, g)
    BY DEF Extends
  <1>5. Shape(store') /\ Sound(store') /\ Extends(store, store') /\ Extends(store', g)
    BY <1>1, <1>4 DEF Locking
  <1>6. Alive(store') \/ (~ InTx /\ call \in Writing)
    BY <1>1 DEF Locking
  <1>7. (Seen(r))' = g /\ Target' = Target /\ (InTx' <=> InTx) /\ lock' = r
    BY <1>1 DEF Seen, Target, InTx, Boundary, Locking, Stage
  <1>8. Stage(r)'
    <2>1. dirty'[r] # Empty => InTx /\ call \in Writing \cup {"commit", "rollback"}
      BY <1>1
    <2>2. call = "unlock" => store'[Row(Target[r])] = "DONE"
      BY <1>1
    <2> QED
      BY <1>2, <1>5, <1>7, <2>1, <2>2 DEF Stage, Writing
  <1> QED
    BY <1>1, <1>2, <1>3, <1>5, <1>6, <1>8, LoudKeeps

LEMMA UpdateKeeps ==
  ASSUME Locking, Serialised, NEW r \in Request, UNCHANGED scene, updateTask(r)
  PROVE  Locking' /\ Extends(store, store')
  <1> DEFINE c == Row(Target[r])
             f == [d \in {c} |-> "DONE"]
             g == [store EXCEPT ![c] = "DONE"]
  <1>1. /\ Stage(r) /\ pc[r] = "update" /\ lock = r /\ dirty[r] = Empty
        /\ store[c] = "DOING" /\ copy[r] = store /\ Target[r] \in Branch
    BY SerialisedTyped DEF updateTask, Stage, Held, Writing
  <1>2. Seen(r) = store /\ store \in [Cell -> Values] /\ c \in Cell
    BY <1>1, SeenClean, Cells DEF Locking, Typed
  <1>3. f \in [{c} -> Values] /\ {c} \in SUBSET Cell
    BY <1>2 DEF Values
  <1>4. g = Over(f, Seen(r))
    BY <1>2 DEF Over
  <1>5. /\ Write(r, f) /\ pc' = [pc EXCEPT ![r] = "save"]
        /\ copy' = [copy EXCEPT ![r] = [@ EXCEPT ![c] = "DONE"]] /\ lock' = lock
    BY DEF updateTask, Goto
  <1>6. copy'[r] = g /\ copy' \in [Request -> [Cell -> Values]]
    <2>1. g \in [Cell -> Values]
      BY <1>2 DEF Values
    <2> QED
      BY <1>1, <1>5, <2>1 DEF Locking, Typed
  <1>7. ~ Released(store)
    BY <1>1, Cells DEF Locking, Sound
  <1>8. g[c] = "DONE" /\ \A d \in Cell \ {c} : g[d] = store[d]
    BY <1>2
  <1>9. Shape(g)
    BY <1>1, <1>8, Cells, CellsDiffer DEF Locking, Shape
  <1>10. ~ Released(g)
    BY <1>1, <1>7, <1>8, Cells, CellsDiffer DEF Released
  <1>11. Sound(g)
    BY <1>10 DEF Sound, Released
  <1>12. Extends(store, g)
    BY <1>8, Cells DEF Extends
  <1>13. pc[r] \in Held /\ UNCHANGED <<scene, lock>> /\ "save" \in Writing
    BY <1>1, <1>5 DEF Held, Writing
  <1>14. g[Row(Target[r])] = "DONE" /\ store[Row(Target[r])] = "DOING" /\ Write(r, f) /\ pc' = [pc EXCEPT ![r] = "save"]
    BY <1>1, <1>5, <1>8
  <1> HIDE DEF c, f, g
  <1> QED
    BY <1>3, <1>4, <1>6, <1>9, <1>10, <1>11, <1>12, <1>13, <1>14, WriteKeeps
LEMMA SaveKeeps ==
  ASSUME Locking, Serialised, NEW r \in Request, UNCHANGED scene, saveInstance(r)
  PROVE  Locking' /\ Extends(store, store')
  <1> DEFINE g == Seen(r)
             D == {c \in Cell : copy[r][c] # "absent"}
             f == Aggregate(r)
  <1>1. /\ Stage(r) /\ pc[r] = "save" /\ lock = r /\ copy[r] = g /\ ~ Released(g)
        /\ Shape(g) /\ Extends(store, g) /\ g[Row(Target[r])] = "DONE"
    BY SerialisedTyped DEF saveInstance, Stage, Held, Writing
  <1>2. g \in [Cell -> Values]
    BY SeenTyped DEF Locking
  <1>3. f \in [D -> Values] /\ D \in SUBSET Cell
    BY <1>1, <1>2 DEF Aggregate, Only
  <1>4. g = Over(f, Seen(r))
    <2>1. \A c \in D : f[c] = g[c]
      BY <1>1 DEF Aggregate, Only
    <2>2. DOMAIN f = D
      BY <1>3
    <2>3. Over(f, g) = [c \in Cell |-> g[c]]
      <3> HIDE DEF f, g, D
      <3> QED
        BY <2>1, <2>2 DEF Over
    <2> HIDE DEF g
    <2>4. g = Over(f, g)
      BY <1>2, <2>3
    <2> QED
      BY <2>4 DEF g
  <1>5. Write(r, f) /\ pc' = [pc EXCEPT ![r] = "follow"] /\ UNCHANGED <<lock, copy>>
    BY DEF saveInstance, Goto
  <1>6. Sound(g)
    BY <1>1 DEF Sound, Released
  <1>7. copy' \in [Request -> [Cell -> Values]] /\ copy'[r] = g
        /\ pc[r] \in Held /\ pc[r] \in Past
    BY <1>1, <1>5 DEF Locking, Typed, Held, Past, Writing
  <1>8. "follow" \in Writing /\ UNCHANGED <<scene, lock>> /\ Write(r, f) /\ pc' = [pc EXCEPT ![r] = "follow"]
    BY <1>5 DEF Writing
  <1>9. Shape(g) /\ Extends(store, g) /\ g[Row(Target[r])] = "DONE" /\ ~ Released(g)
    BY <1>1
  <1> HIDE DEF f, g, D
  <1> QED
    BY <1>3, <1>4, <1>6, <1>7, <1>8, <1>9, WriteKeeps

LEMMA WriteNothing ==
  ASSUME Locking, NEW r \in Request, UNCHANGED <<store, dirty>>
  PROVE  Write(r, Empty)
  <1>1. PICK D \in SUBSET Cell : dirty[r] \in [D -> Values]
    BY DEF Locking, Typed
  <1> DEFINE h == [c \in DOMAIN dirty[r] \cup DOMAIN Empty |->
                    IF c \in DOMAIN Empty THEN Empty[c] ELSE dirty[r][c]]
  <1>2. h = dirty[r]
    BY <1>1 DEF Empty
  <1>3. dirty' = [dirty EXCEPT ![r] = h]
    <2> HIDE DEF h
    <2> QED
      BY <1>2 DEF Locking, Typed
  <1>4. Over(Empty, store) = store
    BY OverEmpty DEF Locking, Typed
  <1>5. ~ Blocked(r, DOMAIN Empty)
    BY DEF Blocked, Empty
  <1> QED
    BY <1>3, <1>4, <1>5, Zenon DEF Write

\* What is common to the last calls of an agreement and of a return.
LEMMA FollowKeeps ==
  ASSUME Locking, Serialised, NEW r \in Request, UNCHANGED <<scene, lock, copy>>, pc[r] = "follow",
         NEW D \in SUBSET Cell, NEW f \in [D -> Values], Write(r, f), pc' = [pc EXCEPT ![r] = Leave(r)],
         NEW g, g = Over(f, copy[r]), Shape(g), Sound(g), Extends(copy[r], g), Alive(g)
  PROVE  Locking' /\ Extends(store, store')
  <1>1. /\ Stage(r) /\ copy[r] = Seen(r) /\ Extends(store, Seen(r))
        /\ Seen(r)[Row(Target[r])] = "DONE" /\ Target[r] \in Branch
    BY SerialisedTyped DEF Stage, Held, Writing
  <1>2. Extends(store, g) /\ g[Row(Target[r])] = "DONE"
    BY <1>1, Cells DEF Extends
  <1> DEFINE call == Leave(r)
  <1>3. /\ call \in {"commit", "unlock"}
        /\ call = "commit" => InTx
        /\ call = "unlock" => ~ InTx
    BY SerialisedTyped DEF Leave
  <1>4. copy' \in [Request -> [Cell -> Values]] /\ pc[r] \in Held \cap Past /\ call \notin Writing
    BY <1>3 DEF Locking, Typed, Held, Past, Writing
  <1> HIDE DEF call
  <1>5. pc' = [pc EXCEPT ![r] = call]
    BY DEF call
  <1> QED
    BY <1>1, <1>2, <1>3, <1>4, <1>5, WriteKeeps
\* The aggregate at the last call: nobody has released the round in it.
LEMMA AtFollow ==
  ASSUME Locking, Serialised, NEW r \in Request, pc[r] = "follow"
  PROVE  copy[r] \in [Cell -> Values] /\ ~ Released(copy[r]) /\ Shape(copy[r])
  BY SerialisedTyped DEF Stage, Held, Writing

LEMMA AgreedKeeps ==
  ASSUME Locking, Serialised, NEW r \in Request, UNCHANGED scene, agreed(r)
  PROVE  Locking' /\ Extends(store, store')
  <1>1. pc[r] = "follow" /\ pc' = [pc EXCEPT ![r] = Leave(r)] /\ UNCHANGED <<scene, lock, copy>>
    BY DEF agreed, Goto
  <1>2. copy[r] \in [Cell -> Values] /\ ~ Released(copy[r]) /\ Shape(copy[r])
    BY <1>1, AtFollow
  <1>3. CASE mergeReady(r)
    <2> DEFINE b == Behind(r)
               f == [c \in {b} |-> "DOING"]
               g == [copy[r] EXCEPT ![b] = "DOING"]
    <2>1. Write(r, f)
      BY <1>3 DEF agreed
    <2>2. b \in Rows /\ b \in Cell /\ {b} \in SUBSET Cell /\ f \in [{b} -> Values]
      BY Cells DEF Values
    <2>3. g = Over(f, copy[r]) /\ g[b] = "DOING" /\ \A c \in Cell \ {b} : g[c] = copy[r][c]
      BY <1>2, <2>2 DEF Over
    <2>4. Shape(g)
      BY <1>2, <2>3, Cells, CellsDiffer DEF Shape
    <2>5. \A q \in Request \ {r} : g[Behind(q)] = "absent"
      BY <1>2, <2>3, Cells, CellsDiffer DEF Released
    <2>6. \A c \in InRound : g[c] # "DOING"
      <3> SUFFICES ASSUME NEW c \in InRound PROVE g[c] # "DOING"
        OBVIOUS
      <3>1. c # b /\ c \in Cell
        BY InRoundIs, CellsDiffer, Cells
      <3> QED
        BY <1>3, <2>3, <3>1 DEF mergeReady
    <2>7. Sound(g)
      BY <2>5, <2>6 DEF Sound
    <2>8. Extends(copy[r], g)
      BY <1>2, <2>2, <2>3, Cells DEF Extends, Released
    <2>9. Alive(g)
      BY <2>2, <2>3 DEF Alive
    <2> HIDE DEF b, f, g
    <2> QED
      BY <1>1, <2>1, <2>2, <2>3, <2>4, <2>7, <2>8, <2>9, FollowKeeps
  <1>4. CASE ~ mergeReady(r)
    <2>1. Write(r, Empty) /\ Empty \in [{} -> Values]
      BY <1>4, WriteNothing DEF agreed, Empty
    <2>2. copy[r] = Over(Empty, copy[r])
      BY <1>2, OverEmpty
    <2>3. Alive(copy[r])
      BY <1>4, Cells DEF mergeReady, Alive
    <2>4. Sound(copy[r]) /\ Extends(copy[r], copy[r])
      BY <1>2 DEF Sound, Released, Extends
    <2> QED
      BY <1>1, <1>2, <2>1, <2>2, <2>3, <2>4, FollowKeeps
  <1> QED
    BY <1>3, <1>4

LEMMA ReturnedKeeps ==
  ASSUME Locking, Serialised, NEW r \in Request, UNCHANGED scene, returned(r)
  PROVE  Locking' /\ Extends(store, store')
  <1> DEFINE a == Apply(r)
             f == [c \in {a} |-> "DOING"]
             g == [copy[r] EXCEPT ![a] = "DOING"]
  <1>1. /\ pc[r] = "follow" /\ pc' = [pc EXCEPT ![r] = Leave(r)] /\ UNCHANGED <<scene, lock, copy>>
        /\ Write(r, f)
    BY DEF returned, Goto
  <1>2. copy[r] \in [Cell -> Values] /\ ~ Released(copy[r]) /\ Shape(copy[r])
    BY <1>1, AtFollow
  <1>3. a \in Rows /\ a \in Cell /\ {a} \in SUBSET Cell /\ f \in [{a} -> Values]
    BY Cells DEF Values
  <1>4. g = Over(f, copy[r]) /\ g[a] = "DOING" /\ \A c \in Cell \ {a} : g[c] = copy[r][c]
    BY <1>2, <1>3 DEF Over
  <1>5. Shape(g)
    BY <1>2, <1>4, Cells, CellsDiffer DEF Shape
  <1>6. ~ Released(g)
    BY <1>2, <1>4, Cells, CellsDiffer DEF Released
  <1>7. Sound(g)
    BY <1>6 DEF Sound, Released
  <1>8. Extends(copy[r], g)
    BY <1>2, <1>3, <1>4, Cells DEF Extends, Shape
  <1>9. Alive(g)
    BY <1>3, <1>4 DEF Alive
  <1> HIDE DEF a, f, g
  <1> QED
    BY <1>1, <1>3, <1>4, <1>5, <1>7, <1>8, <1>9, FollowKeeps

\* The commit makes what the request saw what everybody sees.
LEMMA CommitKeeps ==
  ASSUME Locking, Serialised, NEW r \in Request, UNCHANGED scene, commit(r)
  PROVE  Locking' /\ Extends(store, store')
  <1>1. /\ Stage(r) /\ pc[r] = "commit" /\ lock = r /\ InTx /\ Boundary = "engine" /\ Locked(r)
        /\ Sound(Seen(r)) /\ Alive(Seen(r)) /\ Shape(Seen(r)) /\ Extends(store, Seen(r))
        /\ Seen(r)[Row(Target[r])] = "DONE"
    BY SerialisedTyped DEF commit, Stage, Held
  <1>2. /\ pc' = [pc EXCEPT ![r] = "unlock"] /\ dirty' = [dirty EXCEPT ![r] = Empty]
        /\ store' = Seen(r) /\ UNCHANGED <<lock, copy>>
    BY <1>1 DEF commit, Goto, Seen
  <1>3. pc'[r] = "unlock" /\ dirty'[r] = Empty /\ \A q \in Request \ {r} : dirty'[q] = dirty[q]
    BY <1>2 DEF Locking, Typed
  <1>4. Empty \in [{} -> Values]
    BY DEF Empty
  <1>5. Typed'
    BY <1>2, <1>4, SeenTyped DEF Locking, Typed, Calls, Held
  <1>6. Stage(r)'
    BY <1>1, <1>2, <1>3 DEF Stage, Held, Writing, Target
  <1>7. pc[r] \in Held /\ pc[r] \in Past /\ "unlock" \in Calls /\ lock' \in {lock, Nobody}
    BY <1>1, <1>2 DEF Held, Past, Calls
  <1>8. Shape(store') /\ Sound(store') /\ Extends(store, store') /\ Alive(store')
    BY <1>1, <1>2
  <1> QED
    BY <1>2, <1>3, <1>5, <1>6, <1>7, <1>8, LoudKeeps
-----------------------------------------------------------------------------
(* The system. *)

LEMMA StepKeeps ==
  ASSUME Locking, Serialised, Next
  PROVE  Locking' /\ Extends(store, store')
  <1>1. PICK r \in Request : Serve(r) \/ lockTimeout(r)
    BY DEF Next
  <1>2. UNCHANGED scene
    BY DEF Next
  <1>3. ~ rejected(r) /\ ~ withdrawn(r)
    BY SerialisedTyped DEF rejected, withdrawn, Calls, Held
  <1> QED
    BY <1>1, <1>2, <1>3, EnterKeeps, CheckKeeps, LoadKeeps, UpdateKeeps, SaveKeeps, AgreedKeeps,
       ReturnedKeeps, UnlockKeeps, CommitKeeps, RollbackKeeps, NoTimeout DEF Serve

LEMMA InitHolds == Init => IInv
  <1> SUFFICES ASSUME Init, Serialised PROVE Locking
    BY DEF IInv, Init
  <1>1. Typed
    <2>1. Empty \in [{} -> Values]
      BY DEF Empty
    <2>2. store \in [Cell -> Values]
      BY DEF Init, Values
    <2> QED
      BY <2>1, <2>2 DEF Init, Typed, Calls
  <1>2. \A b \in Branch : store[Row(b)] = "DOING"
    BY Cells DEF Init
  <1>3. \A q \in Request : store[Apply(q)] = "absent" /\ store[Behind(q)] = "absent"
    BY Cells, CellsDiffer DEF Init, Instance, Row, Apply, Behind
  <1>4. Shape(store) /\ Sound(store)
    BY <1>2, <1>3 DEF Shape, Sound, Released
  <1>5. Alive(store)
    BY <1>2, BranchAssumption, Cells DEF Alive
  <1>6. \A q \in Request : Stage(q)
    BY NobodyAssumption DEF Init, Stage, Held, Writing
  <1>7. HandledApart
    BY DEF Init, HandledApart, Past, Writing
  <1> QED
    BY <1>1, <1>4, <1>5, <1>6, <1>7 DEF Locking

LEMMA Untouched == IInv /\ UNCHANGED vars => IInv'
  BY DEF IInv, vars, Serialised, Locking, Typed, Shape, Sound, Released, Alive, InTx, Boundary, Kind, Target,
         HandledApart, Stage, Seen, Extends

LEMMA NextKeeps == IInv /\ Next => IInv' /\ (Serialised => Extends(store, store'))
  <1> SUFFICES ASSUME IInv, Next PROVE IInv' /\ (Serialised => Extends(store, store'))
    OBVIOUS
  <1>1. scene' = scene /\ (Serialised' <=> Serialised)
    BY DEF Next, Serialised, Boundary, Kind
  <1> QED
    BY <1>1, StepKeeps DEF IInv

\* Where every request takes the mutex and keeps it until its transaction has
\* ended, each of its calls finds what the one before has left (lockInstanceByTask
\* before loadAndCheck).
THEOREM MutexInductive == Spec => []IInv
  <1>1. IInv /\ [Next]_vars => IInv'
    BY NextKeeps, Untouched
  <1> QED
    BY <1>1, InitHolds, PTL DEF Spec

LEMMA OneAtMost ==
  ASSUME NEW S, \A q, p \in S : q = p
  PROVE  Cardinality(S) <= 1
  <1>1. CASE S = {}
    BY <1>1, FS_EmptySet
  <1>2. CASE S # {}
    <2>1. PICK q \in S : S = {q}
      BY <1>2
    <2>2. Cardinality({q}) = 1
      BY FS_Singleton
    <2> QED
      BY <2>1, <2>2
  <1> QED
    BY <1>1, <1>2

\* However many requests come in, and however many branches there are: the join
\* lets the round through once, with all branches done, and does let it through
\* (mergeReady on the aggregate loaded under the mutex).
THEOREM JoinSafe == Spec => []JoinSound
  <1>1. IInv => JoinSound
    <2> SUFFICES ASSUME IInv, Serialised
                 PROVE  /\ JoinReleasesOnce
                        /\ (\E r \in Request : store[Behind(r)] # "absent") => \A c \in InRound : store[c] # "DOING"
                        /\ (\A r \in Request : Ended(r)) => \E c \in Rows : store[c] = "DOING"
      BY DEF JoinSound
    <2>1. Locking
      BY DEF IInv
    <2>2. JoinReleasesOnce
      BY <2>1, OneAtMost DEF JoinReleasesOnce, Locking, Sound
    <2>3. (\A r \in Request : Ended(r)) => Alive(store)
      BY <2>1 DEF Locking, Ended, Writing
    <2> QED
      BY <2>1, <2>2, <2>3 DEF Locking, Sound, Released, Alive
  <1> QED
    BY <1>1, MutexInductive, PTL

\* Of any number of requests that complete the same row one succeeds.
THEOREM Handled == Spec => []HandledOnce
  <1>1. IInv => HandledOnce
    BY DEF IInv, HandledOnce, Locking, HandledApart, Past
  <1> QED
    BY <1>1, MutexInductive, PTL

\* No request writes an old state over a settled row (the cascade of UpdateInstance).
THEOREM SettledStay == Spec => SettledRowsStay
  <1> DEFINE A == Serialised => \A c \in Rows : store[c] \in {"DONE", "WITHDRAW"} => store'[c] = store[c]
  <1>1. IInv /\ [Next]_vars => [A]_vars
    <2> SUFFICES ASSUME IInv, Next, Serialised, NEW c \in Rows, store[c] \in {"DONE", "WITHDRAW"}
                 PROVE  store'[c] = store[c]
      OBVIOUS
    <2>1. Extends(store, store')
      BY NextKeeps
    <2>2. store[c] # "WITHDRAW"
      BY RowsAre DEF IInv, Locking, Shape
    <2> QED
      BY <2>1, <2>2 DEF Extends
  <1>2. [][A]_vars => SettledRowsStay
    BY PTL DEF SettledRowsStay
  <1> QED
    BY <1>1, <1>2, MutexInductive, PTL DEF Spec
=============================================================================

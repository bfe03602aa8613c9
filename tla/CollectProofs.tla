----------------------------- MODULE CollectProofs -----------------------------
(***************************************************************************)
(* The dynamic countersign for every set of users and every bound, in      *)
(* the definitions of AsksAhead.                                           *)
(***************************************************************************)
EXTENDS Collect, EngineProofs

-----------------------------------------------------------------------------
(* The inductive invariant, of the rows 1 .. n of a table d.                 *)

MemberIn(d, i) ==
  d[i].parent # 0 /\ d[i].node \in HostNode /\ d[d[i].parent].node = d[i].node
PendingIn(d, i) == MemberIn(d, i) /\ d[i].st = "DOING"

\* The host of an open member row is open.
Hosted(d, n) == \A i \in 1 .. n : PendingIn(d, i) => d[d[i].parent].st = "DOING"

\* Nobody has two open member rows below the same row.
Apart(d, n) ==
  \A i, k \in 1 .. n :
    PendingIn(d, i) /\ PendingIn(d, k) /\ d[i].parent = d[k].parent /\ i # k
      => d[i].actors \cap d[k].actors = {}

\* A row at x below row p, not asked for: behind a node with a dynamic
\* countersign it lies at another node, and behind a member's row it is where
\* a jump or a return has put it.
Arrives(d, x, p) ==
  p # 0 /\ d[p].node \in HostNode =>
    /\ x # d[p].node
    /\ MemberIn(d, p) => x \in Met(Landing) /\ d[p].submit \notin {"agree", "disagree"}

\* Members ask no members.
PlacedAt(d, i) ==
  IF MemberIn(d, i) THEN ~ MemberIn(d, d[i].parent) ELSE Arrives(d, d[i].node, d[i].parent)
Placed(d, n) == \A i \in 1 .. n : PlacedAt(d, i)

\* The ledger l numbers the rounds of every host.
Rounds(d, n, l, h) == { l[m].round : m \in { i \in 1 .. n : d[i].parent = h /\ MemberIn(d, i) } }
Numbered(d, n, l) ==
  /\ \A h \in 1 .. n : d[h].node \in HostNode /\ ~ MemberIn(d, h) =>
       Rounds(d, n, l, h) = 1 .. l[h].asked
  /\ \A i \in 1 .. n : MemberIn(d, i) => l[i].round > 0

Orderly(d, n, l) == Hosted(d, n) /\ Apart(d, n) /\ Placed(d, n) /\ Numbered(d, n, l)

\* A node x still to be executed below row p.
Coming(d, x, p) ==
  p # 0 /\ d[p].node \in HostNode =>
    /\ x \in Met(outgoingTargets(Flow, d[p].node) \cup Landing)
    /\ MemberIn(d, p) => x \in Met(Landing) /\ d[p].submit \notin {"agree", "disagree"}
AllComing(d, w) == \A k \in 1 .. Len(w) : Coming(d, w[k].node, w[k].parent)

\* What a failed command may take back.
Restorable == saved.last <= last /\ Orderly(saved.task, saved.last, ledger)

CInv ==
  /\ IInv(HostNode)
  /\ ledger \in [Id -> Entry]
  /\ Orderly(task, last, ledger)
  /\ AllComing(task, work)
  /\ Transactional /\ ~ Idle => Restorable

-----------------------------------------------------------------------------
(* Nodes with a dynamic countersign, and the nodes a token meets. *)

LEMMA HostFacts ==
  ASSUME NEW n \in HostNode
  PROVE  /\ n \in Node /\ Flow.type[n] = "task"
         /\ Props[n].countersign = "none" /\ Props[n].addSign = FALSE
         /\ AddSignGate(n) = TRUE /\ n \notin FirstTaskNode
  <1>1. n \in OfType(Flow, "task") /\ Props[n].collect
    BY DEF HostNode
  <1>2. n \in Node /\ Flow.type[n] = "task"
    BY <1>1 DEF OfType, Node
  <1>3. Props[n].countersign = "none" /\ ~ isFirstTaskNode(Flow, n) /\ ~ Props[n].addSign
    BY <1>1, PropsAssumption DEF validateAddSignFlow
  <1>4. Props[n].addSign \in BOOLEAN /\ Props[n].collect \in BOOLEAN
    BY <1>2, PropsAssumption DEF PropType
  <1> QED
    BY <1>1, <1>2, <1>3, <1>4 DEF AddSignGate, FirstTaskNode

LEMMA LandingTyped ==
  ASSUME NEW x \in Landing
  PROVE  x \in Node /\ x \in Met(Landing) /\ \A S : x \in Met(S \cup Landing)
  <1>1. x \in Node
    BY InputAssumption, FirstAfterStartTyped DEF Landing
  <1> QED
    BY <1>1, MetHas

LEMMA AheadNoWayBack ==
  ASSUME AsksAhead
  PROVE  NoWayBack(HostNode)
  BY DEF AsksAhead, NoWayBack

\* What is still to come below a row arrives elsewhere.
LEMMA ComingArrives ==
  ASSUME AsksAhead, NEW d, NEW x, NEW p, Coming(d, x, p)
  PROVE  Arrives(d, x, p)
  <1>1. ASSUME p # 0, d[p].node \in HostNode PROVE x # d[p].node
    BY <1>1 DEF AsksAhead, Coming
  <1> QED
    BY <1>1 DEF Arrives, Coming

LEMMA ArrivesPlain ==
  ASSUME NEW d, NEW i, Arrives(d, d[i].node, d[i].parent)
  PROVE  ~ MemberIn(d, i)
  BY DEF Arrives, MemberIn

-----------------------------------------------------------------------------
(* What a step of the engine leaves as it is. *)

\* No host of a row that stays open is settled.
HostsStay(e) ==
  \A i \in Id : MemberIn(task, i) /\ e[i].st = "DOING" => e[task[i].parent].st = "DOING"

\* The rows a step adds are not members.
NewPlain(e, m) == \A i \in last+1 .. m : Arrives(e, e[i].node, e[i].parent)

LEMMA Lineal ==
  ASSUME IInv(HostNode), NEW i \in Id
  PROVE  /\ i \in Nat /\ last \in Nat /\ 1 <= i /\ i <= last
         /\ task[i].parent \in 0 .. i-1
         /\ task[i].parent # 0 => task[i].parent \in Id
         /\ Below(HostNode, task, task[i])
  <1>1. RefsOK(HostNode, task, i) /\ last \in Nat /\ i \in 1 .. last
    BY DEF IInv, TypeOK, Sound, Id
  <1> QED
    BY <1>1 DEF RefsOK, Id

LEMMA OldRows ==
  ASSUME IInv(HostNode), NEW e, NEW m, Evolves(HostNode, e, m), NEW i \in Id
  PROVE  /\ e[i].node = task[i].node /\ e[i].parent = task[i].parent
         /\ e[i].actors = task[i].actors
         /\ task[i].st # "DOING" => e[i] = task[i]
         /\ MemberIn(e, i) <=> MemberIn(task, i)
         /\ PendingIn(e, i) => PendingIn(task, i)
  <1>1. /\ e[i].node = task[i].node /\ e[i].parent = task[i].parent
        /\ e[i].actors = task[i].actors
        /\ task[i].st # "DOING" => e[i] = task[i]
    BY DEF Evolves
  <1>2. task[i].parent # 0 => e[task[i].parent].node = task[task[i].parent].node
    BY Lineal DEF Evolves
  <1>3. MemberIn(e, i) <=> MemberIn(task, i)
    BY <1>1, <1>2 DEF MemberIn
  <1> QED
    BY <1>1, <1>3 DEF PendingIn

\* The parent of a row that is not a member is completed.
LEMMA OldPlaced ==
  ASSUME IInv(HostNode), NEW e, NEW m, Evolves(HostNode, e, m), NEW i \in Id,
         PlacedAt(task, i)
  PROVE  PlacedAt(e, i)
  <1> DEFINE p == task[i].parent
  <1>1. /\ e[i].node = task[i].node /\ e[i].parent = p
        /\ MemberIn(e, i) <=> MemberIn(task, i)
    BY OldRows
  <1>2. p # 0 => p \in Id /\ (MemberIn(e, p) <=> MemberIn(task, p)) /\ e[p].node = task[p].node
    BY Lineal, OldRows
  <1>3. CASE MemberIn(task, i)
    <2>1. p # 0
      BY <1>3 DEF MemberIn
    <2>2. ~ MemberIn(task, p)
      BY <1>3 DEF PlacedAt
    <2> QED
      BY <1>1, <1>2, <1>3, <2>1, <2>2 DEF PlacedAt
  <1>4. CASE ~ MemberIn(task, i)
    <2>1. Arrives(task, task[i].node, p)
      BY <1>4 DEF PlacedAt
    <2>2. ASSUME p # 0, task[p].node \in HostNode
          PROVE  e[p] = task[p]
      <3>1. Handled(task[p])
        BY <1>4, <2>2, Lineal DEF Below, MemberIn
      <3> QED
        BY <1>2, <2>2, <3>1, OldRows DEF Handled
    <2>3. Arrives(e, task[i].node, p)
      BY <1>2, <2>1, <2>2 DEF Arrives
    <2> QED
      BY <1>1, <1>4, <2>3 DEF PlacedAt
  <1> QED
    BY <1>3, <1>4

\* A table that evolves stays orderly if hosts do not leave their members and
\* no new row is taken for a member; new rows have asked nobody.
LEMMA EvolvesHosted ==
  ASSUME IInv(HostNode), Orderly(task, last, ledger),
         NEW e, NEW m, Evolves(HostNode, e, m), HostsStay(e), NewPlain(e, m)
  PROVE  Hosted(e, m) /\ Apart(e, m) /\ Placed(e, m)
  <1>0. m \in Nat /\ last \in Nat
    BY DEF Evolves, IInv, TypeOK
  <1>1. ASSUME NEW i \in 1 .. m, i \notin Id
        PROVE  ~ MemberIn(e, i) /\ PlacedAt(e, i)
    <2>1. i \in last+1 .. m
      BY <1>0, <1>1 DEF Id
    <2>2. Arrives(e, e[i].node, e[i].parent)
      BY <2>1 DEF NewPlain
    <2> QED
      BY <2>2, ArrivesPlain DEF PlacedAt
  <1>2. ASSUME NEW i \in 1 .. m, PendingIn(e, i)
        PROVE  /\ i \in Id /\ PendingIn(task, i) /\ MemberIn(task, i) /\ e[i].st = "DOING"
               /\ e[i].parent = task[i].parent /\ e[i].actors = task[i].actors
    <2>1. i \in Id
      BY <1>1, <1>2 DEF PendingIn
    <2> QED
      BY <1>2, <2>1, OldRows DEF PendingIn
  <1>3. Hosted(e, m)
    <2> SUFFICES ASSUME NEW i \in 1 .. m, PendingIn(e, i) PROVE e[e[i].parent].st = "DOING"
      BY DEF Hosted
    <2> QED
      BY <1>2 DEF HostsStay
  <1>4. Apart(e, m)
    <2> SUFFICES ASSUME NEW i \in 1 .. m, NEW k \in 1 .. m, PendingIn(e, i), PendingIn(e, k),
                        e[i].parent = e[k].parent, i # k
                 PROVE  e[i].actors \cap e[k].actors = {}
      BY DEF Apart
    <2>1. /\ i \in Id /\ k \in Id /\ PendingIn(task, i) /\ PendingIn(task, k)
          /\ task[i].parent = task[k].parent
      BY <1>2
    <2>2. task[i].actors \cap task[k].actors = {}
      BY <2>1 DEF Orderly, Apart, Id
    <2> QED
      BY <1>2, <2>2
  <1>5. Placed(e, m)
    <2> SUFFICES ASSUME NEW i \in 1 .. m PROVE PlacedAt(e, i)
      BY DEF Placed
    <2>1. CASE i \in Id
      BY <2>1, OldPlaced DEF Orderly, Placed, Id
    <2> QED
      BY <1>1, <2>1
  <1> QED
    BY <1>3, <1>4, <1>5

\* The rounds of the rows there were.
LEMMA EvolvesNumbered ==
  ASSUME IInv(HostNode), Orderly(task, last, ledger),
         NEW e, NEW m, Evolves(HostNode, e, m), NewPlain(e, m),
         NEW l, \A i \in Id : l[i] = ledger[i], \A i \in last+1 .. m : l[i].asked = 0
  PROVE  Numbered(e, m, l)
  <1>0. m \in Nat /\ last \in Nat /\ last <= m
    BY DEF Evolves, IInv, TypeOK
  <1>1. ASSUME NEW i \in 1 .. m, MemberIn(e, i)
        PROVE  i \in Id /\ MemberIn(task, i) /\ e[i].parent = task[i].parent
    <2>1. i \in Id
      <3> SUFFICES ASSUME i \notin Id PROVE FALSE
        OBVIOUS
      <3>1. i \in last+1 .. m
        BY <1>0 DEF Id
      <3>2. Arrives(e, e[i].node, e[i].parent)
        BY <3>1 DEF NewPlain
      <3> QED
        BY <1>1, <3>2, ArrivesPlain
    <2> QED
      BY <1>1, <2>1, OldRows
  <1>2. ASSUME NEW i \in 1 .. m, MemberIn(e, i) PROVE l[i].round > 0
    BY <1>1, <1>2 DEF Orderly, Numbered, Id
  <1>3. ASSUME NEW h \in 1 .. m, e[h].node \in HostNode, ~ MemberIn(e, h)
        PROVE  Rounds(e, m, l, h) = 1 .. l[h].asked
    <2>1. CASE h \in Id
      <3>1. { i \in 1 .. m : e[i].parent = h /\ MemberIn(e, i) }
              = { i \in 1 .. last : task[i].parent = h /\ MemberIn(task, i) }
        <4>1. ASSUME NEW i \in Id, task[i].parent = h, MemberIn(task, i)
              PROVE  i \in 1 .. m /\ e[i].parent = h /\ MemberIn(e, i)
          BY <1>0, <4>1, OldRows DEF Id
        <4>2. ASSUME NEW i \in 1 .. m, e[i].parent = h, MemberIn(e, i)
              PROVE  i \in 1 .. last /\ task[i].parent = h /\ MemberIn(task, i)
          BY <1>1, <4>2 DEF Id
        <4> QED
          BY <4>1, <4>2 DEF Id
      <3>2. Rounds(e, m, l, h) = Rounds(task, last, ledger, h)
        BY <3>1 DEF Rounds, Id
      <3>3. task[h].node \in HostNode /\ ~ MemberIn(task, h)
        BY <1>3, <2>1, OldRows
      <3> QED
        BY <2>1, <3>2, <3>3 DEF Orderly, Numbered, Id
    <2>2. CASE h \notin Id
      <3>1. l[h].asked = 0
        BY <1>0, <2>2 DEF Id
      <3>2. \A i \in 1 .. m : MemberIn(e, i) => e[i].parent # h
        BY <1>1, <1>0, <2>2, Lineal DEF MemberIn
      <3> QED
        BY <3>1, <3>2 DEF Rounds
    <2> QED
      BY <2>1, <2>2
  <1> QED
    BY <1>2, <1>3 DEF Numbered

LEMMA EvolvesOrderly ==
  ASSUME IInv(HostNode), Orderly(task, last, ledger),
         NEW e, NEW m, Evolves(HostNode, e, m), HostsStay(e), NewPlain(e, m),
         NEW l, \A i \in Id : l[i] = ledger[i], \A i \in last+1 .. m : l[i].asked = 0
  PROVE  Orderly(e, m, l)
  BY EvolvesHosted, EvolvesNumbered DEF Orderly

\* A table is orderly whatever the ledger says of other rows.
LEMMA OrderlyLedger ==
  ASSUME NEW d, NEW n \in Nat, NEW l, NEW l2, Orderly(d, n, l), \A i \in 1 .. n : l2[i] = l[i]
  PROVE  Orderly(d, n, l2)
  <1>1. \A h : Rounds(d, n, l2, h) = Rounds(d, n, l, h)
    BY DEF Rounds
  <1>2. Numbered(d, n, l2)
    BY <1>1 DEF Orderly, Numbered
  <1> QED
    BY <1>2 DEF Orderly

LEMMA KeptLedger ==
  ASSUME last \in Nat, last' \in Nat, ledger \in [Id -> Entry], ledger' = Kept(ledger)
  PROVE  /\ ledger' \in [1 .. last' -> Entry]
         /\ \A i \in 1 .. last' : i \in Id => ledger'[i] = ledger[i]
         /\ \A i \in 1 .. last' : i \notin Id => ledger'[i].asked = 0
  <1>1. ledger' = [i \in 1 .. last' |-> IF i \in Id THEN ledger[i] ELSE NoEntry]
    BY DEF Kept
  <1>2. NoEntry \in Entry /\ NoEntry.asked = 0
    BY DEF NoEntry, Entry
  <1> QED
    BY <1>1, <1>2

-----------------------------------------------------------------------------
(* The nodes still to be executed. *)

LEMMA OldComing ==
  ASSUME IInv(HostNode), NEW e, NEW m, Evolves(HostNode, e, m), NEW x, NEW p,
         SourceOK(task, last, p), Coming(task, x, p)
  PROVE  Coming(e, x, p)
  <1>1. ASSUME p # 0
        PROVE  e[p] = task[p] /\ (MemberIn(e, p) <=> MemberIn(task, p))
    <2>1. p \in Id /\ task[p].st = "DONE"
      BY <1>1 DEF SourceOK, Handled, Id, IInv, TypeOK
    <2> QED
      BY <2>1, OldRows
  <1> QED
    BY <1>1 DEF Coming

LEMMA AllComingKept ==
  ASSUME IInv(HostNode), NEW e, NEW m, Evolves(HostNode, e, m), NEW w,
         PendingOK(task, last, w), AllComing(task, w)
  PROVE  AllComing(e, w)
  BY OldComing DEF PendingOK, AllComing

LEMMA AllComingConcat ==
  ASSUME NEW d, NEW a \in Seq(WorkItem), NEW b \in Seq(WorkItem),
         AllComing(d, a), AllComing(d, b)
  PROVE  AllComing(d, a \o b)
  <1>1. /\ Len(a \o b) = Len(a) + Len(b)
        /\ \A i \in 1 .. Len(a) + Len(b) : (a \o b)[i] = IF i <= Len(a) THEN a[i] ELSE b[i - Len(a)]
    BY ConcatProperties
  <1>2. Len(a) \in Nat /\ Len(b) \in Nat
    OBVIOUS
  <1> SUFFICES ASSUME NEW k \in 1 .. Len(a) + Len(b)
               PROVE  Coming(d, (a \o b)[k].node, (a \o b)[k].parent)
    BY <1>1 DEF AllComing
  <1>3. CASE k <= Len(a)
    <2>1. (a \o b)[k] = a[k] /\ k \in 1 .. Len(a)
      BY <1>1, <1>2, <1>3
    <2> QED
      BY <2>1 DEF AllComing
  <1>4. CASE k > Len(a)
    <2>1. k - Len(a) \in 1 .. Len(b) /\ (a \o b)[k] = b[k - Len(a)]
      BY <1>1, <1>2, <1>4
    <2> QED
      BY <2>1 DEF AllComing
  <1> QED
    BY <1>2, <1>3, <1>4

LEMMA ChildrenComing ==
  ASSUME NEW d, NEW n \in Node, NEW p, Coming(d, n, p), Flow.type[n] # "task"
  PROVE  AllComing(d, Children(n, p))
  <1>1. ASSUME NEW x \in outgoingTargets(Flow, n) PROVE Coming(d, x, p)
    BY <1>1, MetGoes DEF Coming
  <1>2. Len(Flow.succ[n]) \in Nat /\ DOMAIN Flow.succ[n] = 1 .. Len(Flow.succ[n])
    BY PropTyped
  <1>3. /\ Len(Children(n, p)) = Len(Flow.succ[n])
        /\ \A k \in 1 .. Len(Flow.succ[n]) : /\ Children(n, p)[k].node = Flow.succ[n][k]
                                             /\ Children(n, p)[k].parent = p
    BY <1>2 DEF Children
  <1>4. \A k \in 1 .. Len(Flow.succ[n]) : Flow.succ[n][k] \in outgoingTargets(Flow, n)
    BY <1>2 DEF outgoingTargets, FlowRange
  <1> QED
    BY <1>1, <1>3, <1>4 DEF AllComing

\* The successors of a host that has decided.
LEMMA HostChildrenComing ==
  ASSUME NEW d, NEW p, d[p].node \in Node, ~ MemberIn(d, p)
  PROVE  AllComing(d, Children(d[p].node, p))
  <1> DEFINE n == d[p].node
  <1>1. ASSUME NEW x \in outgoingTargets(Flow, n) PROVE Coming(d, x, p)
    <2>1. x \in Node
      BY SuccessorTyped
    <2>2. x \in Met(outgoingTargets(Flow, n) \cup Landing)
      BY <2>1, MetHas
    <2> QED
      BY <2>2 DEF Coming
  <1>2. Len(Flow.succ[n]) \in Nat /\ DOMAIN Flow.succ[n] = 1 .. Len(Flow.succ[n])
    BY PropTyped
  <1>3. /\ Len(Children(n, p)) = Len(Flow.succ[n])
        /\ \A k \in 1 .. Len(Flow.succ[n]) : /\ Children(n, p)[k].node = Flow.succ[n][k]
                                             /\ Children(n, p)[k].parent = p
    <2>1. Children(n, p) = [k \in 1 .. Len(Flow.succ[n]) |-> [node |-> Flow.succ[n][k], parent |-> p]]
      BY <1>2 DEF Children
    <2>2. Len(Children(n, p)) = Len(Flow.succ[n])
      BY <1>2, <2>1
    <2>3. ASSUME NEW k \in 1 .. Len(Flow.succ[n])
          PROVE  Children(n, p)[k].node = Flow.succ[n][k] /\ Children(n, p)[k].parent = p
      BY <2>1
    <2> QED
      BY <2>2, <2>3
  <1>4. \A k \in 1 .. Len(Flow.succ[n]) : Flow.succ[n][k] \in outgoingTargets(Flow, n)
    BY <1>2 DEF outgoingTargets, FlowRange
  <1> QED
    BY <1>1, <1>3, <1>4 DEF AllComing

-----------------------------------------------------------------------------
(* What is left to show of one step. *)

\* A command that has nodes left to execute can be taken back to where it began.
SavedNext ==
  \/ work' = << >>
  \/ ~ Transactional
  \/ saved' = Snapshot
  \/ ~ Idle /\ saved' = saved

LEMMA RunSaves ==
  ASSUME NEW w, NEW c, Run(w, c)
  PROVE  SavedNext
  BY DEF Run, SavedNext

LEMMA CInvNext ==
  CInv' <=> /\ IInv(HostNode)'
            /\ ledger' \in [1 .. last' -> Entry]
            /\ Orderly(task', last', ledger')
            /\ AllComing(task', work')
            /\ Transactional /\ work' # << >> =>
                 saved'.last <= last' /\ Orderly(saved'.task, saved'.last, ledger')
  BY DEF CInv, Orderly, Hosted, Apart, Placed, PlacedAt, Numbered, Rounds, PendingIn, MemberIn,
         Arrives, AllComing, Coming, Restorable, Idle, Id

LEMMA SavedOrderly ==
  ASSUME CInv, SavedNext, last' \in Nat, last <= last', NEW l,
         \A i \in Id : l[i] = ledger[i], Transactional, work' # << >>
  PROVE  saved'.last <= last' /\ Orderly(saved'.task, saved'.last, l)
  <1>0. last \in Nat /\ saved.last \in Nat
    BY DEF CInv, IInv, TypeOK
  <1>1. CASE saved' = Snapshot
    <2>1. saved'.last = last /\ saved'.task = task
      BY <1>1 DEF Snapshot
    <2>2. Orderly(task, last, l)
      BY <1>0, OrderlyLedger DEF CInv, Id
    <2> QED
      BY <2>1, <2>2
  <1>2. CASE ~ Idle /\ saved' = saved
    <2>1. saved.last <= last /\ Orderly(saved.task, saved.last, ledger)
      BY <1>2 DEF CInv, Restorable
    <2>2. \A i \in 1 .. saved.last : l[i] = ledger[i]
      BY <1>0, <2>1 DEF Id
    <2>3. Orderly(saved.task, saved.last, l)
      BY <1>0, <2>1, <2>2, OrderlyLedger
    <2> QED
      BY <1>0, <1>2, <2>1, <2>3
  <1> QED
    BY <1>1, <1>2 DEF SavedNext

LEMMA EvolvesCInv ==
  ASSUME CInv, IInv(HostNode)', Evolves(HostNode, task', last'), HostsStay(task'),
         NewPlain(task', last'), AllComing(task', work'), ledger' = Kept(ledger), SavedNext
  PROVE  CInv'
  <1>1. IInv(HostNode) /\ Orderly(task, last, ledger) /\ ledger \in [Id -> Entry] /\ last \in Nat
    BY DEF CInv, IInv, TypeOK
  <1>2. last' \in Nat /\ last <= last'
    BY DEF Evolves
  <1>3. /\ ledger' \in [1 .. last' -> Entry]
        /\ \A i \in 1 .. last' : i \in Id => ledger'[i] = ledger[i]
        /\ \A i \in 1 .. last' : i \notin Id => ledger'[i].asked = 0
    BY <1>1, <1>2, KeptLedger
  <1>4. /\ \A i \in Id : ledger'[i] = ledger[i]
        /\ \A i \in last+1 .. last' : ledger'[i].asked = 0
    BY <1>1, <1>2, <1>3 DEF Id
  <1>5. Orderly(task', last', ledger')
    BY <1>1, <1>4, EvolvesOrderly
  <1>6. Transactional /\ work' # << >> =>
          saved'.last <= last' /\ Orderly(saved'.task, saved'.last, ledger')
    BY <1>2, <1>4, SavedOrderly
  <1> QED
    BY <1>3, <1>5, <1>6, CInvNext

LEMMA SameHosts ==
  ASSUME IInv(HostNode), NEW e, \A i \in Id : e[i].st = task[i].st, Hosted(task, last)
  PROVE  HostsStay(e)
  <1> SUFFICES ASSUME NEW i \in Id, MemberIn(task, i), e[i].st = "DOING"
               PROVE  e[task[i].parent].st = "DOING"
    BY DEF HostsStay
  <1>1. PendingIn(task, i)
    BY DEF PendingIn
  <1>2. task[task[i].parent].st = "DOING"
    BY <1>1 DEF Hosted, Id
  <1>3. task[i].parent \in Id
    BY Lineal DEF MemberIn
  <1> QED
    BY <1>2, <1>3

LEMMA TailComing ==
  ASSUME CInv, ~ Idle
  PROVE  /\ Tail(work) \in Seq(WorkItem)
         /\ AllComing(task, Tail(work))
         /\ Coming(task, Current.node, Current.parent)
  <1>1. work \in Seq(WorkItem) /\ work # << >> /\ AllComing(task, work)
    BY DEF CInv, IInv, TypeOK, Idle
  <1>2. /\ Len(Tail(work)) = Len(work) - 1 /\ Len(work) \in Nat \ {0}
        /\ \A k \in 1 .. Len(work) - 1 : Tail(work)[k] = work[k+1]
        /\ Head(work) = work[1] /\ Tail(work) \in Seq(WorkItem)
    BY <1>1
  <1>3. AllComing(task, Tail(work))
    BY <1>1, <1>2 DEF AllComing
  <1>4. Coming(task, work[1].node, work[1].parent)
    BY <1>1, <1>2 DEF AllComing
  <1> QED
    BY <1>2, <1>3, <1>4 DEF Current

\* A step of the walk that adds no row, and goes on with nodes w.
LEMMA WalkCInv ==
  ASSUME CInv, IInv(HostNode)', ~ Idle, NEW w \in Seq(WorkItem), AllComing(task, w),
         Run(w \o Tail(work), cmd), UNCHANGED <<task, last>>, ledger' = Kept(ledger)
  PROVE  CInv'
  <1>1. IInv(HostNode) /\ Hosted(task, last) /\ last \in Nat /\ AllComing(task, work)
    BY DEF CInv, IInv, TypeOK, Orderly
  <1>2. Evolves(HostNode, task', last')
    BY <1>1, SameTable
  <1>3. HostsStay(task')
    BY <1>1, SameHosts
  <1>4. NewPlain(task', last')
    BY <1>1 DEF NewPlain
  <1>5. Tail(work) \in Seq(WorkItem) /\ AllComing(task, Tail(work))
    BY TailComing
  <1>7. AllComing(task, w \o Tail(work))
    BY <1>5, AllComingConcat
  <1>8. work' = w \o Tail(work)
    BY DEF Run
  <1>9. AllComing(task', work')
    BY <1>7, <1>8
  <1>10. SavedNext
    BY RunSaves
  <1> QED
    BY <1>2, <1>3, <1>4, <1>9, <1>10, EvolvesCInv

-----------------------------------------------------------------------------
(* The steps of executeNode. *)

LEMMA PushCInv ==
  ASSUME CInv, IInv(HostNode)', ~ Idle, Flow.type[Current.node] # "task",
         PushChildren(Current.node, Current.parent), UNCHANGED <<task, last>>,
         ledger' = Kept(ledger)
  PROVE  CInv'
  <1>1. IInv(HostNode) /\ last \in Nat
    BY DEF CInv, IInv, TypeOK
  <1>2. Current.node \in Node /\ Current.parent \in Nat
    <2>1. Current.node \in Node /\ Current.parent \in 0 .. last
      BY <1>1, CurrentTyped
    <2> QED
      BY <1>1, <2>1
  <1>3. Children(Current.node, Current.parent) \in Seq(WorkItem)
    BY <1>2, ChildrenTyped
  <1>4. AllComing(task, Children(Current.node, Current.parent))
    BY <1>2, TailComing, ChildrenComing
  <1> QED
    BY <1>3, <1>4, WalkCInv DEF PushChildren

LEMMA UnwindCInv ==
  ASSUME CInv, IInv(HostNode)', ~ Idle, Unwind, UNCHANGED <<task, last>>,
         ledger' = Kept(ledger)
  PROVE  CInv'
  <1>1. IInv(HostNode)
    BY DEF CInv
  <1>2. Run(<< >> \o Tail(work), cmd)
    BY <1>1, UnwindIsRun
  <1>3. << >> \in Seq(WorkItem) /\ AllComing(task, << >>)
    BY DEF AllComing
  <1> QED
    BY <1>2, <1>3, WalkCInv

LEMMA evaluateDecisionCInv ==
  ASSUME CInv, IInv(HostNode)', evaluateDecision, ledger' = Kept(ledger)
  PROVE  CInv'
  <1>1. IInv(HostNode) /\ ~ Idle /\ Flow.type[Current.node] = "decision"
    BY DEF CInv, evaluateDecision, Executing
  <1>2. Current.node \in Node /\ Current.parent \in Nat
    BY <1>1, CurrentTyped DEF IInv, TypeOK
  <1>3. PICK m \in DecisionTargets(Current.node) :
          Run(<<[node |-> m, parent |-> Current.parent]>> \o Tail(work), cmd)
    BY DEF evaluateDecision
  <1>4. m \in outgoingTargets(Flow, Current.node) /\ m \in Node
    <2>1. Flow.succ[Current.node] \in Seq(Node)
      BY <1>2, PropTyped
    <2>2. PICK k \in 1 .. Len(Flow.succ[Current.node]) : m = Flow.succ[Current.node][k]
      BY <1>3 DEF DecisionTargets
    <2> QED
      BY <2>1, <2>2 DEF outgoingTargets, FlowRange
  <1>5. Coming(task, m, Current.parent)
    <2>1. Coming(task, Current.node, Current.parent)
      BY <1>1, TailComing
    <2>2. Flow.type[Current.node] # "task"
      BY <1>1
    <2> QED
      BY <1>4, <2>1, <2>2, MetGoes DEF Coming
  <1> DEFINE w == <<[node |-> m, parent |-> Current.parent]>>
  <1>6. w \in Seq(WorkItem) /\ AllComing(task, w)
    BY <1>2, <1>4, <1>5 DEF WorkItem, AllComing
  <1>7. Run(w \o Tail(work), cmd)
    BY <1>3
  <1> HIDE DEF w
  <1> QED
    BY <1>1, <1>6, <1>7, WalkCInv DEF evaluateDecision

\* The rows of a node still to be executed.
LEMMA ComingPlain ==
  ASSUME AsksAhead, IInv(HostNode), NEW e, NEW m, Evolves(HostNode, e, m),
         NEW n, NEW p, SourceOK(task, last, p), Coming(task, n, p),
         \A i \in last+1 .. m : e[i].node = n /\ e[i].parent = p
  PROVE  NewPlain(e, m)
  <1>1. Coming(e, n, p)
    BY OldComing
  <1>2. Arrives(e, n, p)
    BY <1>1, ComingArrives
  <1> QED
    BY <1>2 DEF NewPlain

LEMMA createTaskCInv ==
  ASSUME AsksAhead, CInv, createTask, ledger' = Kept(ledger)
  PROVE  CInv'
  <1> DEFINE n == Current.node
             p == Current.parent
             roster == resolveActors(n)
             teams == Teams(n, roster)
             len == Len(teams)
             row(k) == [NewRow(n, p, teams[k]) EXCEPT
                          !.scopes = buildScopes(n, p, last + k), !.cs = CsStart(n, roster)]
             new == [k \in 1 .. len |-> row(k)]
  <1>1. IInv(HostNode) /\ Hosted(task, last) /\ last \in Nat /\ ~ Idle
    BY DEF CInv, IInv, TypeOK, Orderly, createTask, Executing
  <1>2. Evolves(HostNode, task', last') /\ IInv(HostNode)'
    BY <1>1, createTaskKeeps
  <1>3. n \in Node /\ SourceOK(task, last, p)
    BY <1>1, CurrentTyped
  <1>4. len \in Nat
    BY <1>1, <1>3, resolveActorsTyped, TeamsTyped
  <1>5. /\ Len(new) = len
        /\ \A k \in 1 .. len : new[k].node = n /\ new[k].parent = p
    <2>1. \A k \in 1 .. len : row(k).node = n /\ row(k).parent = p
      BY DEF NewRow
    <2>2. Len(new) = len /\ \A k \in 1 .. len : new[k] = row(k)
      <3> HIDE DEF row, len
      <3> QED
        BY <1>4
    <2> HIDE DEF new, row
    <2> QED
      BY <2>1, <2>2
  <1>6. task' = Appended(task, new) /\ last' = last + len /\ Run(Tail(work), cmd)
    BY <1>5 DEF createTask, Unwind
  <1> HIDE DEF new, row, len, teams, roster
  <1>7. /\ \A i \in Id : task'[i] = task[i]
        /\ \A i \in last+1 .. last' : task'[i].node = n /\ task'[i].parent = p
    BY <1>1, <1>4, <1>5, <1>6, AppendedRows
  <1>8. HostsStay(task')
    BY <1>1, <1>7, SameHosts
  <1>9. NewPlain(task', last')
    BY <1>1, <1>2, <1>3, <1>7, TailComing, ComingPlain
  <1>10. AllComing(task', work')
    <2>1. work' = Tail(work) /\ AllComing(task, Tail(work))
      BY <1>1, <1>6, TailComing DEF Run
    <2>2. PendingOK(task, last, Tail(work))
      BY <1>1, CurrentTyped
    <2> QED
      BY <1>1, <1>2, <2>1, <2>2, AllComingKept
  <1>11. SavedNext
    BY <1>6, RunSaves
  <1> QED
    BY <1>2, <1>8, <1>9, <1>10, <1>11, EvolvesCInv

LEMMA execCustomNodeCInv ==
  ASSUME AsksAhead, CInv, execCustomNode, ledger' = Kept(ledger)
  PROVE  CInv'
  <1> DEFINE n == Current.node
             p == Current.parent
             r == [NewRow(n, p, {cmd.user}) EXCEPT !.st = "DONE", !.by = cmd.user]
  <1>1. /\ IInv(HostNode) /\ Hosted(task, last) /\ last \in Nat /\ ~ Idle
        /\ Flow.type[n] # "task"
    BY DEF CInv, IInv, TypeOK, Orderly, execCustomNode, Executing
  <1>2. Evolves(HostNode, task', last') /\ IInv(HostNode)'
    BY <1>1, execCustomNodeKeeps
  <1>3. n \in Node /\ p \in Nat /\ SourceOK(task, last, p)
    BY <1>1, CurrentTyped DEF IInv, TypeOK
  <1>4. task' = Appended(task, << r >>) /\ last' = last + 1
    BY DEF execCustomNode
  <1>5. r.node = n /\ r.parent = p
    BY DEF NewRow
  <1>6. Run(Children(n, p) \o Tail(work), cmd)
    BY DEF execCustomNode, PushChildren
  <1> HIDE DEF r
  <1>8. /\ \A i \in Id : task'[i] = task[i]
        /\ \A i \in last+1 .. last' : task'[i].node = n /\ task'[i].parent = p
    BY <1>1, <1>4, <1>5, AppendedRow
  <1>9. HostsStay(task')
    BY <1>1, <1>8, SameHosts
  <1>10. NewPlain(task', last')
    BY <1>1, <1>2, <1>3, <1>8, TailComing, ComingPlain
  <1>11. Tail(work) \in Seq(WorkItem) /\ PendingOK(task, last, Tail(work))
    BY <1>1, CurrentTyped
  <1>12. Children(n, p) \in Seq(WorkItem) /\ PendingOK(task, last, Children(n, p))
    BY <1>3, ChildrenTyped, ChildrenPending
  <1>13. AllComing(task, Tail(work)) /\ AllComing(task, Children(n, p))
    BY <1>1, <1>3, TailComing, ChildrenComing
  <1>14. /\ PendingOK(task, last, Children(n, p) \o Tail(work))
         /\ AllComing(task, Children(n, p) \o Tail(work))
    BY <1>11, <1>12, <1>13, PendingConcat, AllComingConcat
  <1>15. work' = Children(n, p) \o Tail(work)
    BY <1>6 DEF Run
  <1>16. AllComing(task', work')
    BY <1>1, <1>2, <1>14, <1>15, AllComingKept
  <1>17. SavedNext
    BY <1>6, RunSaves
  <1> QED
    BY <1>2, <1>9, <1>10, <1>16, <1>17, EvolvesCInv

\* A failed command leaves what it has done, or takes it all back.
LEMMA abortCInv ==
  ASSUME CInv, abort, ledger' = Kept(ledger)
  PROVE  CInv'
  <1>1. /\ IInv(HostNode) /\ IInv(HostNode)' /\ ledger \in [Id -> Entry]
        /\ last \in Nat /\ last' \in Nat /\ ~ Idle
    BY abortKeeps DEF CInv, IInv, TypeOK, abort, Executing
  <1>2. work' = << >> /\ AllComing(task', work')
    BY DEF abort, Run, AllComing
  <1>3. last' <= last /\ Orderly(task', last', ledger)
    <2>1. CASE Transactional
      BY <1>1, <2>1 DEF CInv, Restorable, abort
    <2>2. CASE ~ Transactional
      BY <1>1, <2>2 DEF CInv, abort
    <2> QED
      BY <2>1, <2>2
  <1>4. /\ ledger' \in [1 .. last' -> Entry]
        /\ \A i \in 1 .. last' : i \in Id => ledger'[i] = ledger[i]
    BY <1>1, KeptLedger
  <1>5. \A i \in 1 .. last' : ledger'[i] = ledger[i]
    BY <1>1, <1>3, <1>4 DEF Id
  <1>6. Orderly(task', last', ledger')
    BY <1>1, <1>3, <1>5, OrderlyLedger
  <1> QED
    BY <1>1, <1>2, <1>4, <1>6, CInvNext

LEMMA StepCInv ==
  ASSUME AsksAhead, CInv, Step, ledger' = Kept(ledger)
  PROVE  CInv'
  <1>1. IInv(HostNode)
    BY DEF CInv
  <1>2. IInv(HostNode)'
    BY <1>1, StepKeeps, abortKeeps
  <1>3. CASE executeFork \/ joinReleases
    BY <1>2, <1>3, PushCInv DEF executeFork, joinReleases, Executing
  <1>4. CASE joinWaits \/ executeEnd \/ executeUnknown
    BY <1>2, <1>4, UnwindCInv DEF joinWaits, executeEnd, executeUnknown, Executing
  <1>5. CASE createTask \/ execCustomNode \/ abort
    BY <1>5, createTaskCInv, execCustomNodeCInv, abortCInv
  <1>6. CASE evaluateDecision
    BY <1>2, <1>6, evaluateDecisionCInv
  <1> QED
    BY <1>3, <1>4, <1>5, <1>6 DEF Step

-----------------------------------------------------------------------------
(* The commands of the engine. *)

\* A command that executes no node.
LEMMA IdleCInv ==
  ASSUME CInv, IInv(HostNode)', Idle, Evolves(HostNode, task', last'), HostsStay(task'),
         NewPlain(task', last'), UNCHANGED work, ledger' = Kept(ledger)
  PROVE  CInv'
  <1>1. work' = << >> /\ AllComing(task', work') /\ SavedNext
    BY DEF Idle, AllComing, SavedNext
  <1> QED
    BY <1>1, EvolvesCInv

\* A command that adds no row and goes on with nodes w.
LEMMA GoCInv ==
  ASSUME CInv, IInv(HostNode)', Evolves(HostNode, task', last'), HostsStay(task'),
         last' = last, NEW w, NEW c, Run(w, c), AllComing(task', w), ledger' = Kept(ledger)
  PROVE  CInv'
  <1>1. work' = w /\ SavedNext
    BY RunSaves DEF Run
  <1>2. NewPlain(task', last')
    BY DEF NewPlain, CInv, IInv, TypeOK
  <1> QED
    BY <1>1, <1>2, EvolvesCInv

\* The facade's gate keeps a host open while a member is asked.
LEMMA CompletedStays ==
  ASSUME CInv, NEW t \in Id, NEW u \in User, NEW submit \in Submit, Allowed(t, u),
         gateDynamicCountersign(t)
  PROVE  /\ HostsStay(Completed(t, u, submit))
         /\ Completed(t, u, submit)[t].st = "DONE"
         /\ Completed(t, u, submit)[t].submit = submit
         /\ Completed(t, u, submit)[t].node = task[t].node
  <1> DEFINE d == Completed(t, u, submit)
  <1>1. IInv(HostNode) /\ Hosted(task, last) /\ Placed(task, last) /\ task \in [Id -> Row]
    BY DEF CInv, Orderly, IInv, TypeOK
  <1>2. /\ d[t].st = "DONE" /\ d[t].submit = submit /\ d[t].node = task[t].node
        /\ \A i \in Id \ {t} : d[i] = task[i]
    BY <1>1 DEF Completed, Row
  <1>3. task[t].st = "DOING"
    BY DEF Allowed
  <1> HIDE DEF d
  <1>4. HostsStay(d)
    <2> SUFFICES ASSUME NEW i \in Id, MemberIn(task, i), d[i].st = "DOING"
                 PROVE  d[task[i].parent].st = "DOING"
      BY DEF HostsStay
    <2>1. d[i] = task[i]
      BY <1>2
    <2>2. PendingIn(task, i) /\ task[i].st = "DOING"
      BY <2>1 DEF PendingIn
    <2>3. task[i].parent \in Id /\ task[task[i].parent].st = "DOING"
      BY <1>1, <2>2, Lineal DEF Hosted, Id, MemberIn
    <2>4. task[i].parent # t
      <3> SUFFICES ASSUME task[i].parent = t PROVE FALSE
        OBVIOUS
      <3>1. ~ MemberIn(task, t)
        BY <1>1 DEF Placed, PlacedAt, Id
      <3>2. task[i].node = task[t].node /\ task[t].node \in HostNode /\ t # 0
        BY DEF MemberIn
      <3>3. Collects(t) /\ ~ IsCollectMemberRow(t)
        BY <3>1, <3>2, HostFacts DEF Collects, IsCollectMemberRow, MemberIn, HostNode
      <3>4. i \in CollectPendingMembers(t)
        BY <1>1, <2>2, <3>2
        DEF CollectPendingMembers, CollectMemberRows, IsCollectMemberRow, DoingIn
      <3> QED
        BY <1>3, <3>3, <3>4 DEF gateDynamicCountersign
    <2> QED
      BY <1>2, <2>3, <2>4
  <1> QED
    BY <1>2, <1>4 DEF d

\* A host and its members are dropped together: they are at one node.
LEMMA DroppedStays ==
  ASSUME IInv(HostNode), NEW d, NEW n, NEW B, Settles(d), HostsStay(d)
  PROVE  LET e == [i \in Id |-> IF B /\ i \in DoingAt(d, n)
                                THEN [d[i] EXCEPT !.st = "ABANDONED"] ELSE d[i]]
         IN  HostsStay(e) /\ \A i \in Id : d[i].st # "DOING" => e[i] = d[i]
  <1> DEFINE D == { i \in DoingAt(d, n) : B }
             e == [i \in Id |-> IF i \in D THEN [d[i] EXCEPT !.st = "ABANDONED"] ELSE d[i]]
  <1>1. \A i \in D : d[i].st = "DOING" /\ d[i].node = n /\ B
    BY DEF DoingAt, DoingIn
  <1>2. \A i \in Id : d[i].st = "DOING" /\ d[i].node = n /\ B => i \in D
    BY DEF DoingAt, DoingIn, Settles
  <1>3. \A i \in Id : d[i] \in Row /\ d[i].node = task[i].node
    BY DEF Settles
  <1>4. \A i \in D \cap Id : [d[i] EXCEPT !.st = "ABANDONED"].st = "ABANDONED"
    BY <1>3 DEF Row
  <1> HIDE DEF D
  <1>5. /\ \A i \in Id : i \in D => e[i].st = "ABANDONED"
        /\ \A i \in Id : i \notin D => e[i] = d[i]
    BY <1>4
  <1>6. e = [i \in Id |-> IF B /\ i \in DoingAt(d, n)
                          THEN [d[i] EXCEPT !.st = "ABANDONED"] ELSE d[i]]
    BY DEF D
  <1> HIDE DEF e
  <1>7. HostsStay(e)
    <2> SUFFICES ASSUME NEW i \in Id, MemberIn(task, i), e[i].st = "DOING"
                 PROVE  e[task[i].parent].st = "DOING"
      BY DEF HostsStay
    <2>1. i \notin D /\ d[i].st = "DOING"
      BY <1>5
    <2>2. task[i].parent \in Id /\ d[task[i].parent].st = "DOING"
      BY <2>1, Lineal DEF HostsStay, MemberIn
    <2>3. d[task[i].parent].node = d[i].node
      BY <1>3, <2>2 DEF MemberIn
    <2>4. task[i].parent \notin D
      BY <1>1, <1>2, <2>1, <2>3
    <2> QED
      BY <1>5, <2>2, <2>4
  <1>8. \A i \in Id : d[i].st # "DOING" => e[i] = d[i]
    BY <1>1, <1>5
  <1> QED
    BY <1>6, <1>7, <1>8

LEMMA DropOpenStays ==
  ASSUME CInv, NEW t \in Id, NEW u \in User, NEW submit \in Submit, Allowed(t, u),
         gateDynamicCountersign(t)
  PROVE  LET e == DropOpenAt(Completed(t, u, submit), task[t].node)
         IN  HostsStay(e) /\ e[t].submit = submit /\ e[t].node = task[t].node
  <1> DEFINE d == Completed(t, u, submit)
             e == DropOpenAt(d, task[t].node)
  <1>1. IInv(HostNode)
    BY DEF CInv
  <1>2. Settles(d)
    BY <1>1, CompletedSource
  <1>3. /\ HostsStay(d) /\ d[t].st = "DONE" /\ d[t].submit = submit
        /\ d[t].node = task[t].node
    BY CompletedStays
  <1> HIDE DEF d
  <1>4. HostsStay(e) /\ \A i \in Id : d[i].st # "DOING" => e[i] = d[i]
    BY <1>1, <1>2, <1>3, DroppedStays DEF DropOpenAt
  <1> HIDE DEF e
  <1>5. e[t] = d[t]
    BY <1>3, <1>4
  <1> QED
    BY <1>3, <1>4, <1>5 DEF e, d

\* New rows below a row of another kind of node.
LEMMA PlainBelow ==
  ASSUME IInv(HostNode), NEW e, NEW m, Evolves(HostNode, e, m), NEW t \in Id,
         task[t].node \notin HostNode, \A i \in last+1 .. m : e[i].parent = t
  PROVE  NewPlain(e, m)
  <1>1. e[t].node = task[t].node
    BY OldRows
  <1> QED
    BY <1>1 DEF NewPlain, Arrives

\* What a jump or a return puts below row p.
LEMMA LandingComing ==
  ASSUME NEW d, NEW p, NEW x \in Landing, d[p].submit \notin {"agree", "disagree"}
  PROVE  Coming(d, x, p)
  BY LandingTyped DEF Coming

LEMMA ExecuteWaitCInv ==
  ASSUME CInv, NEW t \in Id, NEW u \in User, NEW submit \in Submit, gateDynamicCountersign(t),
         ExecuteWait(t, u, submit), ledger' = Kept(ledger)
  PROVE  CInv'
  <1>1. IInv(HostNode) /\ last \in Nat
    BY DEF CInv, IInv, TypeOK
  <1>2. Idle /\ Allowed(t, u) /\ task' = Completed(t, u, submit) /\ last' = last /\ work' = work
    BY DEF ExecuteWait, Executes
  <1>3. Evolves(HostNode, task', last') /\ IInv(HostNode)'
    BY <1>1, ExecuteWaitKeeps
  <1>4. HostsStay(task')
    BY <1>2, CompletedStays
  <1>5. NewPlain(task', last')
    BY <1>1, <1>2 DEF NewPlain
  <1> QED
    BY <1>2, <1>3, <1>4, <1>5, IdleCInv

\* The settled rows of a table to which a command appends one.
LEMMA AppendHosts ==
  ASSUME IInv(HostNode), NEW d, HostsStay(d), NEW e, \A i \in Id : e[i] = d[i]
  PROVE  HostsStay(e)
  <1>1. \A i \in Id : MemberIn(task, i) => task[i].parent \in Id
    BY Lineal DEF MemberIn
  <1> QED
    BY <1>1 DEF HostsStay

LEMMA ExecuteNextMemberCInv ==
  ASSUME CInv, NEW t \in Id, NEW u \in User, NEW submit \in Submit, gateDynamicCountersign(t),
         ExecuteNextMember(t, u, submit), ledger' = Kept(ledger)
  PROVE  CInv'
  <1> DEFINE d == Completed(t, u, submit)
             n == task[t].node
             s == d[t].cs[n]
             r == [NewRow(n, t, {s.members[s.idx + 2]}) EXCEPT !.cs[n] = [s EXCEPT !.idx = s.idx + 1]]
  <1>1. IInv(HostNode) /\ last \in Nat
    BY DEF CInv, IInv, TypeOK
  <1>2. /\ Idle /\ Allowed(t, u) /\ task' = Appended(d, << r >>) /\ last' = last + 1
        /\ work' = work /\ SequentialGate(d, t, submit)
    BY DEF ExecuteNextMember, Executes
  <1>3. Evolves(HostNode, task', last') /\ IInv(HostNode)'
    BY <1>1, ExecuteNextMemberKeeps
  <1>4. HostsStay(d) /\ d[t].node = n
    BY <1>2, CompletedStays
  <1>5. r.parent = t
    BY DEF NewRow
  <1> HIDE DEF d, r
  <1>6. /\ \A i \in Id : task'[i] = d[i]
        /\ \A i \in last+1 .. last' : task'[i].parent = t
    BY <1>1, <1>2, <1>5, AppendedRow
  <1>7. HostsStay(task')
    BY <1>1, <1>4, <1>6, AppendHosts
  <1>8. n \notin HostNode
    BY <1>2, <1>4, HostFacts DEF SequentialGate
  <1>9. NewPlain(task', last')
    BY <1>1, <1>3, <1>6, <1>8, PlainBelow
  <1> QED
    BY <1>2, <1>3, <1>7, <1>9, IdleCInv

LEMMA ExecuteAddSignCInv ==
  ASSUME CInv, NEW t \in Id, NEW u \in User, NEW submit \in Submit, NEW ops \in Roster,
         gateDynamicCountersign(t), ExecuteAddSign(t, u, submit, ops), ledger' = Kept(ledger)
  PROVE  CInv'
  <1> DEFINE d == Completed(t, u, submit)
             n == task[t].node
             round == d[t].round[n] + 1
             len == Len(ops)
             row(k) == [NewRow(n, t, {ops[k]}) EXCEPT
                          !.scopes = buildScopes(n, t, last + k), !.round[n] = round]
             new == [k \in 1 .. len |-> row(k)]
  <1>1. IInv(HostNode) /\ last \in Nat /\ len \in Nat
    BY DEF CInv, IInv, TypeOK, Roster
  <1>2. /\ Idle /\ Allowed(t, u) /\ task' = Appended(d, new) /\ last' = last + len
        /\ work' = work /\ Props[n].addSign
    BY DEF ExecuteAddSign, Executes
  <1>3. Evolves(HostNode, task', last') /\ IInv(HostNode)'
    BY <1>1, ExecuteAddSignKeeps
  <1>4. HostsStay(d)
    BY <1>2, CompletedStays
  <1>5. Len(new) = len /\ \A k \in 1 .. len : new[k].parent = t
    <2>1. \A k \in 1 .. len : row(k).parent = t
      BY DEF NewRow
    <2>2. Len(new) = len /\ \A k \in 1 .. len : new[k] = row(k)
      <3> HIDE DEF row, len
      <3> QED
        BY <1>1
    <2> HIDE DEF new, row
    <2> QED
      BY <2>1, <2>2
  <1> HIDE DEF d, new, len, row, round
  <1>6. /\ \A i \in Id : task'[i] = d[i]
        /\ \A i \in last+1 .. last' : task'[i].parent = t
    BY <1>1, <1>2, <1>5, AppendedRows
  <1>7. HostsStay(task')
    BY <1>1, <1>4, <1>6, AppendHosts
  <1>8. n \notin HostNode
    BY <1>2, HostFacts
  <1>9. NewPlain(task', last')
    BY <1>1, <1>3, <1>6, <1>8, PlainBelow
  <1> QED
    BY <1>2, <1>3, <1>7, <1>9, IdleCInv

\* A member does not advance: its host is open at the same node.
LEMMA MemberWaits ==
  ASSUME CInv, NEW t \in Id, NEW u \in User, NEW submit \in Submit, Allowed(t, u),
         MemberIn(task, t)
  PROVE  GateHolds(Completed(t, u, submit), t, submit)
  <1> DEFINE d == Completed(t, u, submit)
             p == task[t].parent
  <1>1. IInv(HostNode) /\ Hosted(task, last) /\ task \in [Id -> Row]
    BY DEF CInv, Orderly, IInv, TypeOK
  <1>2. p \in Id /\ task[p].st = "DOING" /\ p # t /\ task[p].node = task[t].node
    <2>1. PendingIn(task, t)
      BY DEF PendingIn, Allowed
    <2>2. task[p].st = "DOING" /\ task[p].node = task[t].node /\ p # 0
      BY <1>1, <2>1 DEF Hosted, Id, MemberIn
    <2> QED
      BY <1>1, <2>2, Lineal
  <1>3. d \in [Id -> Row] /\ d[p] = task[p] /\ d[t].node = task[t].node
    <2>1. Settles(d)
      BY <1>1, CompletedSource
    <2>2. d[p] = task[p]
      BY <1>1, <1>2 DEF Completed
    <2> HIDE DEF d
    <2> QED
      BY <2>1, <2>2 DEF Settles
  <1> HIDE DEF d
  <1>4. p \in DoingAt(d, d[t].node)
    BY <1>2, <1>3 DEF DoingAt, DoingIn
  <1>5. AddSignGate(d[t].node)
    BY <1>3, HostFacts DEF MemberIn
  <1> QED
    BY <1>4, <1>5 DEF GateHolds, d

LEMMA ExecuteAdvanceCInv ==
  ASSUME CInv, NEW t \in Id, NEW u \in User, NEW submit \in Submit, NEW next \in Roster,
         gateDynamicCountersign(t), ExecuteAdvance(t, u, submit, next), ledger' = Kept(ledger)
  PROVE  CInv'
  <1> DEFINE d == Completed(t, u, submit)
             n == task[t].node
             c == [user |-> u, next |-> next, home |-> {}]
  <1>1. IInv(HostNode) /\ last \in Nat /\ task \in [Id -> Row]
    BY DEF CInv, IInv, TypeOK
  <1>2. /\ Allowed(t, u) /\ task' = AbandonRest(d, n) /\ last' = last
        /\ Run(Children(n, t), c) /\ ~ GateHolds(d, t, submit)
    BY DEF ExecuteAdvance, Executes
  <1>3. Evolves(HostNode, task', last') /\ IInv(HostNode)'
    BY <1>1, ExecuteAdvanceKeeps
  <1>4. ~ MemberIn(task, t)
    BY <1>2, MemberWaits
  <1>5. Settles(d) /\ HostsStay(d)
    BY <1>1, <1>2, CompletedSource, CompletedStays
  <1>6. n \in Node
    BY <1>1 DEF Row
  <1> HIDE DEF d, c
  <1>7. HostsStay(task')
    BY <1>1, <1>2, <1>5, DroppedStays DEF AbandonRest
  <1>8. ~ MemberIn(task', t) /\ task'[t].node = n
    BY <1>1, <1>3, <1>4, OldRows
  <1>9. AllComing(task', Children(n, t))
    BY <1>6, <1>8, HostChildrenComing
  <1> QED
    BY <1>2, <1>3, <1>7, <1>9, GoCInv

LEMMA executeReapplyCInv ==
  ASSUME CInv, NEW t \in Id, NEW u \in User, gateDynamicCountersign(t),
         executeReapply(t, u), ledger' = Kept(ledger)
  PROVE  CInv'
  <1> DEFINE d == Completed(t, u, "reapply")
             n == task[task[t].back.src].node
             r == [NewRow(n, t, FlowRange(Props[n].assignee)) EXCEPT
                     !.scopes = task[t].back.branch]
  <1>1. IInv(HostNode) /\ last \in Nat /\ "reapply" \in Submit
    BY DEF CInv, IInv, TypeOK, Submit
  <1>2. /\ Idle /\ Allowed(t, u) /\ task' = Appended(d, << r >>) /\ last' = last + 1
        /\ work' = work /\ task[t].node \in FirstTaskNode
    BY DEF executeReapply
  <1>3. Evolves(HostNode, task', last') /\ IInv(HostNode)'
    BY <1>1, executeReapplyKeeps
  <1>4. HostsStay(d)
    BY <1>1, <1>2, CompletedStays
  <1>5. r.parent = t
    BY DEF NewRow
  <1> HIDE DEF d, r
  <1>6. /\ \A i \in Id : task'[i] = d[i]
        /\ \A i \in last+1 .. last' : task'[i].parent = t
    BY <1>1, <1>2, <1>5, AppendedRow
  <1>7. HostsStay(task')
    BY <1>1, <1>4, <1>6, AppendHosts
  <1>8. task[t].node \notin HostNode
    BY <1>2, HostFacts
  <1>9. NewPlain(task', last')
    BY <1>1, <1>3, <1>6, <1>8, PlainBelow
  <1> QED
    BY <1>2, <1>3, <1>7, <1>9, IdleCInv

\* A command that drops what is open at its node and adds nothing.
LEMMA LeaveCInv ==
  ASSUME CInv, NEW t \in Id, NEW u \in User, NEW submit \in Submit, Allowed(t, u), Idle,
         gateDynamicCountersign(t), IInv(HostNode)', Evolves(HostNode, task', last'),
         task' = DropOpenAt(Completed(t, u, submit), task[t].node), last' = last,
         UNCHANGED work, ledger' = Kept(ledger)
  PROVE  CInv'
  <1>1. HostsStay(task')
    BY DropOpenStays
  <1>2. NewPlain(task', last')
    BY DEF NewPlain, CInv, IInv, TypeOK
  <1> QED
    BY <1>1, <1>2, IdleCInv

LEMMA ExecuteAndJumpToEndCInv ==
  ASSUME CInv, NEW t \in Id, NEW u \in User, gateDynamicCountersign(t),
         ExecuteAndJumpToEnd(t, u), ledger' = Kept(ledger)
  PROVE  CInv'
  <1>1. IInv(HostNode) /\ "reject" \in Submit
    BY DEF CInv, Submit
  <1>2. Evolves(HostNode, task', last') /\ IInv(HostNode)'
    BY <1>1, ExecuteAndJumpToEndKeeps
  <1> QED
    BY <1>1, <1>2, LeaveCInv DEF ExecuteAndJumpToEnd

LEMMA ReturnFailsCInv ==
  ASSUME CInv, NEW t \in Id, NEW u \in User, gateDynamicCountersign(t),
         ReturnFails(t, u), ledger' = Kept(ledger)
  PROVE  CInv'
  <1>1. IInv(HostNode) /\ "return" \in Submit
    BY DEF CInv, Submit
  <1>2. Evolves(HostNode, task', last') /\ IInv(HostNode)'
    BY <1>1, ReturnFailsKeeps
  <1> QED
    BY <1>1, <1>2, LeaveCInv DEF ReturnFails

\* The row a rollback repeats is not a member's: none can be reached from the
\* rows behind a member.
LEMMA rollbackToParentCInv ==
  ASSUME AsksAhead, CInv, NEW t \in Id, NEW u \in User, gateDynamicCountersign(t),
         rollbackToParent(t, u), ledger' = Kept(ledger)
  PROVE  CInv'
  <1> DEFINE d == Completed(t, u, "rollback")
             p == task[t].parent
             his == task[p]
             actor == IF his.node \in FirstTaskNode THEN his.owner ELSE his.by
             r == [NewRow(his.node, his.parent, {actor}) EXCEPT
                     !.owner = his.owner, !.scopes = his.scopes,
                     !.back = his.back, !.round = his.round]
  <1>1. IInv(HostNode) /\ last \in Nat /\ Placed(task, last) /\ "rollback" \in Submit
    BY DEF CInv, IInv, TypeOK, Orderly, Submit
  <1>2. /\ Idle /\ Allowed(t, u) /\ task' = Appended(d, << r >>) /\ last' = last + 1
        /\ work' = work /\ p # 0 /\ his.node \in CanReject[task[t].node]
    BY DEF rollbackToParent
  <1>3. Evolves(HostNode, task', last') /\ IInv(HostNode)'
    BY <1>1, AheadNoWayBack, rollbackToParentKeeps
  <1>4. HostsStay(d)
    BY <1>1, <1>2, CompletedStays
  <1>5. r.node = his.node /\ r.parent = his.parent
    BY DEF NewRow
  <1> HIDE DEF d, r
  <1>6. /\ \A i \in Id : task'[i] = d[i]
        /\ \A i \in last+1 .. last' : task'[i] = r
    BY <1>1, <1>2, AppendedRow
  <1>7. HostsStay(task')
    BY <1>1, <1>4, <1>6, AppendHosts
  <1>8. p \in Id /\ PlacedAt(task, t) /\ PlacedAt(task, p)
    BY <1>1, <1>2, Lineal DEF Placed, Id
  <1>9. ~ MemberIn(task, p)
    <2> SUFFICES ASSUME MemberIn(task, p) PROVE FALSE
      OBVIOUS
    <2>1. his.node \in HostNode
      BY DEF MemberIn
    <2>2. ~ MemberIn(task, t)
      BY <1>8 DEF PlacedAt
    <2>3. task[t].node \in Met(Landing)
      BY <1>2, <1>8, <2>1, <2>2 DEF PlacedAt, Arrives
    <2> QED
      BY <1>2, <2>1, <2>3 DEF AsksAhead
  <1>10. ~ MemberIn(task', p) /\ PlacedAt(task', p)
    BY <1>1, <1>3, <1>8, <1>9, OldPlaced, OldRows
  <1>11. task'[p].node = his.node /\ task'[p].parent = his.parent
    BY <1>1, <1>3, <1>8, OldRows
  <1>12. Arrives(task', his.node, his.parent)
    BY <1>10, <1>11 DEF PlacedAt
  <1>13. NewPlain(task', last')
    BY <1>5, <1>6, <1>12 DEF NewPlain
  <1> QED
    BY <1>2, <1>3, <1>7, <1>13, IdleCInv

LEMMA ExecuteAndJumpTaskCInv ==
  ASSUME CInv, NEW t \in Id, NEW u \in User, NEW target \in JumpTargets, NEW next \in Roster,
         gateDynamicCountersign(t), ExecuteAndJumpTask(t, u, target, next),
         ledger' = Kept(ledger)
  PROVE  CInv'
  <1> DEFINE d == Completed(t, u, "jump")
             w == <<[node |-> target, parent |-> t]>>
             c == [user |-> u, next |-> next,
                   home |-> {target} \cap FirstTaskNode \cap OfType(Flow, "task")]
  <1>1. IInv(HostNode) /\ "jump" \in Submit /\ target \in Node /\ target \in Landing
    BY InputAssumption DEF CInv, Submit, Landing
  <1>2. /\ Allowed(t, u) /\ task' = d /\ last' = last /\ Run(w, c)
    BY DEF ExecuteAndJumpTask
  <1>3. Evolves(HostNode, task', last') /\ IInv(HostNode)'
    BY <1>1, ExecuteAndJumpTaskKeeps
  <1>4. HostsStay(d) /\ d[t].submit = "jump"
    BY <1>1, <1>2, CompletedStays
  <1> HIDE DEF d, c
  <1>5. Coming(d, target, t)
    BY <1>1, <1>4, LandingComing
  <1>6. AllComing(d, w)
    BY <1>5 DEF AllComing
  <1> HIDE DEF w
  <1> QED
    BY <1>2, <1>3, <1>4, <1>6, GoCInv

LEMMA ExecuteAndJumpToFirstTaskNodeCInv ==
  ASSUME CInv, NEW t \in Id, NEW u \in User, gateDynamicCountersign(t),
         ExecuteAndJumpToFirstTaskNode(t, u), ledger' = Kept(ledger)
  PROVE  CInv'
  <1> DEFINE d == DropOpenAt(Completed(t, u, "return"), task[t].node)
             w(n) == <<[node |-> n, parent |-> t]>>
             c(n) == [user |-> u, next |-> << >>, home |-> {n}]
  <1>1. IInv(HostNode) /\ "return" \in Submit
    BY DEF CInv, Submit
  <1>2. Allowed(t, u) /\ task' = d /\ last' = last
    BY DEF ExecuteAndJumpToFirstTaskNode
  <1>3. Evolves(HostNode, task', last') /\ IInv(HostNode)'
    BY <1>1, ExecuteAndJumpToFirstTaskNodeKeeps
  <1>4. PICK n \in firstAfterStart(Flow, {"task", "custom"}) : Run(w(n), c(n))
    BY DEF ExecuteAndJumpToFirstTaskNode
  <1>5. HostsStay(d) /\ d[t].submit = "return"
    BY <1>1, <1>2, DropOpenStays
  <1> HIDE DEF d, c
  <1>6. Coming(d, n, t)
    <2>1. n \in Landing
      BY DEF Landing
    <2> QED
      BY <1>5, <2>1, LandingComing
  <1>7. AllComing(d, w(n))
    BY <1>6 DEF AllComing
  <1> HIDE DEF w
  <1> QED
    BY <1>2, <1>3, <1>4, <1>5, <1>7, GoCInv

LEMMA FirstTaskIsFirst ==
  ASSUME NEW types, NEW n \in firstAfterStart(Flow, types)
  PROVE  n \in FirstTaskNode
  <1>1. PICK i \in DOMAIN Flow.succ[startNode(Flow)] : n = Flow.succ[startNode(Flow)][i]
    BY DEF firstAfterStart
  <1>2. n \in outgoingTargets(Flow, startNode(Flow))
    BY <1>1 DEF outgoingTargets, FlowRange
  <1> QED
    BY <1>2, FirstAfterStartTyped, FlowAssumption DEF FirstTaskNode, isFirstTaskNode

\* The applicant's row lies behind the row that sent the form back, a member's
\* too, but at no node with a dynamic countersign.
LEMMA ReturnForChangeCInv ==
  ASSUME AsksAhead, CInv, NEW t \in Id, NEW u \in User, gateDynamicCountersign(t),
         ReturnForChange(t, u), ledger' = Kept(ledger)
  PROVE  CInv'
  <1> DEFINE d == DropOpenAt(Completed(t, u, "return"), task[t].node)
             row(n) == [NewRow(n, t, {Initiator}) EXCEPT
                          !.back = [src |-> t, branch |-> task[t].scopes]]
  <1>1. IInv(HostNode) /\ last \in Nat /\ "return" \in Submit
    BY DEF CInv, IInv, TypeOK, Submit
  <1>2. Idle /\ Allowed(t, u) /\ last' = last + 1 /\ work' = work
    BY DEF ReturnForChange
  <1>3. Evolves(HostNode, task', last') /\ IInv(HostNode)'
    BY <1>1, ReturnForChangeKeeps
  <1>4. PICK n \in firstAfterStart(Flow, {"task"}) : task' = Appended(d, << row(n) >>)
    BY DEF ReturnForChange
  <1>5. HostsStay(d) /\ d[t].submit = "return" /\ d[t].node = task[t].node
    BY <1>1, <1>2, DropOpenStays
  <1>6. row(n).node = n /\ row(n).parent = t
    BY DEF NewRow
  <1> HIDE DEF d, row
  <1>7. /\ \A i \in Id : task'[i] = d[i]
        /\ \A i \in last+1 .. last' : task'[i].node = n /\ task'[i].parent = t
    BY <1>1, <1>2, <1>4, <1>6, AppendedRow
  <1>8. HostsStay(task')
    BY <1>1, <1>5, <1>7, AppendHosts
  <1>9. n \in Landing /\ n \notin HostNode
    BY FirstTaskIsFirst, HostFacts DEF Landing
  <1>10. Arrives(task', n, t)
    BY <1>5, <1>7, <1>9, LandingTyped DEF Arrives
  <1>11. NewPlain(task', last')
    BY <1>7, <1>10 DEF NewPlain
  <1> QED
    BY <1>2, <1>3, <1>8, <1>11, IdleCInv

LEMMA StartProcessInstanceCInv ==
  ASSUME CInv, StartProcessInstance, ledger' = Kept(ledger)
  PROVE  CInv'
  <1> DEFINE w == Children(startNode(Flow), 0)
  <1>1. IInv(HostNode) /\ Hosted(task, last)
    BY DEF CInv, Orderly
  <1>2. Evolves(HostNode, task', last') /\ IInv(HostNode)'
    BY <1>1, StartProcessInstanceKeeps
  <1>3. PICK c : Run(w, c)
    BY DEF StartProcessInstance
  <1>4. task' = task /\ last' = last
    BY DEF StartProcessInstance
  <1>5. HostsStay(task')
    BY <1>1, <1>4, SameHosts
  <1>6. AllComing(task', w)
    <2>1. Len(Flow.succ[startNode(Flow)]) \in Nat
      BY StartTyped
    <2>2. /\ Len(w) = Len(Flow.succ[startNode(Flow)])
          /\ \A k \in 1 .. Len(Flow.succ[startNode(Flow)]) : w[k].parent = 0
      BY <2>1 DEF Children
    <2> HIDE DEF w
    <2> QED
      BY <2>2 DEF AllComing, Coming
  <1> HIDE DEF w
  <1> QED
    BY <1>2, <1>3, <1>4, <1>5, <1>6, GoCInv

LEMMA withdrawCInv ==
  ASSUME CInv, NEW u \in User, withdraw(u), ledger' = Kept(ledger)
  PROVE  CInv'
  <1>1. IInv(HostNode) /\ last \in Nat /\ task \in [Id -> Row]
    BY DEF CInv, IInv, TypeOK
  <1>2. Evolves(HostNode, task', last') /\ IInv(HostNode)'
    BY <1>1, withdrawKeeps
  <1>3. \A i \in Id : task'[i].st # "DOING"
    BY <1>1 DEF withdraw, DoingIn, Row
  <1>4. HostsStay(task')
    BY <1>3 DEF HostsStay
  <1>5. Idle /\ last' = last /\ work' = work
    BY DEF withdraw
  <1>6. NewPlain(task', last')
    BY <1>1, <1>5 DEF NewPlain
  <1> QED
    BY <1>2, <1>4, <1>5, <1>6, IdleCInv

-----------------------------------------------------------------------------
(* A recall. *)

\* What lies below a row that is taken back goes with its own members.
LEMMA RecallStays ==
  ASSUME CInv, NEW t \in Id
  PROVE  LET e == [i \in Id |-> IF i \in recallDescendants(t) \cap DoingIn(task)
                                THEN [task[i] EXCEPT !.st = "ABANDONED"] ELSE task[i]]
         IN  HostsStay(e)
  <1> DEFINE D == recallDescendants(t) \cap DoingIn(task)
             e == [i \in Id |-> IF i \in D THEN [task[i] EXCEPT !.st = "ABANDONED"] ELSE task[i]]
  <1>1. IInv(HostNode) /\ Hosted(task, last) /\ TypeOK /\ task \in [Id -> Row]
    BY DEF CInv, Orderly, IInv, TypeOK
  <1>2. D = Heirs(t) \cap DoingIn(task)
    BY <1>1, RecallHeirs
  <1>3. D \in SUBSET Id /\ \A i \in D : task[i].st = "DOING"
    BY <1>1 DEF DoingIn
  <1>4. \A i \in D : [task[i] EXCEPT !.st = "ABANDONED"].st = "ABANDONED"
    BY <1>1, <1>3 DEF Row
  <1> HIDE DEF D
  <1>5. /\ \A i \in D : e[i].st = "ABANDONED"
        /\ \A i \in Id \ D : e[i] = task[i]
    BY <1>3, <1>4
  <1>6. e = [i \in Id |-> IF i \in recallDescendants(t) \cap DoingIn(task)
                          THEN [task[i] EXCEPT !.st = "ABANDONED"] ELSE task[i]]
    BY DEF D
  <1> HIDE DEF e
  <1>7. HostsStay(e)
    <2> SUFFICES ASSUME NEW i \in Id, MemberIn(task, i), e[i].st = "DOING"
                 PROVE  e[task[i].parent].st = "DOING"
      BY DEF HostsStay
    <2>1. i \notin D /\ task[i].st = "DOING"
      BY <1>5
    <2>2. PendingIn(task, i)
      BY <2>1 DEF PendingIn
    <2>3. task[i].parent \in Id /\ task[task[i].parent].st = "DOING"
      BY <1>1, <2>2, Lineal DEF Hosted, Id, MemberIn
    <2>4. i \notin Heirs(t)
      BY <1>1, <1>2, <2>1 DEF DoingIn
    <2>5. task[i].parent \notin Heirs(t)
      BY <2>4, HeirsFixed
    <2> QED
      BY <1>2, <1>5, <2>3, <2>5
  <1> QED
    BY <1>6, <1>7

LEMMA RecallTaskCInv ==
  ASSUME AsksAhead, CInv, NEW t \in Id, NEW u \in User, RecallTask(t, u), ledger' = Kept(ledger)
  PROVE  CInv'
  <1> DEFINE e == [i \in Id |-> IF i \in recallDescendants(t) \cap DoingIn(task)
                                THEN [task[i] EXCEPT !.st = "ABANDONED"] ELSE task[i]]
             r == NewRow(task[t].node, task[t].parent, task[t].actors)
  <1>1. IInv(HostNode) /\ last \in Nat /\ Placed(task, last)
    BY DEF CInv, IInv, TypeOK, Orderly
  <1>2. Idle /\ task' = Appended(e, << r >>) /\ last' = last + 1 /\ work' = work
    BY DEF RecallTask
  <1>3. Evolves(HostNode, task', last') /\ IInv(HostNode)'
    BY <1>1, RecallTaskKeeps
  <1>4. task[t].node \notin HostNode
    BY DEF RecallTask, AsksAhead
  <1>5. HostsStay(e)
    BY RecallStays
  <1>6. r.node = task[t].node /\ r.parent = task[t].parent
    BY DEF NewRow
  <1> HIDE DEF e, r
  <1>7. /\ \A i \in Id : task'[i] = e[i]
        /\ \A i \in last+1 .. last' : task'[i] = r
    BY <1>1, <1>2, AppendedRow
  <1>8. HostsStay(task')
    BY <1>1, <1>5, <1>7, AppendHosts
  <1>9. PlacedAt(task', t)
    BY <1>1, <1>3, OldPlaced DEF Placed, Id
  <1>10. task'[t].node = task[t].node /\ task'[t].parent = task[t].parent /\ ~ MemberIn(task', t)
    BY <1>1, <1>3, <1>4, OldRows DEF MemberIn
  <1>11. Arrives(task', task[t].node, task[t].parent)
    BY <1>9, <1>10 DEF PlacedAt
  <1>12. NewPlain(task', last')
    BY <1>6, <1>7, <1>11 DEF NewPlain
  <1> QED
    BY <1>2, <1>3, <1>8, <1>12, IdleCInv

-----------------------------------------------------------------------------
(* The commands of the dynamic countersign. *)

LEMMA taskRevokeCountersignKeeps ==
  ASSUME IInv(HostNode), NEW h \in Id, NEW u \in User, taskRevokeCountersign(h, u)
  PROVE  /\ Evolves(HostNode, task', last') /\ IInv(HostNode)' /\ Idle
         /\ \A i \in Id : \/ task'[i] = task[i]
                          \/ MemberIn(task, i) /\ task'[i].st = "ABANDONED"
         /\ UNCHANGED <<state, last, ivars, ends, work, cmd, saved, ledger>>
         /\ \E i \in Id : task[i].st = "DOING"
  <1> DEFINE D == Revoked(h)
  <1>1. TypeOK /\ last \in Nat /\ task \in [Id -> Row]
    BY DEF IInv, TypeOK
  <1>2. /\ Idle /\ Collects(h) /\ D # {}
        /\ task' = [i \in Id |-> IF i \in D THEN [task[i] EXCEPT !.st = "ABANDONED"] ELSE task[i]]
        /\ UNCHANGED <<state, last, ivars, ends, work, cmd, saved, ledger>>
    BY DEF taskRevokeCountersign, Revoked
  <1>3. /\ D \in SUBSET Id /\ \A i \in D : task[i].st = "DOING"
        /\ \A i \in D : i # 0 /\ task[i].parent # 0 /\ task[task[i].parent].node = task[i].node
        /\ \A i \in D : task[i].parent = h
    BY <1>1 DEF Revoked, CollectPendingMembers, CollectMemberRows, IsCollectMemberRow, DoingIn, Id
  <1>4. \A i \in D : MemberIn(task, i)
    <2>1. task[h].node \in HostNode
      BY <1>1, <1>2, <1>3 DEF Collects, HostNode, OfType, Row, Node
    <2> QED
      BY <1>3, <2>1 DEF MemberIn
  <1>5. \A i \in D : [task[i] EXCEPT !.st = "ABANDONED"].st = "ABANDONED"
    BY <1>1, <1>3 DEF Row
  <1> HIDE DEF D
  <1>6. Settles(task')
    BY <1>1, <1>2, <1>3, Unsettled, DroppedSettles
  <1>7. Evolves(HostNode, task', last')
    BY <1>1, <1>2, <1>6, SettledEvolves
  <1>8. IInv(HostNode)'
    BY <1>1, <1>2, <1>7, CommandKeeps DEF TypeOK
  <1>9. \A i \in Id : \/ task'[i] = task[i]
                      \/ MemberIn(task, i) /\ task'[i].st = "ABANDONED"
    <2> SUFFICES ASSUME NEW i \in Id, i \in D
                 PROVE  MemberIn(task, i) /\ task'[i].st = "ABANDONED"
      BY <1>2
    <2>1. task'[i] = [task[i] EXCEPT !.st = "ABANDONED"]
      BY <1>2
    <2> QED
      BY <1>4, <1>5, <2>1
  <1>10. \E i \in Id : task[i].st = "DOING"
    BY <1>2, <1>3
  <1> QED
    BY <1>2, <1>7, <1>8, <1>9, <1>10 DEF D

\* Revoked members are nobody's hosts.
LEMMA taskRevokeCountersignCInv ==
  ASSUME CInv, NEW h \in Id, NEW u \in User, taskRevokeCountersign(h, u)
  PROVE  CInv'
  <1>1. /\ IInv(HostNode) /\ Hosted(task, last) /\ Placed(task, last) /\ Orderly(task, last, ledger)
        /\ ledger \in [Id -> Entry] /\ last \in Nat
    BY DEF CInv, IInv, TypeOK, Orderly
  <1>2. /\ Evolves(HostNode, task', last') /\ IInv(HostNode)' /\ Idle
        /\ \A i \in Id : \/ task'[i] = task[i]
                         \/ MemberIn(task, i) /\ task'[i].st = "ABANDONED"
        /\ last' = last /\ ledger' = ledger /\ work' = work
    BY <1>1, taskRevokeCountersignKeeps
  <1>3. HostsStay(task')
    <2> SUFFICES ASSUME NEW i \in Id, MemberIn(task, i), task'[i].st = "DOING"
                 PROVE  task'[task[i].parent].st = "DOING"
      BY DEF HostsStay
    <2>1. task[i].st = "DOING"
      BY <1>2
    <2>2. PendingIn(task, i)
      BY <2>1 DEF PendingIn
    <2>3. task[i].parent \in Id /\ task[task[i].parent].st = "DOING"
      BY <1>1, <2>2, Lineal DEF Hosted, Id, MemberIn
    <2>4. ~ MemberIn(task, task[i].parent)
      BY <1>1 DEF Placed, PlacedAt, Id
    <2> QED
      BY <1>2, <2>3, <2>4
  <1>4. NewPlain(task', last')
    BY <1>1, <1>2 DEF NewPlain
  <1>5. Orderly(task', last', ledger')
    BY <1>1, <1>2, <1>3, <1>4, EvolvesOrderly
  <1>6. AllComing(task', work') /\ work' = << >>
    BY <1>2 DEF Idle, AllComing
  <1>7. ledger' \in [1 .. last' -> Entry]
    BY <1>1, <1>2 DEF Id
  <1> QED
    BY <1>2, <1>5, <1>6, <1>7, CInvNext

\* e is the table of m rows, and l the ledger, after host h has asked.
Asked(h, e, m, l) ==
  /\ m \in Nat /\ last < m
  /\ \A i \in Id : e[i] = task[i]
  /\ \A i \in last+1 .. m :
       /\ e[i].node = task[h].node /\ e[i].parent = h /\ e[i].st = "DOING"
       /\ l[i].asked = 0 /\ l[i].round = ledger[h].asked + 1
       /\ \A k \in Id : PendingIn(task, k) /\ task[k].parent = h =>
            e[i].actors \cap task[k].actors = {}
       /\ \A k \in last+1 .. m : i # k => e[i].actors \cap e[k].actors = {}
  /\ l[h].asked = ledger[h].asked + 1
  /\ \A i \in Id : l[i].round = ledger[i].round
  /\ \A i \in Id \ {h} : l[i].asked = ledger[i].asked

LEMMA AskedRows ==
  ASSUME IInv(HostNode), NEW h \in Id, task[h].node \in HostNode, ~ MemberIn(task, h),
         NEW e, NEW m, NEW l, Asked(h, e, m, l)
  PROVE  /\ \A i \in Id : MemberIn(e, i) <=> MemberIn(task, i)
         /\ \A i \in Id : PendingIn(e, i) <=> PendingIn(task, i)
         /\ \A i \in last+1 .. m : MemberIn(e, i) /\ e[i].parent = h
         /\ \A i \in 1 .. m : i \in Id \/ i \in last+1 .. m
         /\ \A i \in Id : i \in 1 .. m
         /\ \A i \in last+1 .. m : i \in 1 .. m /\ i \notin Id
         /\ h # 0 /\ e[h] = task[h]
  <1>0. last \in Nat /\ m \in Nat /\ last < m /\ h \in Nat /\ h # 0
    BY Lineal DEF Asked, IInv, TypeOK
  <1>1. ASSUME NEW i \in Id PROVE MemberIn(e, i) <=> MemberIn(task, i)
    <2>1. e[i] = task[i]
      BY DEF Asked
    <2>2. task[i].parent # 0 => e[task[i].parent] = task[task[i].parent]
      BY Lineal DEF Asked
    <2> QED
      BY <2>1, <2>2 DEF MemberIn
  <1>2. ASSUME NEW i \in last+1 .. m PROVE MemberIn(e, i) /\ e[i].parent = h
    <2>1. e[i].node = task[h].node /\ e[i].parent = h /\ e[h] = task[h]
      BY DEF Asked
    <2> QED
      BY <1>0, <2>1 DEF MemberIn
  <1>3. \A i \in Id : PendingIn(e, i) <=> PendingIn(task, i)
    BY <1>1 DEF PendingIn, Asked
  <1>4. e[h] = task[h]
    BY DEF Asked
  <1> QED
    BY <1>0, <1>1, <1>2, <1>3, <1>4 DEF Id

LEMMA AskedPlaced ==
  ASSUME IInv(HostNode), Orderly(task, last, ledger),
         NEW h \in Id, task[h].node \in HostNode, ~ MemberIn(task, h), task[h].st = "DOING",
         NEW e, NEW m, Evolves(HostNode, e, m), NEW l, Asked(h, e, m, l)
  PROVE  Hosted(e, m) /\ Apart(e, m) /\ Placed(e, m)
  <1>0. /\ \A i \in Id : e[i] = task[i] /\ (PendingIn(e, i) <=> PendingIn(task, i))
        /\ \A i \in 1 .. m : i \in Id \/ i \in last+1 .. m
        /\ \A i \in last+1 .. m : MemberIn(e, i) /\ e[i].parent = h
        /\ ~ MemberIn(e, h) /\ e[h] = task[h]
    <2>1. \A i \in Id : e[i] = task[i]
      BY DEF Asked
    <2> QED
      BY <2>1, AskedRows
  <1>1. Hosted(e, m)
    <2> SUFFICES ASSUME NEW i \in 1 .. m, PendingIn(e, i) PROVE e[e[i].parent].st = "DOING"
      BY DEF Hosted
    <2>1. CASE i \in Id
      <3>1. PendingIn(task, i) /\ e[i] = task[i]
        BY <1>0, <2>1
      <3>2. task[i].parent \in Id /\ task[task[i].parent].st = "DOING"
        BY <3>1, <2>1, Lineal DEF Orderly, Hosted, Id, PendingIn, MemberIn
      <3> QED
        BY <1>0, <3>1, <3>2
    <2>2. CASE i \in last+1 .. m
      BY <1>0, <2>2
    <2> QED
      BY <1>0, <2>1, <2>2
  <1>2. Apart(e, m)
    <2> SUFFICES ASSUME NEW i \in 1 .. m, NEW k \in 1 .. m, PendingIn(e, i), PendingIn(e, k),
                        e[i].parent = e[k].parent, i # k
                 PROVE  e[i].actors \cap e[k].actors = {}
      BY DEF Apart
    <2>1. CASE i \in Id /\ k \in Id
      <3>1. /\ PendingIn(task, i) /\ PendingIn(task, k)
            /\ e[i] = task[i] /\ e[k] = task[k]
        BY <1>0, <2>1
      <3> QED
        BY <2>1, <3>1 DEF Orderly, Apart, Id
    <2>2. ASSUME NEW a \in last+1 .. m, NEW b \in Id, PendingIn(e, b), e[a].parent = e[b].parent
          PROVE  e[a].actors \cap e[b].actors = {}
      <3>1. PendingIn(task, b) /\ e[b] = task[b] /\ task[b].parent = h
        BY <1>0, <2>2
      <3> QED
        BY <3>1 DEF Asked
    <2>3. CASE i \in last+1 .. m /\ k \in last+1 .. m
      BY <2>3 DEF Asked
    <2> QED
      BY <1>0, <2>1, <2>2, <2>3
  <1>3. Placed(e, m)
    <2> SUFFICES ASSUME NEW i \in 1 .. m PROVE PlacedAt(e, i)
      BY DEF Placed
    <2>1. CASE i \in Id
      BY <2>1, OldPlaced DEF Orderly, Placed, Id
    <2>2. CASE i \in last+1 .. m
      BY <1>0, <2>2 DEF PlacedAt
    <2> QED
      BY <1>0, <2>1, <2>2
  <1> QED
    BY <1>1, <1>2, <1>3

\* A round is numbered one after the last.
LEMMA AskedNumbered ==
  ASSUME IInv(HostNode), Orderly(task, last, ledger), ledger \in [Id -> Entry],
         NEW h \in Id, task[h].node \in HostNode, ~ MemberIn(task, h),
         NEW e, NEW m, NEW l, Asked(h, e, m, l)
  PROVE  Numbered(e, m, l)
  <1>0. last \in Nat /\ m \in Nat /\ last < m /\ ledger[h].asked \in Nat
    BY DEF Asked, IInv, TypeOK, Entry
  <1>3. /\ \A i \in Id : e[i] = task[i] /\ l[i].round = ledger[i].round /\ i \in 1 .. m
        /\ \A i \in Id : MemberIn(e, i) <=> MemberIn(task, i)
        /\ \A i \in 1 .. m : i \in Id \/ i \in last+1 .. m
        /\ \A i \in last+1 .. m : i \in 1 .. m /\ MemberIn(e, i) /\ e[i].parent = h
        /\ \A i \in last+1 .. m : l[i].round = ledger[h].asked + 1
    <2>1. /\ \A i \in Id : e[i] = task[i] /\ l[i].round = ledger[i].round
          /\ \A i \in last+1 .. m : l[i].round = ledger[h].asked + 1
      BY DEF Asked
    <2> QED
      BY <2>1, AskedRows
  <1> DEFINE Of(d, n, g) == { i \in 1 .. n : d[i].parent = g /\ MemberIn(d, i) }
  <1>1. ASSUME NEW i \in 1 .. m, MemberIn(e, i) PROVE l[i].round > 0
    <2>1. CASE i \in Id
      BY <1>1, <1>3, <2>1 DEF Orderly, Numbered, Id
    <2>2. CASE i \in last+1 .. m
      BY <1>0, <1>3, <2>2
    <2> QED
      BY <1>3, <2>1, <2>2
  <1>2. ASSUME NEW g \in 1 .. m, e[g].node \in HostNode, ~ MemberIn(e, g)
        PROVE  Rounds(e, m, l, g) = 1 .. l[g].asked
    <2>1. g \in Id
      BY <1>2, <1>3
    <2>2. task[g].node \in HostNode /\ ~ MemberIn(task, g)
      BY <1>2, <1>3, <2>1
    <2>3. Rounds(task, last, ledger, g) = 1 .. ledger[g].asked
      BY <2>1, <2>2 DEF Orderly, Numbered, Id
    <2>4. \A i \in Id : i \in Of(e, m, g) <=> i \in Of(task, last, g)
      BY <1>3 DEF Id
    <2>5. \A i \in last+1 .. m : i \in Of(e, m, g) <=> g = h
      BY <1>3
    <2>6. Of(task, last, g) \subseteq Id /\ \A i \in Of(e, m, g) : i \in Id \/ i \in last+1 .. m
      BY <1>3 DEF Id
    <2>7. /\ Rounds(e, m, l, g) = { l[i].round : i \in Of(e, m, g) }
          /\ Rounds(task, last, ledger, g) = { ledger[i].round : i \in Of(task, last, g) }
      BY DEF Rounds
    <2>8. /\ \A i \in Id : l[i].round = ledger[i].round
          /\ \A i \in last+1 .. m : l[i].round = ledger[h].asked + 1
          /\ last+1 \in last+1 .. m
      BY <1>0, <1>3
    <2> HIDE DEF Of
    <2>9. CASE g = h
      <3>1. Rounds(e, m, l, g) = Rounds(task, last, ledger, g) \cup {ledger[h].asked + 1}
        <4>1. ASSUME NEW x \in Rounds(e, m, l, g)
              PROVE  x \in Rounds(task, last, ledger, g) \cup {ledger[h].asked + 1}
          <5>1. PICK i \in Of(e, m, g) : x = l[i].round
            BY <2>7
          <5> QED
            BY <2>4, <2>6, <2>7, <2>8, <5>1
        <4>2. ASSUME NEW x \in Rounds(task, last, ledger, g) PROVE x \in Rounds(e, m, l, g)
          <5>1. PICK i \in Of(task, last, g) : x = ledger[i].round
            BY <2>7
          <5> QED
            BY <2>4, <2>6, <2>7, <2>8, <5>1
        <4>3. ledger[h].asked + 1 \in Rounds(e, m, l, g)
          BY <2>5, <2>7, <2>8, <2>9
        <4> QED
          BY <4>1, <4>2, <4>3
      <3>2. l[g].asked = ledger[h].asked + 1
        BY <2>9 DEF Asked
      <3> QED
        BY <1>0, <2>3, <2>9, <3>1, <3>2
    <2>10. CASE g # h
      <3>1. Of(e, m, g) = Of(task, last, g)
        BY <2>4, <2>5, <2>6, <2>10
      <3>2. Rounds(e, m, l, g) = Rounds(task, last, ledger, g)
        BY <2>6, <2>7, <2>8, <3>1
      <3>3. l[g].asked = ledger[g].asked
        BY <2>1, <2>10 DEF Asked
      <3> QED
        BY <2>3, <3>2, <3>3
    <2> QED
      BY <2>9, <2>10
  <1> QED
    BY <1>1, <1>2 DEF Numbered

LEMMA HostPlain ==
  ASSUME IInv(HostNode), NEW h \in Id, Collects(h), ~ IsCollectMemberRow(h)
  PROVE  task[h].node \in HostNode /\ ~ MemberIn(task, h)
  <1>1. task[h].node \in Node
    BY DEF IInv, TypeOK, Row
  <1>2. task[h].node \in HostNode
    BY <1>1 DEF Collects, HostNode, OfType, Node
  <1> QED
    BY <1>2 DEF IsCollectMemberRow, MemberIn

LEMMA MemberPending ==
  ASSUME IInv(HostNode), NEW h \in Id, NEW i \in Id, PendingIn(task, i), task[i].parent = h
  PROVE  i \in CollectPendingMembers(h)
  BY DEF IInv, TypeOK, PendingIn, MemberIn, CollectPendingMembers, CollectMemberRows,
         IsCollectMemberRow, DoingIn

LEMMA tryDynamicCountersignKeeps ==
  ASSUME IInv(HostNode), NEW h \in Id, NEW u \in User, NEW ops \in SignOps,
         tryDynamicCountersign(h, u, ops)
  PROVE  /\ task[h].node \in HostNode /\ ~ MemberIn(task, h) /\ task[h].st = "DOING" /\ Idle
         /\ Evolves(HostNode, task', last') /\ IInv(HostNode)'
         /\ \A i \in Id : task'[i] = task[i]
         /\ Len(ops) \in Nat \ {0} /\ last' = last + Len(ops)
         /\ \A x \in last+1 .. last' :
              /\ x - last \in 1 .. Len(ops) /\ task'[x].actors = {ops[x - last]}
              /\ task'[x].node = task[h].node /\ task'[x].parent = h /\ task'[x].st = "DOING"
              /\ task'[x].back = NoBack /\ task'[x].scopes = buildScopes(task[h].node, h, x)
         /\ \A a, b \in 1 .. Len(ops) : a # b => ops[a] # ops[b]
         /\ UNCHANGED <<state, ivars, ends, work, cmd, saved>>
  <1> DEFINE n == task[h].node
             len == Len(ops)
             row(k) == [NewRow(n, h, {ops[k]}) EXCEPT !.scopes = buildScopes(n, h, last + k)]
             new == [k \in 1 .. len |-> row(k)]
  <1>1. TypeOK /\ last \in Nat /\ h \in 1 .. last
    BY DEF IInv, TypeOK, Id
  <1>2. /\ Idle /\ task[h].st = "DOING" /\ ops # << >>
        /\ task' = Appended(task, new) /\ last' = last + len
        /\ UNCHANGED <<state, ivars, ends, work, cmd, saved>>
    BY DEF tryDynamicCountersign, Allowed
  <1>3. n \in HostNode /\ ~ MemberIn(task, h)
    BY <1>1, HostPlain DEF tryDynamicCountersign
  <1>4. /\ len \in Nat /\ len > 0 /\ ops \in Seq(User)
        /\ \A k \in 1 .. len : ops[k] \in User
        /\ \A a, b \in 1 .. len : a # b => ops[a] # ops[b]
    <2>1. ops \in Seq(User)
      BY InputAssumption DEF Roster
    <2>2. \A a, b \in DOMAIN ops : ops[a] = ops[b] => a = b
      BY SignOpsAssumption
    <2> QED
      BY <1>2, <2>1, <2>2
  <1>5. ASSUME NEW k \in 1 .. len
        PROVE  /\ row(k) \in Row /\ row(k).node = n /\ row(k).parent = h /\ row(k).st = "DOING"
               /\ row(k).actors = {ops[k]} /\ row(k).back = NoBack
               /\ row(k).scopes = buildScopes(n, h, last + k)
               /\ \A j \in Join :
                    \/ Known(task, j, row(k).scopes[j])
                    \/ row(k).scopes[j].root = last + k /\ row(k).scopes[j].round < last + k
    <2>0. /\ last + k \in Nat /\ last < last + k /\ h \in Nat /\ h \in 0 .. last /\ n \in Node
          /\ {ops[k]} \in SUBSET User /\ Settles(task)
      <3>1. n \in Node
        BY <1>3, HostFacts
      <3>2. {ops[k]} \in SUBSET User
        BY <1>4
      <3>3. Settles(task)
        BY <1>1, Unsettled
      <3>4. last + k \in Nat /\ last < last + k /\ h \in Nat /\ h \in 0 .. last
        BY <1>1, <1>4
      <3> QED
        BY <3>1, <3>2, <3>3, <3>4
    <2>1. /\ buildScopes(n, h, last + k) \in [Join -> Scope]
          /\ \A j \in Join :
               \/ Known(task, j, buildScopes(n, h, last + k)[j])
               \/ /\ buildScopes(n, h, last + k)[j].root = last + k
                  /\ buildScopes(n, h, last + k)[j].round < last + k
      BY <1>1, <2>0, buildScopesFresh
    <2>2. NewRow(n, h, {ops[k]}) \in Row
      BY <2>0, NewRowTyped
    <2>3. /\ row(k) \in Row /\ row(k).node = n /\ row(k).parent = h /\ row(k).st = "DOING"
          /\ row(k).actors = {ops[k]} /\ row(k).back = NoBack
          /\ row(k).scopes = buildScopes(n, h, last + k)
      <3> HIDE DEF n
      <3> QED
        BY <2>1, <2>2 DEF NewRow, Row
    <2> HIDE DEF row, n
    <2> QED
      BY <2>1, <2>3
  <1>6. DOMAIN new = 1 .. len /\ Len(new) = len /\ \A k \in 1 .. len : new[k] = row(k)
    BY <1>4
  <1>7. ASSUME NEW k \in 1 .. len PROVE Fresh(HostNode, task, new[k], last + k)
    <2> HIDE DEF row
    <2>0. row(k).node = n /\ row(k).parent = h /\ h \in 0 .. last
      BY <1>1, <1>5
    <2>1. row(k).parent \in 0 .. last /\ Below(HostNode, task, row(k))
      BY <1>3, <2>0 DEF Below
    <2>2. Fresh(HostNode, task, row(k), last + k)
      BY <1>1, <1>5, <2>1, FreshBelow
    <2> QED
      BY <1>6, <2>2
  <1> HIDE DEF new, row, len, n
  <1>8. Evolves(HostNode, task', last')
    BY <1>1, <1>2, <1>4, <1>6, <1>7, Unsettled, AppendEvolves
  <1>9. IInv(HostNode)'
    BY <1>1, <1>2, <1>8, CommandKeeps DEF TypeOK
  <1>10. /\ \A i \in Id : task'[i] = task[i]
         /\ \A x \in last+1 .. last' : x - last \in 1 .. len /\ task'[x] = new[x - last]
    <2>1. last \in Nat /\ len \in Nat /\ Len(new) = len
      BY <1>1, <1>4, <1>6
    <2>2. task' = Appended(task, new) /\ last' = last + len
      BY <1>2, <1>6
    <2>3. /\ \A i \in Id : Appended(task, new)[i] = task[i]
          /\ \A x \in last+1 .. last+len :
               x - last \in 1 .. len /\ Appended(task, new)[x] = new[x - last]
      BY <2>1, AppendedRows
    <2> QED
      BY <2>2, <2>3
  <1>11. ASSUME NEW x \in last+1 .. last'
         PROVE  /\ x - last \in 1 .. len /\ task'[x].actors = {ops[x - last]}
                /\ task'[x].node = n /\ task'[x].parent = h /\ task'[x].st = "DOING"
                /\ task'[x].back = NoBack /\ task'[x].scopes = buildScopes(n, h, x)
    <2>1. last + (x - last) = x /\ x - last \in 1 .. len /\ task'[x] = row(x - last)
      BY <1>1, <1>6, <1>10
    <2> QED
      BY <1>5, <2>1
  <1> QED
    BY <1>2, <1>3, <1>4, <1>8, <1>9, <1>10, <1>11 DEF n, len

LEMMA tryDynamicCountersignCInv ==
  ASSUME CInv, NEW h \in Id, NEW u \in User, NEW ops \in SignOps, tryDynamicCountersign(h, u, ops)
  PROVE  CInv'
  <1> DEFINE len == Len(ops)
  <1>1. /\ IInv(HostNode) /\ TypeOK /\ last \in Nat /\ h \in 1 .. last
        /\ Orderly(task, last, ledger) /\ ledger \in [Id -> Entry]
    BY DEF CInv, IInv, TypeOK, Id
  <1>2. /\ task[h].node \in HostNode /\ ~ MemberIn(task, h) /\ task[h].st = "DOING" /\ Idle
        /\ Evolves(HostNode, task', last') /\ IInv(HostNode)' /\ work' = work
        /\ \A i \in Id : task'[i] = task[i]
        /\ len \in Nat /\ len > 0 /\ last' = last + len
    BY <1>1, tryDynamicCountersignKeeps
  <1>3. /\ \A x \in last+1 .. last' :
              /\ x - last \in 1 .. len /\ task'[x].actors = {ops[x - last]}
              /\ task'[x].node = task[h].node /\ task'[x].parent = h /\ task'[x].st = "DOING"
        /\ \A a, b \in 1 .. len : a # b => ops[a] # ops[b]
    BY <1>1, tryDynamicCountersignKeeps
  <1>4. /\ ledger' = [i \in 1 .. last + len |->
                        IF i > last THEN [asked |-> 0, round |-> NextRound(h)]
                        ELSE IF i = h THEN [ledger[h] EXCEPT !.asked = NextRound(h)]
                        ELSE ledger[i]]
        /\ ~ Duplicate(h, ops)
    BY DEF tryDynamicCountersign
  <1> HIDE DEF len
  <1>5. Asked(h, task', last', ledger')
    <2>2. /\ \A i \in last+1 .. last' : ledger'[i] = [asked |-> 0, round |-> NextRound(h)]
          /\ ledger'[h] = [ledger[h] EXCEPT !.asked = NextRound(h)]
          /\ \A i \in Id \ {h} : ledger'[i] = ledger[i]
      BY <1>1, <1>2, <1>4 DEF Id
    <2>3. ledger[h] \in Entry /\ NextRound(h) = ledger[h].asked + 1
      BY <1>1 DEF NextRound
    <2>4. ledger'[h].asked = NextRound(h) /\ ledger'[h].round = ledger[h].round
      BY <2>2, <2>3 DEF Entry
    <2>5. \A i \in Id : ledger'[i].round = ledger[i].round
      BY <2>2, <2>4
    <2>6. \A i \in last+1 .. last' : ledger'[i].asked = 0 /\ ledger'[i].round = NextRound(h)
      BY <2>2
    <2>7. ASSUME NEW i \in last+1 .. last', NEW k \in Id, PendingIn(task, k), task[k].parent = h
          PROVE  task'[i].actors \cap task[k].actors = {}
      <3>1. k \in CollectPendingMembers(h)
        BY <1>1, <2>7, MemberPending
      <3>2. task'[i].actors = {ops[i - last]} /\ i - last \in 1 .. len
        BY <1>3
      <3>3. ops[i - last] \in FlowRange(ops)
        BY <3>2 DEF FlowRange, len
      <3> QED
        BY <1>4, <3>1, <3>2, <3>3 DEF Duplicate
    <2>8. ASSUME NEW i \in last+1 .. last', NEW k \in last+1 .. last', i # k
          PROVE  task'[i].actors \cap task'[k].actors = {}
      <3>1. /\ task'[i].actors = {ops[i - last]} /\ i - last \in 1 .. len
            /\ task'[k].actors = {ops[k - last]} /\ k - last \in 1 .. len
        BY <1>3
      <3>2. i - last # k - last
        BY <1>1, <1>2, <2>8
      <3>3. ops[i - last] # ops[k - last]
        BY <1>3, <3>1, <3>2
      <3> QED
        BY <3>1, <3>3
    <2>9. last' \in Nat /\ last < last'
      BY <1>1, <1>2
    <2> QED
      BY <1>2, <1>3, <2>2, <2>3, <2>4, <2>5, <2>6, <2>7, <2>8, <2>9 DEF Asked
  <1>6. Orderly(task', last', ledger')
    BY <1>1, <1>2, <1>5, AskedPlaced, AskedNumbered DEF Orderly
  <1>7. ledger' \in [1 .. last' -> Entry]
    <2>1. NextRound(h) \in Nat
      BY <1>1 DEF NextRound, Entry, Id
    <2>2. /\ [asked |-> 0, round |-> NextRound(h)] \in Entry
          /\ [ledger[h] EXCEPT !.asked = NextRound(h)] \in Entry
      BY <1>1, <2>1 DEF Entry, Id
    <2>3. \A i \in 1 .. last + len : ~ i > last => ledger[i] \in Entry
      BY <1>1, <1>2 DEF Id
    <2> QED
      BY <1>2, <1>4, <2>2, <2>3
  <1>8. AllComing(task', work') /\ work' = << >>
    BY <1>2 DEF Idle, AllComing
  <1> QED
    BY <1>2, <1>6, <1>7, <1>8, CInvNext

-----------------------------------------------------------------------------
(* Any two tokens stay apart beside the dynamic countersign, as beside the   *)
(* engine's commands: the members share the seat of their host.              *)

\* Revoking settles rows and nothing else.
LEMMA taskRevokeCountersignSHost ==
  ASSUME SInv(HostNode), NEW h \in Id, NEW u \in User, taskRevokeCountersign(h, u)
  PROVE  SInv(HostNode)'
  <1>1. JInv(HostNode) /\ IInv(HostNode)
    BY DEF SInv, JInv
  <1>2. /\ Evolves(HostNode, task', last') /\ IInv(HostNode)' /\ Idle
        /\ UNCHANGED <<state, last, work, saved>>
        /\ \E i \in Id : task[i].st = "DOING"
    BY <1>1, taskRevokeCountersignKeeps
  <1>3. state # "DONE" /\ state # "NONE"
    BY <1>1, <1>2, CommandRow DEF SInv, Sorted, Over, IsOpen, Id
  <1>4. JInv(HostNode)'
    BY <1>1, <1>2, <1>3, SettleJInv
  <1> QED
    BY <1>2, <1>3, <1>4, SettleSInv

\* A host is nobody's applicant, and has the scopes of every range it lies in:
\* a member has the seat of its host.
LEMMA MemberSeat ==
  ASSUME TokensApart, SInv(HostNode), NEW h \in Id, task[h].node \in HostNode,
         NEW x \in Nat \ {0}, NEW y, y.back = NoBack, y.scopes = buildScopes(task[h].node, h, x)
  PROVE  /\ \A j \in Join : y.scopes[j].root = task[h].scopes[j].root
         /\ \A j \in Join : task[h].scopes[j].root # 0 =>
              j \in ScopesOfNode[task[h].node] /\ y.scopes[j] = task[h].scopes[j]
         /\ \A j \in Join : task[h].back.branch[j].root = 0 /\ y.back.branch[j].root = 0
         /\ Seat(task[h]) = task[h].scopes /\ Seat(y) = y.scopes
  <1> DEFINE n == task[h].node
  <1>0. n \in Shared /\ n \notin FirstTaskNode /\ Flow.type[n] = "task"
    <2>1. Flow.type[n] = "task" /\ n \notin FirstTaskNode /\ AddSignGate(n) /\ n \in Node
      BY HostFacts
    <2> QED
      BY <2>1 DEF Shared, OfType, Node
  <1>1. JInv(HostNode) /\ Seated(task, task[h]) /\ h # 0
    BY CommandRow DEF SInv, Sorted, AllSeated, Id
  <1>2. task[h].back.src = 0
    BY <1>0, <1>1 DEF Seated
  <1>3. \A j \in Join : task[h].back.branch[j].root = 0
    BY <1>1, <1>2, RowFacts
  <1>4. y.back.src = 0 /\ \A j \in Join : y.back.branch[j].root = 0
    BY DEF NoBack, NoScopes, NoScope
  <1>5. ASSUME NEW j \in Join
        PROVE  /\ y.scopes[j].root = task[h].scopes[j].root
               /\ task[h].scopes[j].root # 0 =>
                    j \in ScopesOfNode[n] /\ y.scopes[j] = task[h].scopes[j]
    <2>1. y.scopes[j] = IF j \notin ScopesOfNode[n] THEN NoScope
                        ELSE IF h # 0 /\ task[h].scopes[j].root # 0 THEN task[h].scopes[j]
                        ELSE [round |-> h, root |-> x]
      BY DEF buildScopes
    <2>2. task[h].scopes[j].root # 0 <=> j \in ScopesOfNode[n]
      BY <1>0, <1>1, RowFacts DEF Seated
    <2> QED
      BY <1>1, <2>1, <2>2 DEF NoScope
  <1> QED
    BY <1>2, <1>3, <1>4, <1>5 DEF Seat

\* Members come into no round that their host is not in, and none starts at it.
LEMMA tryDynamicCountersignJHost ==
  ASSUME TokensApart, SInv(HostNode), NEW h \in Id, NEW u \in User, NEW ops \in SignOps,
         tryDynamicCountersign(h, u, ops)
  PROVE  JInv(HostNode)'
  <1> DEFINE n == task[h].node
  <1>1. JInv(HostNode) /\ IInv(HostNode) /\ last \in Nat /\ h \in 0 .. last /\ h # 0
    BY CommandRow DEF SInv
  <1>2. /\ n \in HostNode /\ task[h].st = "DOING" /\ Idle
        /\ Evolves(HostNode, task', last') /\ IInv(HostNode)'
        /\ UNCHANGED <<state, work, saved>>
        /\ \A x \in last+1 .. last' :
              /\ task'[x].node = n /\ task'[x].parent = h
              /\ task'[x].back = NoBack /\ task'[x].scopes = buildScopes(n, h, x)
    BY <1>1, tryDynamicCountersignKeeps
  <1>3. Grows(HostNode, h)
    BY <1>1, <1>2 DEF Grows
  <1> HIDE DEF n
  <1>4. ASSUME NEW x \in last+1 .. last'
        PROVE  /\ Suits(task', task'[x])
               /\ \A j \in Join : \A k :
                    /\ Lies(task'[x], j, k) => Lies(task[h], j, k)
                    /\ ~ (InRound(task, h, j, k) /\ Beyond(n, j))
    <2> DEFINE y == task'[x]
    <2>0. y.node = n /\ y.parent = h /\ y.back = NoBack /\ y.back.src = 0 /\ x \in Nat \ {0}
      BY <1>1, <1>2 DEF NoBack
    <2>1. /\ \A j \in Join : y.scopes[j].root = task[h].scopes[j].root
          /\ \A j \in Join : task[h].scopes[j].root # 0 =>
               j \in ScopesOfNode[n] /\ y.scopes[j] = task[h].scopes[j]
          /\ \A j \in Join : task[h].back.branch[j].root = 0 /\ y.back.branch[j].root = 0
      BY <1>2, <2>0, MemberSeat DEF n
    <2> HIDE DEF y
    <2>2. Asks(y)
      <3>1. Asks(task[h])
        BY <1>1, CommandRow
      <3> QED
        BY <1>2, <2>0, <3>1, HostFacts DEF Asks
    <2>3. ASSUME NEW j \in Join, y.scopes[j].root # 0, y.scopes[j].round # 0
          PROVE  Handled(task'[y.scopes[j].round])
      BY <1>1, <1>2, <2>1, <2>3, RoundHandled
    <2>4. Suits(task', y)
      <3>1. y.parent \in 0 .. last /\ y.back.src \in 0 .. last
        BY <1>1, <2>0
      <3> QED
        BY <1>1, <1>2, <2>0, <2>1, <2>2, <2>3, <3>1, NewSuits
    <2>5. ASSUME NEW j \in Join, NEW k
          PROVE  /\ Lies(y, j, k) => Lies(task[h], j, k)
                 /\ ~ (InRound(task, h, j, k) /\ Beyond(n, j))
      BY <2>1, <2>5 DEF Lies, InRound, Beyond
    <2> QED
      BY <2>4, <2>5 DEF y
  <1> QED
    BY <1>1, <1>2, <1>3, <1>4, RowsJInv

\* Whoever keeps clear of a host keeps clear of its members.
LEMMA tryDynamicCountersignSHost ==
  ASSUME TokensApart, SInv(HostNode), NEW h \in Id, NEW u \in User, NEW ops \in SignOps,
         tryDynamicCountersign(h, u, ops)
  PROVE  SInv(HostNode)'
  <1> DEFINE n == task[h].node
  <1>1. /\ JInv(HostNode) /\ IInv(HostNode) /\ last \in Nat /\ h \in 1 .. last /\ h # 0
        /\ Alone(task, last)
    BY CommandRow DEF SInv, Sorted
  <1>2. /\ n \in HostNode /\ IsOpen(task, h) /\ Idle
        /\ Evolves(HostNode, task', last')
        /\ UNCHANGED <<state, work, saved>>
        /\ \A i \in Id : task'[i] = task[i]
        /\ \A x \in last+1 .. last' :
              /\ task'[x].node = n /\ task'[x].parent = h
              /\ task'[x].back = NoBack /\ task'[x].scopes = buildScopes(n, h, x)
    BY <1>1, tryDynamicCountersignKeeps DEF IsOpen
  <1>3. JInv(HostNode)'
    BY tryDynamicCountersignJHost
  <1>4. state' # "DONE"
    BY <1>1, <1>2 DEF SInv, Sorted, Over
  <1>5. n \in Shared /\ n \in Node
    BY <1>2, HostFacts DEF Shared, OfType, Node
  <1> HIDE DEF n
  <1>6. ASSUME NEW x \in last+1 .. last'
        PROVE  Seated(task', task'[x]) /\ Guest(task', task'[x]) /\ task'[x].node = n
    <2> DEFINE y == task'[x]
    <2>1. /\ x \in Nat \ {0} /\ y.node = n /\ y.back = NoBack /\ y.scopes = buildScopes(n, h, x)
          /\ y.parent = h /\ task'[h].node = n
      BY <1>1, <1>2 DEF n, Id
    <2> HIDE DEF y
    <2>2. Seated(task', y) /\ Guest(task', y)
      BY <1>1, <2>1, BuiltSeated DEF Guest
    <2> QED
      BY <2>1, <2>2 DEF y
  <1>7. ASSUME NEW x \in last+1 .. last', NEW i \in Id, IsOpen(task', i)
        PROVE  Clear(task', task[i], task'[x])
    <2>1. CASE task[i].node = n
      BY <1>5, <1>6, <2>1 DEF Clear, Fellows
    <2>2. CASE task[i].node # n
      <3> DEFINE y == task'[x]
      <3>1. x \in Nat \ {0} /\ y.back = NoBack /\ y.scopes = buildScopes(n, h, x)
        BY <1>1, <1>2
      <3> HIDE DEF y
      <3>2. Clear(task, task[i], task[h]) /\ ~ Fellows(task, task[i], task[h])
        BY <1>1, <1>2, <1>7, <2>2 DEF Alone, Fellows, IsOpen, n, Id
      <3>3. \A j \in Join : Seat(task[h])[j].root # 0 => Seat(y)[j] = Seat(task[h])[j]
        BY <1>2, <3>1, MemberSeat DEF n
      <3> QED
        BY <3>2, <3>3, HeirClear DEF y
    <2> QED
      BY <2>1, <2>2
  <1>8. NewSeated
    BY <1>6 DEF NewSeated
  <1>9. NewClear
    <2>1. \A x, y \in last+1 .. last' : Clear(task', task'[x], task'[y])
      BY <1>5, <1>6 DEF Clear, Fellows
    <2> QED
      BY <1>7, <2>1 DEF NewClear
  <1> QED
    BY <1>2, <1>3, <1>4, <1>8, <1>9, StaySInv

LEMMA NextSHost ==
  ASSUME AsksAhead, TokensApart, SInv(HostNode), [CollectNext]_collectVars
  PROVE  SInv(HostNode)'
  <1>1. NoWayBack(HostNode)
    BY AheadNoWayBack
  <1>2. CASE Next \/ UNCHANGED vars
    BY <1>1, <1>2, NextSInv
  <1>3. Step \/ StartProcessInstance => Next
    BY DEF Next
  <1>4. ASSUME NEW t \in Id, NEW u \in User, Submission(t, u) PROVE SInv(HostNode)'
    BY <1>1, <1>4, RowCommandSInv DEF Submission
  <1>5. ASSUME NEW u \in User, withdraw(u) PROVE SInv(HostNode)'
    BY <1>5, withdrawSInv
  <1>6. UNCHANGED collectVars => UNCHANGED vars
    BY DEF collectVars
  <1> QED
    BY <1>2, <1>3, <1>4, <1>5, <1>6, tryDynamicCountersignSHost, taskRevokeCountersignSHost
    DEF CollectNext

-----------------------------------------------------------------------------
(* The invariant and what follows from it. *)

LEMMA SubmissionCInv ==
  ASSUME AsksAhead, CInv, NEW t \in Id, NEW u \in User, Submission(t, u)
  PROVE  CInv'
  <1>0. gateDynamicCountersign(t) /\ RowCommand(t, u) /\ ledger' = Kept(ledger)
    BY DEF Submission
  <1>1. /\ \A submit \in Submits : submit \in Submit
        /\ \A roster \in NextOps \cup SignOps : roster \in Roster
    BY InputAssumption DEF Submit
  <1>2. CASE Execute(t, u)
    <2>1. CASE executeReapply(t, u)
      BY <1>0, <2>1, executeReapplyCInv
    <2>2. ASSUME NEW submit \in Submits, ExecuteWait(t, u, submit) PROVE CInv'
      BY <1>0, <1>1, <2>2, ExecuteWaitCInv
    <2>3. ASSUME NEW submit \in Submits, ExecuteNextMember(t, u, submit) PROVE CInv'
      BY <1>0, <1>1, <2>3, ExecuteNextMemberCInv
    <2>4. ASSUME NEW submit \in Submits, NEW ops \in SignOps, ExecuteAddSign(t, u, submit, ops)
          PROVE  CInv'
      BY <1>0, <1>1, <2>4, ExecuteAddSignCInv
    <2>5. ASSUME NEW submit \in Submits, NEW next \in NextOps, ExecuteAdvance(t, u, submit, next)
          PROVE  CInv'
      BY <1>0, <1>1, <2>5, ExecuteAdvanceCInv
    <2> QED
      BY <1>2, <2>1, <2>2, <2>3, <2>4, <2>5 DEF Execute
  <1>3. CASE ExecuteAndJumpToEnd(t, u)
    BY <1>0, <1>3, ExecuteAndJumpToEndCInv
  <1>4. CASE rollbackToParent(t, u)
    BY <1>0, <1>4, rollbackToParentCInv
  <1>5. ASSUME NEW target \in JumpTargets, NEW next \in NextOps,
               ExecuteAndJumpTask(t, u, target, next)
        PROVE  CInv'
    BY <1>0, <1>1, <1>5, ExecuteAndJumpTaskCInv
  <1>6. CASE Return(t, u)
    BY <1>0, <1>6, ReturnForChangeCInv, ExecuteAndJumpToFirstTaskNodeCInv, ReturnFailsCInv
    DEF Return
  <1>7. CASE RecallTask(t, u)
    BY <1>0, <1>7, RecallTaskCInv
  <1> QED
    BY <1>0, <1>2, <1>3, <1>4, <1>5, <1>6, <1>7 DEF RowCommand

LEMMA StutterCInv ==
  ASSUME CInv, UNCHANGED collectVars
  PROVE  CInv'
  <1>1. UNCHANGED vars /\ UNCHANGED ledger
    BY DEF collectVars
  <1>2. /\ IInv(HostNode)' /\ task' = task /\ last' = last /\ work' = work /\ saved' = saved
    BY <1>1, StutterKeeps DEF vars, CInv
  <1>3. ledger' \in [1 .. last' -> Entry]
    BY <1>1, <1>2 DEF CInv, Id
  <1>4. Orderly(task', last', ledger') /\ AllComing(task', work')
    BY <1>1, <1>2 DEF CInv
  <1>5. Transactional /\ work' # << >> =>
          saved'.last <= last' /\ Orderly(saved'.task, saved'.last, ledger')
    BY <1>1, <1>2 DEF CInv, Restorable, Idle
  <1> QED
    BY <1>2, <1>3, <1>4, <1>5, CInvNext

LEMMA NextCInv ==
  ASSUME AsksAhead, CInv, [CollectNext]_collectVars
  PROVE  CInv'
  <1>1. CASE Step /\ ledger' = Kept(ledger)
    BY <1>1, StepCInv
  <1>2. CASE StartProcessInstance /\ ledger' = Kept(ledger)
    BY <1>2, StartProcessInstanceCInv
  <1>3. ASSUME NEW t \in Id, NEW u \in User, Submission(t, u) PROVE CInv'
    BY <1>3, SubmissionCInv
  <1>4. ASSUME NEW h \in Id, NEW u \in User, NEW ops \in SignOps, tryDynamicCountersign(h, u, ops)
        PROVE  CInv'
    BY <1>4, tryDynamicCountersignCInv
  <1>5. ASSUME NEW h \in Id, NEW u \in User, taskRevokeCountersign(h, u) PROVE CInv'
    BY <1>5, taskRevokeCountersignCInv
  <1>6. ASSUME NEW u \in User, withdraw(u), ledger' = Kept(ledger) PROVE CInv'
    BY <1>6, withdrawCInv
  <1>7. CASE UNCHANGED collectVars
    BY <1>7, StutterCInv
  <1> QED
    BY <1>1, <1>2, <1>3, <1>4, <1>5, <1>6, <1>7 DEF CollectNext

LEMMA InitCInv ==
  ASSUME CollectInit
  PROVE  CInv
  <1>1. Init /\ ledger = << >> /\ last = 0 /\ work = << >> /\ Id = {}
    BY DEF CollectInit, Init, Id
  <1>2. IInv(HostNode)
    BY <1>1, InitIInv
  <1>3. ledger \in [Id -> Entry]
    BY <1>1
  <1>4. Orderly(task, last, ledger)
    BY <1>1 DEF Orderly, Hosted, Apart, Placed, Numbered
  <1>5. AllComing(task, work) /\ Idle
    BY <1>1 DEF AllComing, Idle
  <1> QED
    BY <1>2, <1>3, <1>4, <1>5 DEF CInv

\* The dynamic countersign keeps the invariant, whatever is asked, answered,
\* revoked, sent back and withdrawn in whatever order.
THEOREM CollectInductive ==
  ASSUME AsksAhead
  PROVE  CollectSpec => []CInv
  <1>1. CollectInit => CInv
    BY InitCInv
  <1>2. CInv /\ [CollectNext]_collectVars => CInv'
    BY NextCInv
  <1> QED
    BY <1>1, <1>2, PTL DEF CollectSpec

\* Every variable keeps its type beside the dynamic countersign, and the ledger
\* speaks of the rows there are (CreateCollectMemberRows, lineageVars).
THEOREM CollectTyped ==
  ASSUME AsksAhead
  PROVE  CollectSpec => []CollectTypeOK
  <1>1. CInv => CollectTypeOK
    BY DEF CInv, IInv, CollectTypeOK
  <1> QED
    BY <1>1, CollectInductive, PTL

\* What is open behind a node with a dynamic countersign was agreed to by a
\* host none of whose members is still asked, never by a member
\* (gateDynamicCountersign, and the gate of executeProcessTaskInner).
THEOREM HostAlone ==
  ASSUME AsksAhead
  PROVE  CollectSpec => []HostDecides
  <1>1. CInv => HostDecides
    <2> SUFFICES ASSUME CInv, NEW i \in Id, NEW p \in Id, Follows(i, p), Collects(p)
                 PROVE  ~ IsCollectMemberRow(p) /\ CollectPendingMembers(p) = {}
      BY DEF HostDecides
    <2>1. IInv(HostNode) /\ Hosted(task, last) /\ Placed(task, last) /\ task \in [Id -> Row]
      BY DEF CInv, Orderly, IInv, TypeOK
    <2>2. /\ p # 0 /\ task[i].parent = p /\ task[i].node # task[p].node
          /\ task[p].submit \in {"agree", "disagree"}
      BY DEF Follows
    <2>3. task[p].node \in HostNode
      BY <2>1 DEF Collects, HostNode, OfType, Row, Node
    <2>4. ~ MemberIn(task, i) /\ Handled(task[p])
      BY <2>1, <2>2, Lineal DEF MemberIn, Below
    <2>5. ~ MemberIn(task, p)
      BY <2>1, <2>2, <2>3, <2>4 DEF Placed, PlacedAt, Arrives, Id
    <2>6. ~ IsCollectMemberRow(p)
      BY <2>3, <2>5 DEF IsCollectMemberRow, MemberIn
    <2>7. ASSUME NEW m \in CollectPendingMembers(p) PROVE FALSE
      <3>1. m \in Id /\ task[m].parent = p /\ task[m].node = task[p].node /\ task[m].st = "DOING"
        BY <2>1 DEF CollectPendingMembers, CollectMemberRows, IsCollectMemberRow, DoingIn
      <3>2. PendingIn(task, m)
        BY <2>2, <2>3, <3>1 DEF PendingIn, MemberIn
      <3> QED
        BY <2>1, <2>4, <3>1, <3>2 DEF Hosted, Id, Handled
    <2> QED
      BY <2>6, <2>7
  <1> QED
    BY <1>1, CollectInductive, PTL

\* The host of an open member row is open, and nobody has two open member rows
\* of one host (abandonAddSignOnNode, gateDynamicCountersign,
\* MsgCollectDuplicate).
THEOREM Members ==
  ASSUME AsksAhead
  PROVE  CollectSpec => []MembersSound
  <1>1. CInv => MembersSound
    <2> SUFFICES ASSUME CInv PROVE MembersSound
      OBVIOUS
    <2>1. /\ IInv(HostNode) /\ Hosted(task, last) /\ Apart(task, last) /\ task \in [Id -> Row]
      BY DEF CInv, Orderly, IInv, TypeOK
    <2>2. ASSUME NEW m \in DoingIn(task), IsCollectMemberRow(m), Collects(m)
          PROVE  m \in Id /\ PendingIn(task, m)
      <3>1. m \in Id /\ task[m].st = "DOING" /\ task[m].node \in Node
        BY <2>1 DEF DoingIn, Row
      <3> QED
        BY <2>2, <3>1
        DEF PendingIn, MemberIn, IsCollectMemberRow, Collects, HostNode, OfType, Node
    <2>3. ASSUME NEW m \in DoingIn(task), TakenForMember(m)
          PROVE  task[task[m].parent].st = "DOING"
      BY <2>1, <2>2, <2>3 DEF Hosted, Id, TakenForMember
    <2>4. ASSUME NEW h \in Id, Collects(h), NEW m \in CollectPendingMembers(h)
          PROVE  m \in Id /\ PendingIn(task, m) /\ task[m].parent = h
      <3>1. /\ m \in Id /\ m \in DoingIn(task) /\ IsCollectMemberRow(m)
            /\ task[m].parent = h /\ task[m].node = task[h].node
        BY DEF CollectPendingMembers, CollectMemberRows, IsCollectMemberRow
      <3>2. Collects(m)
        BY <2>4, <3>1 DEF Collects
      <3> QED
        BY <2>2, <3>1, <3>2
    <2>5. ASSUME NEW h \in Id, Collects(h),
                 NEW m \in CollectPendingMembers(h), NEW k \in CollectPendingMembers(h), m # k
          PROVE  task[m].actors \cap task[k].actors = {}
      BY <2>1, <2>4, <2>5 DEF Apart, Id
    <2> QED
      BY <2>3, <2>5 DEF MembersSound
  <1> QED
    BY <1>1, CollectInductive, PTL

\* The rounds of a host are numbered without a gap up to the last one in its
\* ledger, and what is taken for a member row was created by asking somebody
\* (CollectLastRound, IsCollectMemberRow).
THEOREM Ledger ==
  ASSUME AsksAhead
  PROVE  CollectSpec => []LedgerSound
  <1>1. CInv => LedgerSound
    <2> SUFFICES ASSUME CInv PROVE LedgerSound
      OBVIOUS
    <2>1. IInv(HostNode) /\ Numbered(task, last, ledger) /\ task \in [Id -> Row]
      BY DEF CInv, Orderly, IInv, TypeOK
    <2>2. ASSUME NEW h \in Id, Collects(h), ~ IsCollectMemberRow(h)
          PROVE  { ledger[m].round : m \in CollectMemberRows(h) } = 1 .. ledger[h].asked
      <3>1. task[h].node \in HostNode /\ ~ MemberIn(task, h)
        BY <2>1, <2>2, HostPlain
      <3>2. Rounds(task, last, ledger, h) = 1 .. ledger[h].asked
        BY <2>1, <3>1 DEF Numbered, Id
      <3>3. CollectMemberRows(h) = { i \in 1 .. last : task[i].parent = h /\ MemberIn(task, i) }
        <4>1. ASSUME NEW i \in Id, task[i].parent = h
              PROVE  IsCollectMemberRow(i) <=> MemberIn(task, i)
          BY <3>1, <4>1 DEF IsCollectMemberRow, MemberIn
        <4> QED
          BY <4>1 DEF CollectMemberRows, Id
      <3> QED
        BY <3>2, <3>3 DEF Rounds
    <2>3. ASSUME NEW i \in Id, TakenForMember(i) PROVE ledger[i].round > 0
      <3>1. MemberIn(task, i)
        BY <2>1, <2>3
        DEF TakenForMember, Collects, IsCollectMemberRow, MemberIn, HostNode, OfType, Row, Node
      <3> QED
        BY <2>1, <3>1 DEF Numbered, Id
    <2> QED
      BY <2>2, <2>3 DEF LedgerSound
  <1> QED
    BY <1>1, CollectInductive, PTL

\* Whatever is asked, answered, revoked, returned and rolled back, any two
\* tokens of an instance are in two branches of one round, or are signers of one
\* node, or a host and its members.
THEOREM HostsApart ==
  ASSUME AsksAhead, TokensApart
  PROVE  CollectSpec => []SInv(HostNode)
  <1>1. CollectInit => SInv(HostNode)
    BY InitSInv DEF CollectInit
  <1>2. SInv(HostNode) /\ [CollectNext]_collectVars => SInv(HostNode)'
    BY NextSHost
  <1> QED
    BY <1>1, <1>2, PTL DEF CollectSpec

\* When a token reaches the end node, nobody who asked or was asked is left behind
\* (executeNode sets the state whatever rows are open).
THEOREM NobodyLeftAsked ==
  ASSUME AsksAhead, TokensApart
  PROVE  CollectSpec => []EndIsClean
  <1>1. SInv(HostNode) => EndIsClean
    BY OverClean
  <1> QED
    BY <1>1, HostsApart, PTL

\* A branch has one host, also when a member has sent the form back and the
\* branch waits for the applicant (abandonAddSignOnNode), where no other node of
\* a branch has several open rows.
THEOREM OneHost ==
  ASSUME AsksAhead, TokensApart, \A n \in Shared \ HostNode : ScopesOfNode[n] = {}
  PROVE  CollectSpec => []OneHostPerBranch
  <1>1. SInv(HostNode) => OneHostPerBranch
    <2> SUFFICES ASSUME SInv(HostNode), NEW i \in DoingIn(task), NEW k \in DoingIn(task),
                        ~ TakenForMember(i), ~ TakenForMember(k),
                        Seat(task[i]) # NoScopes, Seat(task[i]) = Seat(task[k]), i # k
                 PROVE  FALSE
      BY DEF OneHostPerBranch, Seat
    <2>1. /\ i \in 1 .. last /\ k \in 1 .. last /\ IsOpen(task, i) /\ IsOpen(task, k)
          /\ JInv(HostNode) /\ task[i].scopes \in [Join -> Scope] /\ i \in Id
          /\ task[i].node \in Node
      BY DEF SInv, JInv, IInv, TypeOK, Id, DoingIn, IsOpen, Row
    <2>2. Clear(task, task[i], task[k]) /\ Seated(task, task[i])
      BY <2>1 DEF SInv, Sorted, Alone, AllSeated
    <2>3. ~ Diverge(Seat(task[i]), Seat(task[k]))
      BY DEF Diverge, Differ
    <2>4. Fellows(task, task[i], task[k])
      BY <2>2, <2>3 DEF Clear
    <2>5. task[i].node \notin HostNode
      <3> SUFFICES ASSUME task[i].node \in HostNode PROVE FALSE
        OBVIOUS
      <3>1. Collects(i) /\ Collects(k)
        BY <2>4, HostFacts DEF Collects, HostNode, Fellows
      <3>2. Guest(task, task[i]) \/ Guest(task, task[k])
        BY <2>4 DEF Fellows, HostNode
      <3> QED
        BY <3>1, <3>2 DEF Guest, TakenForMember, IsCollectMemberRow
    <2>6. task[i].node \in Shared /\ task[i].node \notin FirstTaskNode
      BY <2>4 DEF Fellows, TokensApart
    <2>7. ScopesOfNode[task[i].node] = {} /\ task[i].back.src = 0
      BY <2>2, <2>5, <2>6 DEF Seated
    <2>8. \A j \in Join : task[i].scopes[j].root = 0
      BY <2>1, <2>7, RowFacts
    <2>9. task[i].scopes = NoScopes
      <3>1. \A j \in Join : task[i].scopes[j] = NoScope
        BY <2>2, <2>8 DEF Seated
      <3> QED
        BY <2>1, <3>1 DEF NoScopes
    <2> QED
      BY <2>7, <2>9 DEF Seat
  <1> QED
    BY <1>1, HostsApart, PTL
=============================================================================

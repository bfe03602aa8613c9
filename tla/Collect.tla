-------------------------------- MODULE Collect --------------------------------
(***************************************************************************)
(* The dynamic countersign (facade/collect.go, engine/collect.go) on top   *)
(* of the engine's commands: who is asked to act at a node with            *)
(* dynamicCountersign, the host, may ask others for their opinion before   *)
(* deciding.  Each gets a member row at the same node below the host's     *)
(* row, which stays open; until all have answered or the rest is revoked,  *)
(* no command on the host's row is accepted.                               *)
(*                                                                         *)
(* The commands come through the facade, one at a time.  A member row is   *)
(* known by nothing but its parent and its node.                           *)
(***************************************************************************)
EXTENDS Engine

VARIABLE
  ledger   \* row -> asked: the last round in its tf_addSignHistory;
           \*        round: the round that created it as a member row

collectVars == <<vars, ledger>>

NoEntry == [asked |-> 0, round |-> 0]
Entry == [asked : Nat, round : Nat]

Kept_All(l) == l

\* The ledger after a command of the engine, which writes none of it: a new row
\* has none, and a row that comes to life again has lost it (lineageVars).
Kept(l) == [i \in 1 .. last' |-> IF i \in DOMAIN l THEN l[i] ELSE NoEntry]

IsCollectMemberRow_AnyNode(i) == task[i].parent # 0

\* A row whose parent is a row of the same node.
IsCollectMemberRow(i) ==
  task[i].parent # 0 /\ task[task[i].parent].node = task[i].node

CollectMemberRows(h) == { i \in Id : task[i].parent = h /\ IsCollectMemberRow(i) }
CollectPendingMembers(h) == CollectMemberRows(h) \cap DoingIn(task)
Collects(i) == Flow.type[task[i].node] = "task" /\ Props[task[i].node].collect
TakenForMember(i) == Collects(i) /\ IsCollectMemberRow(i)

Duplicate_Never(h, ops) == FALSE
Duplicate(h, ops) ==
  \E m \in CollectPendingMembers(h) : task[m].actors \cap FlowRange(ops) # {}

NextRound(h) == ledger[h].asked + 1

\* The host asks: one row for each, in the branch of the host's row
\* (CreateCollectMemberRows), and a ledger entry.
tryDynamicCountersign(h, u, ops) ==
  /\ Idle /\ Room
  /\ ops # << >>
  /\ Allowed(h, u)
  /\ Collects(h) /\ ~ IsCollectMemberRow(h)
  /\ LET n == task[h].node
         round == NextRound(h)
     IN  /\ Props[n].maxRounds = 0 \/ round <= Props[n].maxRounds
         /\ u \notin FlowRange(ops)
         /\ ~ Duplicate(h, ops)
         /\ task' = Appended(task, [k \in 1 .. Len(ops) |->
                      [NewRow(n, h, {ops[k]}) EXCEPT !.scopes = buildScopes(n, h, last + k)]])
         /\ ledger' = [i \in 1 .. last + Len(ops) |->
                         IF i > last THEN [asked |-> 0, round |-> round]
                         ELSE IF i = h THEN [ledger[h] EXCEPT !.asked = round] ELSE ledger[i]]
  /\ last' = last + Len(ops)
  /\ UNCHANGED <<state, ivars, ends, work, cmd, saved>>

gateDynamicCountersign_Open(t) == TRUE

\* An open host row with an open member row is not acted on, whatever the
\* submitType.
gateDynamicCountersign(t) ==
  \/ task[t].st # "DOING"
  \/ ~ Collects(t)
  \/ IsCollectMemberRow(t)
  \/ CollectPendingMembers(t) = {}

Revoked(h) == CollectPendingMembers(h)

\* An actor of the host's row, open or not, gives up on those who have not
\* answered.
taskRevokeCountersign(h, u) ==
  /\ Idle
  /\ u \in task[h].actors \cup Privileged
  /\ Collects(h)
  /\ CollectPendingMembers(h) # {}
  /\ task' = [i \in Id |-> IF i \in Revoked(h) THEN [task[i] EXCEPT !.st = "ABANDONED"]
                           ELSE task[i]]
  /\ UNCHANGED <<state, last, ivars, ends, work, cmd, saved, ledger>>

-----------------------------------------------------------------------------
CollectInit == Init /\ ledger = << >>

\* processTask/execute, for a submission that names nobody to be asked, and
\* processTask/recall, whose row is not open.
Submission(t, u) == gateDynamicCountersign(t) /\ RowCommand(t, u) /\ ledger' = Kept(ledger)

CollectNext ==
  \/ Step /\ ledger' = Kept(ledger)
  \/ StartProcessInstance /\ ledger' = Kept(ledger)
  \/ \E t \in Id, u \in User :
       \/ Submission(t, u)
       \/ \E ops \in SignOps : tryDynamicCountersign(t, u, ops)
       \/ taskRevokeCountersign(t, u)
  \/ "withdraw" \in Commands /\ (\E u \in User : withdraw(u)) /\ ledger' = Kept(ledger)

CollectSpec == CollectInit /\ [][CollectNext]_collectVars

-----------------------------------------------------------------------------
(* The definitions the properties hold for. *)

HostNode == { n \in OfType(Flow, "task") : Props[n].collect }

\* Where a jump or a return puts the token.
Landing ==
  JumpTargets \cup firstAfterStart(Flow, {"task"}) \cup firstAfterStart(Flow, {"task", "custom"})

\* A node with a dynamic countersign is not met again, or by a jump or a return,
\* before another task; no rollback leads to it from there or from itself; and
\* it does not allow recall.  Otherwise the next host's row has the last one's
\* row as its parent, which makes it a member, and a member can take its answer
\* back when the host has decided.
AsksAhead ==
  \A n \in HostNode :
    /\ n \notin Met(outgoingTargets(Flow, n) \cup Landing)
    /\ \A m \in Met(Landing) \cup {n} : n \notin CanReject[m]
    /\ ~ Props[n].recall

-----------------------------------------------------------------------------
(* Properties. *)

\* The engine's variables keep their types beside the dynamic countersign, and
\* the ledger speaks of the rows there are (the variables of ProcessTask).
CollectTypeOK == TypeOK /\ ledger \in [Id -> Entry]

\* The host decides: what is open behind a node with a dynamic countersign was
\* agreed to by a host none of whose members is still asked, never by a member
\* ("the decision stays with the host", the heading of engine/collect.go; the
\* two gates are in different layers, the one in front of the host in the
\* facade and the one behind a member in executeProcessTaskInner).
HostDecides ==
  \A i, p \in Id : Follows(i, p) /\ Collects(p) =>
    ~ IsCollectMemberRow(p) /\ CollectPendingMembers(p) = {}

\* Nobody is asked in vain or twice: the host of an open member row is open
\* itself, whatever a member, another branch or the initiator does meanwhile
\* (abandonAddSignOnNode, gateDynamicCountersign), and nobody has two open member
\* rows of the same host, however the rounds and revocations follow each other
\* (MsgCollectDuplicate).
MembersSound ==
  /\ \A m \in DoingIn(task) : TakenForMember(m) => task[task[m].parent].st = "DOING"
  /\ \A h \in Id : Collects(h) => \A m, k \in CollectPendingMembers(h) :
       m # k => task[m].actors \cap task[k].actors = {}

\* A branch has one host: when a member sends the form back, the host's row goes
\* as well as those of the other members, and the branch has no token beside the
\* applicant's row that waits for it (abandonAddSignOnNode).
OneHostPerBranch ==
  LET At(x) == IF task[x].back.src # 0 THEN task[x].back.branch ELSE task[x].scopes
      Hosts == { i \in DoingIn(task) : ~ TakenForMember(i) }
  IN  \A i, k \in Hosts : At(i) # NoScopes /\ At(i) = At(k) => i = k

\* The ledger of a host and its member rows agree: the rounds are numbered
\* without a gap up to the last one in the ledger, also after revocations,
\* which use up no round (CollectLastRound); and what is taken for a member row
\* was created by asking somebody.  The heading of engine/collect.go: a row
\* behind the node also has the host's row as its parent and must not be mistaken
\* for a member, or a revocation drops it.  (In a definition that leads from the
\* node straight back to it, the next host's row is.)
LedgerSound ==
  /\ \A h \in Id : Collects(h) /\ ~ IsCollectMemberRow(h) =>
       { ledger[m].round : m \in CollectMemberRows(h) } = 1 .. ledger[h].asked
  /\ \A i \in Id : TakenForMember(i) => ledger[i].round > 0
=============================================================================

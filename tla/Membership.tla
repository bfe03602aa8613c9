------------------------------ MODULE Membership -------------------------------
(***************************************************************************)
(* What the participants of a task row are to a user of the facade: who    *)
(* may act on a row, and whether it is still open.  A request takes effect *)
(* at once; how a name is spelled in a row, and which repository keeps the *)
(* rows, makes no difference.  Actors implements it.                       *)
(***************************************************************************)
EXTENDS FiniteSets

CONSTANTS Task, User

VARIABLES
  members,  \* task row -> the people who may act on it
  open      \* the rows that are DOING

vars == <<members, open>>

\* Nobody asks for members of a row that has none to lose: the engine creates
\* every row with somebody on it.
Init ==
  /\ members \in [Task -> (SUBSET User) \ {{}}]
  /\ open = Task

\* processTask/addCandidate, processTask/surrogate: whatever the state of the row.
Add(t, people) ==
  /\ members' = [members EXCEPT ![t] = @ \union people]
  /\ UNCHANGED open

\* processTask/transfer: one person hands the row to another.
Transfer(t, from, to) ==
  /\ t \in open /\ from \in members[t] /\ to \notin members[t] \ {from}
  /\ members' = [members EXCEPT ![t] = (@ \ {from}) \union {to}]
  /\ UNCHANGED open

\* processTask/removeTaskActor: some leave, somebody stays.
Leave(t, people) ==
  /\ t \in open /\ members[t] \ people # {}
  /\ members' = [members EXCEPT ![t] = @ \ people]
  /\ UNCHANGED open

\* processTask/execute: the row is done; who took part stays on record.
Complete(t) ==
  /\ t \in open
  /\ open' = open \ {t}
  /\ UNCHANGED members

Next == \E t \in Task :
  \/ \E people \in SUBSET User : Add(t, people) \/ Leave(t, people)
  \/ \E from, to \in User : Transfer(t, from, to)
  \/ Complete(t)

Spec == Init /\ [][Next]_vars

\* A row never loses its last member, so an open row can be worked on.
SomebodyLeft == \A t \in Task : members[t] # {}
=============================================================================

------------------------------ MODULE MCSurrogates ------------------------------
(***************************************************************************)
(* Instances of Surrogates for TLC.                                        *)
(***************************************************************************)
EXTENDS Surrogates, TLC

Spelled == "user1" :> "user1" @@ "u2" :> "u2" @@ " u2 " :> "u2" @@ "u3" :> "u3" @@ "" :> ""

Ask(process, operator, surrogate, start, end, enabled) ==
  [processName |-> process, operator |-> operator, surrogate |-> surrogate,
   start |-> start, end |-> end, enabled |-> enabled]

\* For the process and for all, to others and to oneself, from now on, until now,
\* switched off.
Asked ==
  { Ask("p", "-", "u3", Never, Never, "absent"),
    Ask("", "", "u3", Never, 0, "true"),
    Ask("p", "user1", "u2", 1, Never, "1"),
    Ask("p", "u2", " u2 ", Never, Never, "absent"),
    Ask("", "u2", "u3", Never, Never, "absent"),
    Ask("p", "-", "u2", Never, Never, "abc") }

Participants == {<<"user1", "u2">>, <<"user1">>}
Symmetric == Permutations(Editor)
=================================================================================

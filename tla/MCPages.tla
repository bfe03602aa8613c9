-------------------------------- MODULE MCPages --------------------------------
(***************************************************************************)
(* Instances of Pages for TLC.                                             *)
(***************************************************************************)
EXTENDS Pages

Actor(who, read) == [who |-> who, read |-> read]
Row(operator, name, open, starter, actors) ==
  [operator |-> operator, name |-> name, open |-> open, starter |-> starter, actors |-> actors]

\* One's own, somebody else's, one with old blanks, one that two share.
SomeRows ==
  { Row("user1", "a", FALSE, "user1", {Actor("u2", "unread")}),
    Row("u2", "b", TRUE, "user1", {Actor("user1", "unread"), Actor("u2", "read")}),
    Row("", "a", TRUE, "", {Actor("", "unread")}) ,
    Row("", "a", FALSE, "", {}) }

Asked ==
  [column : {"name"}, op : {"EQ", "NE", "IN"}, value : {{"a"}}] \union
  [column : {"operator", "actor", "starter"}, op : {"EQ", "NE"}, value : {{"u2"}, {""}}] \union
  [column : {"actor", "name"}, op : {"IN"}, value : {{}, {"u2", "b"}}] \union
  [column : {"read"}, op : {"EQ"}, value : {{"read"}}]
=============================================================================

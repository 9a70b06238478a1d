------------------------------- MODULE MCBuild --------------------------------
(* Small files for Build: every kind of line, labels of both kinds that    *)
(* may be defined in one file and used in another.                         *)
EXTENDS Build

MCInsns == {[op |-> "slot", arg |-> 1, sym |-> NoSym], [op |-> "string", arg |-> 0, sym |-> NoSym]}
             \cup [op : {"label"}, arg : {0}, sym : Name]

MCLines == {CodeLine(NoSym, i) : i \in MCInsns}
             \cup {CodeLine(n, NoInsn) : n \in Name}
             \cup {CodeLine(n, [op |-> "slot", arg |-> 0, sym |-> NoSym]) : n \in LocalName}
             \cup [kind : {"string"}, index : 0 .. 1, string : Str]
             \cup [kind : {"var_count"}, count : {1, 4}]
             \cup {[kind |-> "bad"]}
===============================================================================

-------------------------- MODULE MCGApplicationPars --------------------------
(* A tool with two parameters, for TLC.                                    *)
EXTENDS GApplicationPars

ParOf(name, mode, v) ==
    [name |-> name, mode |-> mode, value |-> v, quoted |-> FALSE,
     indented |-> FALSE, intact |-> TRUE]

Remark(v) == ParOf(Comment, "h", v)

Learns == <<Remark("1"), ParOf("a", "hl", "1"), ParOf("b", "a", "1")>>

(* A value in quotes, and a line with leading blanks.                      *)
Quotes == <<[ParOf("a", "hl", "1,2,3") EXCEPT !.quoted = TRUE],
            [ParOf("b", "ql", "1") EXCEPT !.indented = TRUE]>>

OneTool(lines, there) ==
    [users |-> {"p"}, methods |-> Methods, max_calls |-> 4, system |-> lines,
     present |-> there]

(* Tools that are run in parallel.                                         *)
InParallel(n) ==
    [users |-> Apps, methods |-> {"load", "save", "value", "remove"}, max_calls |-> n,
     system |-> Learns, present |-> TRUE]

PassingSettings ==
    {OneTool(Learns, TRUE), OneTool(Learns, FALSE), OneTool(Quotes, FALSE),
     InParallel(6)}
=============================================================================

---------------------------- MODULE MCAssembler ----------------------------
(***************************************************************************)
(* Small program texts for TLC.                                            *)
(***************************************************************************)
EXTENDS AssemblerInvariant, TLC

\* "loop" has no n; "end" is cut to "e", which is a label itself, "next" to nothing.
McNames == {"loop", "end", "e", "next"}
McCut == "loop" :> "loop" @@ "end" :> "e" @@ "e" :> "e" @@ "next" :> NoName

Line(label, kind) == [label |-> label, kind |-> kind]
WordLine(addr) == [label |-> NoName, kind |-> "word", addr |-> addr, data |-> 7]
CodeLine(label, op, rd, arg, num, name) ==
    [label |-> label, kind |-> "code", op |-> op, rd |-> rd, rs |-> rd, rt |-> 15 - rd,
     arg |-> arg, num |-> num, name |-> name]
Number(label, op, rd, num) == CodeLine(label, op, rd, "number", num, NoName)
Jump(name) == CodeLine(NoName, 15, 1, "name", 0, name)

McLines ==
    {Line(NoName, "nothing"), Line("loop", "nothing"), Line("e", "short"),
     Line("end", "unknown"), WordLine(0), WordLine(1), WordLine(2),
     Number(NoName, 20, 15, 2048), Number("loop", 0, 0, 4096), Number("e", 8, 3, 2047),
     Number("next", 16, 2, -1), [Number(NoName, 0, 0, 0) EXCEPT !.rt = 0],
     CodeLine(NoName, 9, 1, "neither", 0, NoName)}
    \cup {Jump(n) : n \in McNames}

\* The lines of the texts for which imem may be too small.
McFewLines ==
    {Line(NoName, "nothing"), Line("loop", "nothing"), Line("e", "short"), WordLine(0),
     Number("loop", 0, 0, 4096), Number("e", 8, 3, 2047), Jump("loop"), Jump("next")}

McFiles ==
    UNION {[1 .. n -> McLines] : n \in 0 .. ImemSize} \cup [1 .. ImemSize + 1 -> McFewLines]
=============================================================================

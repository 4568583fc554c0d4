----------------------------- MODULE MCPrograms -----------------------------
(* Four functions to bookmark.  Six addresses to comment, with a function   *)
(* at the lowest one, one that adjoins it, and one after an address that is *)
(* in no function.  The instructions that tell the argument of a call, one  *)
(* for each register that only sets it over again, one that sets neither,   *)
(* and the end of a block.                                                  *)
EXTENDS Programs

MCStarts == <<10, 20, 30, 40>>

ThreeFunctions ==
    {[start |-> 0, addresses |-> {0, 1}], [start |-> 2, addresses |-> {2}],
     [start |-> 4, addresses |-> {4, 5}]}

Insn(itype, reg, type, value) ==
    [itype |-> itype, reg |-> reg, type |-> type, value |-> value, ends |-> FALSE]

MCInsns ==
    {Insn("lea", "RCX", "Mem", 1000), Insn("mov", "RCX", "Reg", 0),
     Insn("mov", "RDX", "Reg", 0), Insn("lea", "R8", "Mem", 1000),
     [Insn("jz", "none", "Near", 0) EXCEPT !.ends = TRUE]}
      \cup {Insn("lea", "RDX", "Displ", size) : size \in 2 .. 5}
      \cup {Insn("mov", "RDX", "Imm", size) : size \in 2 .. 5}
=============================================================================

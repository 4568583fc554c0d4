------------------------------ MODULE Operands ------------------------------
(***************************************************************************)
(* The operands of a decoded instruction: Insn::operand and operand_count  *)
(* and the accessors of Operand, idalib/src/insn.rs.  An operand is a      *)
(* union whose type says which of its fields the processor module filled;  *)
(* the accessors read it without any other check.                          *)
(*                                                                         *)
(* A definition whose name starts with Faulty is the definition after it   *)
(* with a plausible mistake, kept to show that a property notices it.      *)
(***************************************************************************)
EXTENDS Naturals, Sequences, FiniteSets

CONSTANTS
    MaxOps    \* the length of insn_t::ops, 8 in the SDK

VARIABLES
    ops,        \* the operands of the instruction, void ones included
    yielded,    \* those the program's loop has got, in order
    exhausted   \* operand returned None

vars == <<ops, yielded, exhausted>>

\* Without o_void.  The six processor specific types are treated alike.
OperandType == {"Reg", "Mem", "Phrase", "Displ", "Imm", "Far", "Near", "IdpSpec"}

\* An op_t: its type, and whether OF_OUTER_DISP is among its flags.
Operand == [type : OperandType \cup {"void"}, outer : BOOLEAN]

Init ==
    /\ ops \in [1 .. MaxOps -> Operand]
    /\ yielded = <<>>
    /\ exhausted = FALSE

FaultyOperandAt(n) ==    \* n is checked against the last index
    {op \in (IF n + 1 < Len(ops) THEN {ops[n + 1]} ELSE {}) : op.type # "void"}

\* Insn::operand; indexes start at 0 and {} is None.
OperandAt(n) ==
    {op \in (IF n < Len(ops) THEN {ops[n + 1]} ELSE {}) : op.type # "void"}

\* Insn::operand_count: the position of the first void operand.
OperandCount ==
    LET void == {n \in 0 .. Len(ops) - 1 : ops[n + 1].type = "void"} IN
    IF void = {} THEN Len(ops) ELSE CHOOSE n \in void : \A m \in void : n <= m

\* while let Some(op) = insn.operand(n), with n from 0.
NextOperand ==
    LET found == OperandAt(Len(yielded)) IN
    /\ \/ \E op \in found : yielded' = Append(yielded, op) /\ UNCHANGED exhausted
       \/ found = {} /\ exhausted' = TRUE /\ UNCHANGED yielded
    /\ UNCHANGED ops

Next == NextOperand

Spec == Init /\ [][Next]_vars

\* The accessors that answer Some, named after the union field they read:
\* reg, phrase, value and outer_displacement, addr, processor_specific.
ProcessorSpecific(op) == op.type = "IdpSpec"
Answers(op) ==
    {field \in {"reg", "phrase", "value", "addr", "specval"} :
        \/ ProcessorSpecific(op)
        \/ field = "reg" /\ op.type = "Reg"
        \/ field = "phrase" /\ op.type \in {"Phrase", "Displ"}
        \/ field = "value" /\ (op.type = "Imm" \/ op.outer)
        \/ field = "addr" /\ op.type \in {"Mem", "Displ", "Far", "Near"}}

-----------------------------------------------------------------------------
\* A loop that asks for operands until there is none gets exactly as many as
\* operand_count says, although the one looks at single types and the other
\* searches for the first void, up to an instruction that fills all of ops;
\* none of them is void, which OperandType has no value for, and each can be
\* read by an accessor.
OperandsAreCovered ==
    /\ exhausted => Len(yielded) = OperandCount
    /\ \A i \in DOMAIN yielded : yielded[i].type \in OperandType /\ Answers(yielded[i]) # {}
=============================================================================

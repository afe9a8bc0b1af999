---------------------------- MODULE Instructions ----------------------------
(* The words of a code segment: opcodes up to EXIT (core/c4.c, 57-72). *)
EXTENDS Integers, Sequences, SequencesExt

\* opcodes, numbered from 0
Opcodes == <<"LEA", "IMM", "JMP", "JSR", "BZ", "BNZ", "ENT", "ADJ", "LEV",
  "LI", "LC", "SI", "SC", "PSH", "OR", "XOR", "AND", "EQ", "NE", "LT", "GT",
  "LE", "GE", "SHL", "SHR", "ADD", "SUB", "MUL", "DIV", "MOD", "OPEN", "READ",
  "CLOS", "PRTF", "DPRT", "MALC", "FREE", "MSET", "MCMP", "EXIT">>
Op == [name \in ToSet(Opcodes) |-> (CHOOSE k \in DOMAIN Opcodes : Opcodes[k] = name) - 1]

=============================================================================

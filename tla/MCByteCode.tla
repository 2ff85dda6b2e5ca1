----------------------------- MODULE MCByteCode -----------------------------
(* Every straight line instruction in every control construct, and every    *)
(* iterate. CALLE and the list instructions with a register source and a    *)
(* field destination are left to runs of their own.                         *)
EXTENDS ByteCode

Control == {"RETURN", "NEXT", "RETURN_LINEAR", "RETURN_DERIVED", "RETURN_SELECT", "SELECT",
            "IF", "IF_ELSE", "JUMP", "RESET_LINEAR", "END_LINEAR", "PUSH", "PUSHN", "POP",
            "PUSH_REGS", "POP_REGS", "CALLF", "MVPCOUNTERSTACK", "MVSTACKPCOUNTER"}
            \cup Iters \cup OIters
Disputed == {"CALLE", "HEADRF", "HEADRFR", "TAILRF"}
AllOps == Instrs \ (Control \cup Disputed)
AllIterates == Iters \cup OIters
AllShapes == {"flat", "if", "ifelse", "select", "call", "struct", "iterate", "nested", "reset"}
JustCalle == {"CALLE"}
JustHead == {"HEADRF", "HEADRFR", "TAILRF"}
JustFlat == {"flat"}
NoIterates == {}
=============================================================================

----------------------------- MODULE InstrCodes -----------------------------
(***************************************************************************)
(* The numbers of the instructions: the enumeration instr_type of          *)
(* vm/instr.hpp, by which the compiler writes an instruction and the       *)
(* printer and advance tell it, and the table of labels vm/jump_table.hpp, *)
(* by which the computed gotos of vm/exec.cpp find its code. The table is  *)
(* positional: an instruction added to one and not to the other, or        *)
(* elsewhere, runs the code of its neighbour.                              *)
(***************************************************************************)
EXTENDS Integers, Sequences, TLC

\* The names of a list, numbered from first.
Numbered(first, names) ==
   [op \in {names[i] : i \in DOMAIN names} |->
      first + (CHOOSE i \in DOMAIN names : names[i] = op) - 1]

\* The entries of a table, from position first on.
Placed(first, names) ==
   [c \in first .. first + Len(names) - 1 |-> names[c - first + 1]]

\* The number of every instruction.
instr_type ==
   Numbered(0, <<"RETURN", "NEXT", "PERS_ITER", "TESTNIL", "OPERS_ITER", "LINEAR_ITER",
      "RLINEAR_ITER", "NOT", "SEND", "FLOAT", "SELECT", "RETURN_SELECT", "OLINEAR_ITER">>)
   @@ Numbered(14, <<"RESET_LINEAR", "END_LINEAR", "RULE", "RULE_DONE", "ORLINEAR_ITER", "NEW_NODE",
      "NEW_AXIOMS", "SEND_DELAY", "PUSH", "POP", "PUSH_REGS", "POP_REGS", "CALLF",
      "CALLE", "SET_PRIORITY", "MAKE_STRUCTR", "MVINTFIELD", "MVINTREG", "CALL",
      "MVFIELDFIELD", "MVFIELDREG", "MVPTRREG", "MVNILREG", "MVFIELDFIELDR",
      "MVREGFIELD", "MVREGFIELDR", "MVHOSTFIELD", "MVREGCONST", "MVCONSTFIELD",
      "MVCONSTFIELDR", "MVADDRFIELD", "MVFLOATFIELD", "MVFLOATREG", "MVINTCONST",
      "SET_PRIORITYH", "MVWORLDFIELD", "MVSTACKPCOUNTER", "MVPCOUNTERSTACK",
      "MVSTACKREG", "MVREGSTACK", "MVADDRREG", "MVHOSTREG", "ADDRNOTEQUAL", "ADDREQUAL",
      "INTMINUS", "INTEQUAL", "INTNOTEQUAL", "INTPLUS", "INTLESSER", "INTGREATEREQUAL",
      "ALLOC", "BOOLOR", "INTLESSEREQUAL", "INTGREATER", "INTMUL", "INTDIV",
      "FLOATPLUS", "FLOATMINUS", "FLOATMUL", "FLOATDIV", "FLOATEQUAL", "FLOATNOTEQUAL",
      "FLOATLESSER", "FLOATLESSEREQUAL", "FLOATGREATER", "FLOATGREATEREQUAL",
      "MVREGREG", "BOOLEQUAL", "BOOLNOTEQUAL", "HEADRR", "HEADFR", "HEADFF", "HEADRF",
      "HEADFFR", "HEADRFR", "TAILRR", "TAILFR", "TAILFF", "TAILRF", "MVWORLDREG",
      "MVCONSTREG", "CONSRRR", "IF", "CONSRFF", "CONSFRF", "CONSFFR", "CONSRRF",
      "CONSRFR", "CONSFRR", "CONSFFF", "CALL0", "CALL1", "CALL2", "CALL3", "MVINTSTACK",
      "PUSHN", "MAKE_STRUCTF", "STRUCT_VALRR", "MVNILFIELD", "STRUCT_VALFR",
      "STRUCT_VALRF", "STRUCT_VALRFR", "STRUCT_VALFF", "STRUCT_VALFFR", "MVFLOATSTACK",
      "ADDLINEAR", "ADDPERS", "RUNACTION", "ENQUEUE_LINEAR", "UPDATE", "MVARGREG",
      "INTMOD", "CPU_ID", "NODE_PRIORITY", "REMOVE", "IF_ELSE", "JUMP", "MVSTACKFIELD",
      "REMOTE_UPDATE">>)
   @@ Numbered(160, <<"ADD_PRIORITY", "ADD_PRIORITYH", "STOP_PROG", "SET_DEFPRIOH", "SET_DEFPRIO",
      "SET_STATICH", "SET_STATIC", "SET_MOVINGH", "SET_MOVING", "SET_AFFINITYH",
      "SET_AFFINITY", "CPU_STATIC", "MVCPUSREG", "SET_CPUH", "IS_STATIC", "IS_MOVING",
      "FACTS_PROVED", "REM_PRIORITY", "REM_PRIORITYH", "FACTS_CONSUMED", "TLINEAR_ITER",
      "ADDTPERS", "SCHEDULE_NEXT", "TPERS_ITER", "FABS", "MVTYPEREG", "MVTHREADIDREG",
      "MVTHREADIDFIELD", "THREAD_SEND", "TRLINEAR_ITER", "LITERAL_CONS", "NODE_TYPE">>)
   @@ Numbered(208, <<"RETURN_LINEAR", "MARK_RULE">>)
   @@ Numbered(240, <<"RETURN_DERIVED">>)

\* The label each number jumps to, by the instruction whose code it labels; the
\* other positions hold not_found.
jump_table ==
   Placed(0, <<"RETURN", "NEXT", "PERS_ITER", "TESTNIL", "OPERS_ITER", "LINEAR_ITER",
      "RLINEAR_ITER", "NOT", "SEND", "FLOAT", "SELECT", "RETURN_SELECT", "OLINEAR_ITER">>)
   @@ Placed(14, <<"RESET_LINEAR", "END_LINEAR", "RULE", "RULE_DONE", "ORLINEAR_ITER", "NEW_NODE",
      "NEW_AXIOMS", "SEND_DELAY", "PUSH", "POP", "PUSH_REGS", "POP_REGS", "CALLF",
      "CALLE", "SET_PRIORITY", "MAKE_STRUCTR", "MVINTFIELD", "MVINTREG", "CALL",
      "MVFIELDFIELD", "MVFIELDREG", "MVPTRREG", "MVNILREG", "MVFIELDFIELDR",
      "MVREGFIELD", "MVREGFIELDR", "MVHOSTFIELD", "MVREGCONST", "MVCONSTFIELD",
      "MVCONSTFIELDR", "MVADDRFIELD", "MVFLOATFIELD", "MVFLOATREG", "MVINTCONST",
      "SET_PRIORITYH", "MVWORLDFIELD", "MVSTACKPCOUNTER", "MVPCOUNTERSTACK",
      "MVSTACKREG", "MVREGSTACK", "MVADDRREG", "MVHOSTREG", "ADDRNOTEQUAL", "ADDREQUAL",
      "INTMINUS", "INTEQUAL", "INTNOTEQUAL", "INTPLUS", "INTLESSER", "INTGREATEREQUAL",
      "ALLOC", "BOOLOR", "INTLESSEREQUAL", "INTGREATER", "INTMUL", "INTDIV",
      "FLOATPLUS", "FLOATMINUS", "FLOATMUL", "FLOATDIV", "FLOATEQUAL", "FLOATNOTEQUAL",
      "FLOATLESSER", "FLOATLESSEREQUAL", "FLOATGREATER", "FLOATGREATEREQUAL",
      "MVREGREG", "BOOLEQUAL", "BOOLNOTEQUAL", "HEADRR", "HEADFR", "HEADFF", "HEADRF",
      "HEADFFR", "HEADRFR", "TAILRR", "TAILFR", "TAILFF", "TAILRF", "MVWORLDREG",
      "MVCONSTREG", "CONSRRR", "IF", "CONSRFF", "CONSFRF", "CONSFFR", "CONSRRF",
      "CONSRFR", "CONSFRR", "CONSFFF", "CALL0", "CALL1", "CALL2", "CALL3", "MVINTSTACK",
      "PUSHN", "MAKE_STRUCTF", "STRUCT_VALRR", "MVNILFIELD", "STRUCT_VALFR",
      "STRUCT_VALRF", "STRUCT_VALRFR", "STRUCT_VALFF", "STRUCT_VALFFR", "MVFLOATSTACK",
      "ADDLINEAR", "ADDPERS", "RUNACTION", "ENQUEUE_LINEAR", "UPDATE", "MVARGREG",
      "INTMOD", "CPU_ID", "NODE_PRIORITY", "REMOVE", "IF_ELSE", "JUMP", "MVSTACKFIELD",
      "REMOTE_UPDATE">>)
   @@ Placed(160, <<"ADD_PRIORITY", "ADD_PRIORITYH", "STOP_PROG", "SET_DEFPRIOH", "SET_DEFPRIO",
      "SET_STATICH", "SET_STATIC", "SET_MOVINGH", "SET_MOVING", "SET_AFFINITYH",
      "SET_AFFINITY", "CPU_STATIC", "MVCPUSREG", "SET_CPUH", "IS_STATIC", "IS_MOVING",
      "FACTS_PROVED", "REM_PRIORITY", "REM_PRIORITYH", "FACTS_CONSUMED", "TLINEAR_ITER",
      "ADDTPERS", "SCHEDULE_NEXT", "TPERS_ITER", "FABS", "MVTYPEREG", "MVTHREADIDREG",
      "MVTHREADIDFIELD", "THREAD_SEND", "TRLINEAR_ITER", "LITERAL_CONS", "NODE_TYPE">>)
   @@ Placed(208, <<"RETURN_LINEAR", "MARK_RULE">>)
   @@ Placed(240, <<"RETURN_DERIVED">>)

\* The instruction whose code runs when op is fetched.
Dispatched(op) == jump_table[instr_type[op]]

=============================================================================

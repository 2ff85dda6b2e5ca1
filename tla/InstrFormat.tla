---------------------------- MODULE InstrFormat ----------------------------
(***************************************************************************)
(* The format of Meld byte code: vm/instr.hpp, and the three places that   *)
(* read it. An instruction is one byte of operation code and its operands. *)
(* The size constants say how long it is, the handlers of vm/exec.cpp and  *)
(* the printer of vm/instr.cpp compute for themselves where each operand   *)
(* lies. Nothing but the agreement of these tables keeps the interpreter   *)
(* on the first byte of the next instruction.                              *)
(*                                                                         *)
(* A layout is the sequence of operand kinds by whose sizes a reader       *)
(* computes its offsets.                                                   *)
(***************************************************************************)
EXTENDS Integers, Sequences, TLC, SequencesExt

\* Sizes in bytes of the operand kinds (sizeof of vm/defs.hpp types).
Size == [reg |-> 1, fld |-> 2, int |-> 4, flt |-> 8, node |-> 8, ptr |-> 8,
         uint |-> 4, type |-> 1, pred |-> 1, ext |-> 1, bool |-> 1, jump |-> 4,
         cnt |-> 1, stk |-> 1, arg |-> 1, const |-> 4, opt |-> 1, byte |-> 1]

instr_size == 1
call_size == instr_size + Size.ext + Size.reg + Size.type + Size.bool

\* Bytes of the operands of a layout.
Width(layout) == FoldSeq(LAMBDA kind, sum : Size[kind] + sum, 0, layout)

\* Every instruction of S has the entry l.
Each(S, l) == [op \in S |-> l]

-----------------------------------------------------------------------------
(***************************************************************************)
(* The instructions, by the shape of their operands.                       *)
(***************************************************************************)
Iters == {"PERS_ITER", "TPERS_ITER", "LINEAR_ITER", "TLINEAR_ITER",
          "TRLINEAR_ITER", "RLINEAR_ITER"}
OIters == {"OPERS_ITER", "OLINEAR_ITER", "ORLINEAR_ITER"}
IntOps == {"INTMINUS", "INTEQUAL", "INTNOTEQUAL", "INTPLUS", "INTLESSER",
           "INTGREATEREQUAL", "INTLESSEREQUAL", "INTGREATER", "INTMUL",
           "INTDIV", "INTMOD"}
FloatOps == {"FLOATPLUS", "FLOATMINUS", "FLOATMUL", "FLOATDIV", "FLOATEQUAL",
             "FLOATNOTEQUAL", "FLOATLESSER", "FLOATLESSEREQUAL",
             "FLOATGREATER", "FLOATGREATEREQUAL"}
OtherOps == {"ADDRNOTEQUAL", "ADDREQUAL", "BOOLOR", "BOOLEQUAL", "BOOLNOTEQUAL"}
Operations == IntOps \cup FloatOps \cup OtherOps

-----------------------------------------------------------------------------
(***************************************************************************)
(* The size constants *_BASE of vm/instr.hpp, with the expressions of the  *)
(* source, in its order.                                                   *)
(***************************************************************************)
BaseControl ==
   Each({"SEND", "THREAD_SEND"}, instr_size + 2 * Size.reg)
   @@ Each(Iters, instr_size + Size.ptr + Size.pred + Size.reg + Size.bool
                 + 2 * Size.jump + Size.cnt)
   @@ Each(OIters, instr_size + Size.ptr + Size.pred + Size.reg + Size.bool
                 + 2 * Size.jump + Size.cnt + 2 * Size.opt)
   @@ Each({"ALLOC"}, instr_size + Size.pred + 2 * Size.reg)
   @@ Each({"CALL"}, call_size + Size.cnt)
   @@ Each({"IF"}, instr_size + 1 + Size.jump)
   @@ Each({"TESTNIL", "NOT", "FLOAT"}, instr_size + 2 * Size.reg)
   @@ Each({"RETURN", "NEXT", "RETURN_LINEAR", "RETURN_DERIVED", "END_LINEAR",
           "RULE_DONE", "PUSH", "POP", "PUSH_REGS", "POP_REGS"}, instr_size)
   @@ Each({"SELECT"}, instr_size + 8) @@ Each({"RETURN_SELECT"}, instr_size + 4)
   @@ Each({"REMOVE", "NEW_NODE"}, instr_size + Size.reg)
   @@ Each({"RESET_LINEAR", "NEW_AXIOMS"}, instr_size + Size.jump)
   @@ Each({"RULE"}, instr_size + Size.uint)
   @@ Each({"SEND_DELAY"}, instr_size + 2 + Size.uint)
   @@ Each({"CALLF"}, instr_size + 1) @@ Each({"CALLE"}, call_size + Size.cnt)
   @@ Each({"MAKE_STRUCTR"}, instr_size + Size.type + Size.reg)

BaseMoves ==
   Each({"MVINTFIELD"}, instr_size + Size.int + Size.fld)
   @@ Each({"MVINTREG", "MVTYPEREG"}, instr_size + Size.int + Size.reg)
   @@ Each({"MVTHREADIDREG", "MVNILREG", "MVHOSTREG", "MVWORLDREG"}, instr_size + Size.reg)
   @@ Each({"MVTHREADIDFIELD", "MVNILFIELD", "MVHOSTFIELD", "MVWORLDFIELD"},
          instr_size + Size.fld)
   @@ Each({"MVFIELDFIELD", "MVFIELDFIELDR", "HEADFF", "HEADFFR", "TAILFF"},
          instr_size + 2 * Size.fld)
   @@ Each({"MVFIELDREG", "HEADFR", "TAILFR"}, instr_size + Size.fld + Size.reg)
   @@ Each({"MVPTRREG"}, instr_size + Size.ptr + Size.reg)
   @@ Each({"MVREGFIELD", "MVREGFIELDR"}, instr_size + Size.reg + Size.fld)
   @@ Each({"MVREGCONST"}, instr_size + Size.reg + Size.const)
   @@ Each({"MVCONSTFIELD", "MVCONSTFIELDR"}, instr_size + Size.const + Size.fld)
   @@ Each({"MVADDRFIELD"}, instr_size + Size.node + Size.fld)
   @@ Each({"MVFLOATFIELD"}, instr_size + Size.flt + Size.fld)
   @@ Each({"MVFLOATREG"}, instr_size + Size.flt + Size.reg)
   @@ Each({"MVINTCONST"}, instr_size + Size.int + Size.const)
   @@ Each({"MVSTACKPCOUNTER", "MVPCOUNTERSTACK"}, instr_size + Size.stk)
   @@ Each({"MVSTACKREG"}, instr_size + Size.stk + Size.reg)
   @@ Each({"MVSTACKFIELD"}, instr_size + Size.stk + Size.fld)
   @@ Each({"MVREGSTACK"}, instr_size + Size.reg + Size.stk)
   @@ Each({"MVADDRREG"}, instr_size + Size.node + Size.reg)
   @@ Each({"MVREGREG", "HEADRR", "TAILRR"}, instr_size + 2 * Size.reg)
   @@ Each({"MVARGREG"}, instr_size + Size.arg + Size.reg)
   @@ Each({"HEADRF", "HEADRFR", "TAILRF"}, instr_size * Size.reg + Size.fld)
   @@ Each({"MVCONSTREG"}, instr_size + Size.const + Size.reg)
   @@ Each({"CONSRRR"}, instr_size + Size.type + 3 * Size.reg + Size.bool)
   @@ Each({"CONSRFF", "CONSFRF"}, instr_size + Size.reg + 2 * Size.fld)
   @@ Each({"CONSFFR"}, instr_size + 2 * Size.fld + Size.reg + Size.bool)
   @@ Each({"CONSRRF"}, instr_size + 2 * Size.reg + Size.fld)
   @@ Each({"CONSRFR"}, instr_size + Size.reg + Size.fld + Size.reg + Size.bool)
   @@ Each({"CONSFRR"}, instr_size + Size.type + Size.fld + 2 * Size.reg + Size.bool)
   @@ Each({"CONSFFF"}, instr_size + 3 * Size.fld)

BaseRest ==
   [i \in {"CALL0", "CALL1", "CALL2", "CALL3"} |->
       call_size + Size.reg * (CASE i = "CALL0" -> 0 [] i = "CALL1" -> 1
                                 [] i = "CALL2" -> 2 [] i = "CALL3" -> 3)]
   @@ Each({"MVINTSTACK"}, instr_size + Size.int + Size.stk)
   @@ Each({"PUSHN"}, instr_size + Size.cnt)
   @@ Each({"MAKE_STRUCTF"}, instr_size + Size.fld)
   @@ Each({"STRUCT_VALRR"}, instr_size + Size.cnt + 2 * Size.reg)
   @@ Each({"STRUCT_VALFR", "STRUCT_VALRF", "STRUCT_VALRFR"},
          instr_size + Size.cnt + Size.fld + Size.reg)
   @@ Each({"STRUCT_VALFF", "STRUCT_VALFFR"}, instr_size + Size.cnt + 2 * Size.fld)
   @@ Each({"MVFLOATSTACK"}, instr_size + Size.flt + Size.stk)
   @@ Each({"ADDLINEAR", "ADDPERS", "ADDTPERS", "RUNACTION", "ENQUEUE_LINEAR",
           "UPDATE", "SET_PRIORITYH", "ADD_PRIORITYH", "SET_DEFPRIOH", "SET_STATIC",
           "SET_MOVING", "SET_AFFINITYH", "MVCPUSREG", "SET_CPUH", "REM_PRIORITY",
           "SCHEDULE_NEXT"}, instr_size + Size.reg)
   @@ Each({"SET_PRIORITY", "ADD_PRIORITY", "SET_DEFPRIO", "SET_AFFINITY",
           "CPU_STATIC", "IS_STATIC", "IS_MOVING", "CPU_ID", "NODE_PRIORITY",
           "FACTS_PROVED", "FACTS_CONSUMED", "FABS"}, instr_size + 2 * Size.reg)
   @@ Each({"SET_STATICH", "SET_MOVINGH", "STOP_PROG", "REM_PRIORITYH"}, instr_size)
   @@ Each({"IF_ELSE"}, instr_size + Size.reg + 2 * Size.jump)
   @@ Each({"JUMP"}, instr_size + Size.jump)
   @@ Each({"REMOTE_UPDATE"}, instr_size + Size.reg + 2 * Size.pred + 2 * Size.cnt)
   @@ Each({"MARK_RULE"}, instr_size + Size.uint)
   @@ Each({"LITERAL_CONS"}, instr_size + Size.reg + Size.type + Size.jump)
   @@ Each({"NODE_TYPE"}, instr_size + Size.reg + Size.uint)

Base == BaseControl @@ BaseMoves @@ BaseRest @@ Each(Operations, instr_size + 3 * Size.reg)

-----------------------------------------------------------------------------
(***************************************************************************)
(* Where the handlers read their operands: with the accessors of           *)
(* vm/instr.hpp, or at offsets computed in vm/exec.cpp.                    *)
(***************************************************************************)
CallHead == <<"ext", "reg", "type", "bool">>

ReadIter ==
   Each({"IF"}, <<"reg", "jump">>) @@ Each({"IF_ELSE"}, <<"reg", "jump", "jump">>)
   @@ Each({"SEND", "THREAD_SEND", "FLOAT"}, <<"reg", "reg">>)
   @@ Each(Iters, <<"ptr", "pred", "reg", "bool", "jump", "jump", "cnt">>)
   @@ Each(OIters, <<"ptr", "pred", "reg", "bool", "jump", "jump", "opt", "opt", "cnt">>)
   @@ Each({"ALLOC"}, <<"pred", "reg", "reg">>)

ReadCall ==
   Each({"CALL0"}, CallHead) @@ Each({"CALL1"}, CallHead \o <<"reg">>)
   @@ Each({"CALL2"}, CallHead \o <<"reg", "reg">>)
   @@ Each({"CALL3"}, CallHead \o <<"reg", "reg", "reg">>)
   @@ Each({"CALL", "CALLE"}, CallHead \o <<"cnt">>)

ReadControl ==
   Each({"TESTNIL", "NOT"}, <<"reg", "reg">>) @@ Each({"SELECT"}, <<"jump", "jump">>)
   @@ Each({"RETURN_SELECT", "RESET_LINEAR", "NEW_AXIOMS", "JUMP"}, <<"jump">>)
   @@ Each({"RULE", "MARK_RULE"}, <<"uint">>) @@ Each({"NEW_NODE"}, <<"reg">>)
   @@ Each({"SEND_DELAY"}, <<"reg", "reg", "uint">>)
   @@ Each({"CALLF"}, <<"byte">>) @@ Each({"PUSHN"}, <<"cnt">>)
   @@ Each({"REMOTE_UPDATE"}, <<"reg", "pred", "pred", "cnt", "cnt">>)
   @@ Each({"LITERAL_CONS"}, <<"reg", "type", "jump">>)
   @@ Each({"NODE_TYPE"}, <<"reg", "uint">>)
   @@ Each({"RETURN", "NEXT", "RETURN_LINEAR", "RETURN_DERIVED", "END_LINEAR",
           "RULE_DONE", "PUSH", "POP", "PUSH_REGS", "POP_REGS"}, <<>>)

ReadFacts == Each({"ADDLINEAR", "ADDPERS", "ADDTPERS", "RUNACTION", "ENQUEUE_LINEAR"},
                  <<"reg">>)

ReadRemove == Each({"FABS"}, <<"reg", "reg">>) @@ Each({"REMOVE", "UPDATE"}, <<"reg">>)

ReadCoordinate ==
   Each({"SET_PRIORITY", "ADD_PRIORITY", "SET_DEFPRIO", "SET_AFFINITY"}, <<"reg", "reg">>)
   @@ Each({"SET_PRIORITYH", "ADD_PRIORITYH", "REM_PRIORITY", "SCHEDULE_NEXT",
            "SET_DEFPRIOH", "SET_STATIC", "SET_MOVING", "SET_AFFINITYH"}, <<"reg">>)
   @@ Each({"REM_PRIORITYH", "SET_STATICH", "SET_MOVINGH", "STOP_PROG"}, <<>>)

ReadQuery ==
   Each({"CPU_ID", "CPU_STATIC", "IS_STATIC", "IS_MOVING", "FACTS_PROVED",
         "FACTS_CONSUMED", "NODE_PRIORITY"}, <<"reg", "reg">>)
   @@ Each({"SET_CPUH"}, <<"reg">>)

ReadStruct ==
   Each({"MAKE_STRUCTR"}, <<"type", "reg">>) @@ Each({"MAKE_STRUCTF"}, <<"fld">>)
   @@ Each({"STRUCT_VALRR"}, <<"cnt", "reg", "reg">>)
   @@ Each({"STRUCT_VALFR"}, <<"cnt", "fld", "reg">>)
   @@ Each({"STRUCT_VALRF", "STRUCT_VALRFR"}, <<"cnt", "reg", "fld">>)
   @@ Each({"STRUCT_VALFF", "STRUCT_VALFFR"}, <<"cnt", "fld", "fld">>)

ReadMoves ==
   Each({"MVINTFIELD"}, <<"int", "fld">>) @@ Each({"MVINTREG", "MVTYPEREG"}, <<"int", "reg">>)
   @@ Each({"MVFIELDFIELD", "MVFIELDFIELDR"}, <<"fld", "fld">>)
   @@ Each({"MVFIELDREG"}, <<"fld", "reg">>) @@ Each({"MVPTRREG"}, <<"ptr", "reg">>)
   @@ Each({"MVNILFIELD", "MVHOSTFIELD", "MVTHREADIDFIELD"}, <<"fld">>)
   @@ Each({"MVNILREG", "MVTHREADIDREG"}, <<"reg">>)
   @@ Each({"MVREGFIELD", "MVREGFIELDR"}, <<"reg", "fld">>)
   @@ Each({"MVREGCONST"}, <<"reg", "const">>)
   @@ Each({"MVCONSTFIELD", "MVCONSTFIELDR"}, <<"const", "fld">>)
   @@ Each({"MVCONSTREG"}, <<"const", "reg">>)

ReadMoves2 ==
   Each({"MVINTSTACK"}, <<"int", "stk">>) @@ Each({"MVARGREG"}, <<"arg", "reg">>)
   @@ Each({"MVFLOATSTACK"}, <<"flt", "stk">>) @@ Each({"MVADDRFIELD"}, <<"node", "fld">>)
   @@ Each({"MVFLOATFIELD"}, <<"flt", "fld">>) @@ Each({"MVFLOATREG"}, <<"flt", "reg">>)
   @@ Each({"MVINTCONST"}, <<"int", "const">>) @@ Each({"MVWORLDFIELD"}, <<"fld">>)
   @@ Each({"MVWORLDREG", "MVCPUSREG", "MVHOSTREG"}, <<"reg">>)
   @@ Each({"MVSTACKPCOUNTER", "MVPCOUNTERSTACK"}, <<"stk">>)
   @@ Each({"MVSTACKREG"}, <<"stk", "reg">>) @@ Each({"MVSTACKFIELD"}, <<"reg", "fld">>)
   @@ Each({"MVREGSTACK"}, <<"reg", "stk">>) @@ Each({"MVADDRREG"}, <<"node", "reg">>)
   @@ Each({"MVREGREG"}, <<"reg", "reg">>)

ReadOperation == Each(Operations, <<"reg", "reg", "reg">>)

ReadHeadTail ==
   Each({"HEADRR", "TAILRR"}, <<"reg", "reg">>) @@ Each({"HEADFR", "TAILFR"}, <<"fld", "reg">>)
   @@ Each({"HEADFF", "HEADFFR", "TAILFF"}, <<"fld", "fld">>)
   @@ Each({"HEADRF", "HEADRFR", "TAILRF"}, <<"reg", "fld">>)

ReadCons ==
   Each({"CONSRRR"}, <<"type", "reg", "reg", "reg", "bool">>)
   @@ Each({"CONSRFF"}, <<"reg", "fld", "fld">>) @@ Each({"CONSFRF"}, <<"fld", "reg", "fld">>)
   @@ Each({"CONSFFR"}, <<"fld", "fld", "reg", "bool">>) @@ Each({"CONSRRF"}, <<"reg", "reg", "fld">>)
   @@ Each({"CONSRFR"}, <<"reg", "fld", "reg", "bool">>)
   @@ Each({"CONSFRR"}, <<"type", "fld", "reg", "reg", "bool">>)
   @@ Each({"CONSFFF"}, <<"fld", "fld", "fld">>)

Handler == ReadIter @@ ReadCall @@ ReadControl @@ ReadFacts @@ ReadRemove
           @@ ReadCoordinate @@ ReadQuery @@ ReadStruct @@ ReadMoves @@ ReadMoves2
           @@ ReadOperation @@ ReadHeadTail @@ ReadCons

Instrs == DOMAIN Handler

-----------------------------------------------------------------------------
(***************************************************************************)
(* Where the printer, instr_print of vm/instr.cpp, reads the operands it   *)
(* shows. It computes its own offsets and may leave trailing operands out. *)
(***************************************************************************)
PrintFacts ==
   Each({"RETURN", "RETURN_LINEAR", "RETURN_DERIVED", "END_LINEAR", "NEXT", "PUSH",
         "POP", "PUSH_REGS", "POP_REGS", "RULE_DONE", "REM_PRIORITYH", "STOP_PROG",
         "SET_STATICH", "SET_MOVINGH"}, <<>>)
   @@ Each({"RESET_LINEAR"}, <<>>) @@ Each({"IF"}, <<"reg", "jump">>)
   @@ Each({"IF_ELSE"}, <<"reg", "jump", "jump">>)
   @@ Each({"TESTNIL", "FLOAT", "SEND", "THREAD_SEND"}, <<"reg", "reg">>)
   @@ Each({"ALLOC"}, <<"pred", "reg">>)
   @@ Each({"ADDLINEAR", "ADDPERS", "ADDTPERS", "RUNACTION", "ENQUEUE_LINEAR"}, <<"reg">>)
   @@ Each(Iters, <<"ptr", "pred", "reg", "bool", "jump", "jump", "cnt">>)
   @@ Each(OIters, <<"ptr", "pred", "reg", "bool", "jump", "jump", "opt", "opt", "cnt">>)

\* Mutant: the printer of LITERAL_CONS takes the type for the first operand.
PrintCalls_swapped ==
   Each({"CALL0"}, CallHead) @@ Each({"CALL1"}, CallHead \o <<"reg">>)
   @@ Each({"CALL2"}, CallHead \o <<"reg", "reg">>)
   @@ Each({"CALL3"}, CallHead \o <<"reg", "reg", "reg">>)
   @@ Each({"CALL", "CALLE"}, CallHead \o <<"cnt">>)
   @@ Each({"REMOVE", "UPDATE", "NEW_NODE"}, <<"reg">>) @@ Each({"NOT"}, <<"reg", "reg">>)
   @@ Each({"LITERAL_CONS"}, <<"type", "jump", "reg">>)
   @@ Each({"RETURN_SELECT", "NEW_AXIOMS"}, <<"jump">>)
   @@ Each({"SELECT"}, <<"jump", "jump">>) @@ Each({"MARK_RULE", "RULE"}, <<"uint">>)

PrintCalls ==
   Each({"CALL0"}, CallHead) @@ Each({"CALL1"}, CallHead \o <<"reg">>)
   @@ Each({"CALL2"}, CallHead \o <<"reg", "reg">>)
   @@ Each({"CALL3"}, CallHead \o <<"reg", "reg", "reg">>)
   @@ Each({"CALL", "CALLE"}, CallHead \o <<"cnt">>)
   @@ Each({"REMOVE", "UPDATE", "NEW_NODE"}, <<"reg">>) @@ Each({"NOT"}, <<"reg", "reg">>)
   @@ Each({"LITERAL_CONS"}, <<"reg", "type", "jump">>)
   @@ Each({"RETURN_SELECT", "NEW_AXIOMS"}, <<"jump">>)
   @@ Each({"SELECT"}, <<"jump", "jump">>) @@ Each({"MARK_RULE", "RULE"}, <<"uint">>)

PrintMoves ==
   Each({"SEND_DELAY"}, <<"reg", "reg", "uint">>) @@ Each({"PUSHN"}, <<"cnt">>)
   @@ Each({"CALLF"}, <<"byte">>) @@ Each({"MAKE_STRUCTR"}, <<"type", "reg">>)
   @@ Each({"STRUCT_VALRR"}, <<"cnt", "reg", "reg">>)
   @@ Each({"STRUCT_VALFR"}, <<"cnt", "fld", "reg">>)
   @@ Each({"STRUCT_VALRF"}, <<"cnt", "reg", "fld">>) @@ Each({"STRUCT_VALRFR"}, <<"cnt", "reg">>)
   @@ Each({"STRUCT_VALFF", "STRUCT_VALFFR"}, <<"cnt", "fld", "fld">>)
   @@ Each({"MVINTFIELD"}, <<"int", "fld">>) @@ Each({"MVTYPEREG", "MVINTREG"}, <<"int", "reg">>)
   @@ Each({"MVFIELDFIELD", "MVFIELDFIELDR"}, <<"fld", "fld">>)
   @@ Each({"MVFIELDREG"}, <<"fld", "reg">>) @@ Each({"MVPTRREG"}, <<"ptr", "reg">>)
   @@ Each({"MVNILREG"}, <<"reg">>) @@ Each({"MVREGFIELD", "MVREGFIELDR"}, <<"reg", "fld">>)
   @@ Each({"MAKE_STRUCTF", "MVNILFIELD", "MVTHREADIDFIELD", "MVHOSTFIELD"}, <<"fld">>)
   @@ Each({"MVREGCONST"}, <<"reg", "const">>)

PrintMoves2 ==
   Each({"MVCONSTFIELD", "MVCONSTFIELDR"}, <<"const", "fld">>)
   @@ Each({"MVADDRFIELD"}, <<"node", "fld">>) @@ Each({"MVFLOATFIELD"}, <<"flt", "fld">>)
   @@ Each({"MVFLOATREG"}, <<"flt", "reg">>) @@ Each({"MVINTCONST"}, <<"int", "const">>)
   @@ Each({"MVWORLDFIELD"}, <<"fld">>) @@ Each({"MVSTACKPCOUNTER", "MVPCOUNTERSTACK"}, <<"stk">>)
   @@ Each({"MVSTACKREG"}, <<"stk", "reg">>) @@ Each({"MVREGSTACK"}, <<"reg", "stk">>)
   @@ Each({"MVADDRREG"}, <<"node", "reg">>) @@ Each({"MVTHREADIDREG", "MVHOSTREG"}, <<"reg">>)
   @@ Each({"MVINTSTACK"}, <<"int", "stk">>) @@ Each({"MVARGREG"}, <<"arg", "reg">>)

PrintOperations == Each(Operations, <<"reg", "reg", "reg">>) @@ Each({"MVREGREG"}, <<"reg", "reg">>)

PrintLists ==
   Each({"HEADRR", "TAILRR"}, <<"reg", "reg">>) @@ Each({"HEADFR", "TAILFR"}, <<"fld", "reg">>)
   @@ Each({"HEADFF", "HEADFFR", "TAILFF"}, <<"fld", "fld">>)
   @@ Each({"HEADRF", "HEADRFR", "TAILRF"}, <<"reg", "fld">>)
   @@ Each({"MVWORLDREG"}, <<"reg">>) @@ Each({"MVCONSTREG"}, <<"const", "reg">>)
   @@ Each({"CONSRRR"}, <<"type", "reg", "reg", "reg", "bool">>)
   @@ Each({"CONSRFF"}, <<"reg", "fld", "fld">>) @@ Each({"CONSFRF"}, <<"fld", "reg", "fld">>)
   @@ Each({"CONSFFR"}, <<"fld", "fld", "reg", "bool">>) @@ Each({"CONSRRF"}, <<"reg", "reg", "fld">>)
   @@ Each({"CONSRFR"}, <<"reg", "fld", "reg", "bool">>)
   @@ Each({"CONSFRR"}, <<"type", "fld", "reg", "reg", "bool">>)
   @@ Each({"CONSFFF"}, <<"fld", "fld", "fld">>)

PrintCoordinate ==
   Each({"MVFLOATSTACK"}, <<"flt", "stk">>) @@ Each({"MVSTACKFIELD"}, <<"stk", "fld">>)
   @@ Each({"SET_PRIORITY", "ADD_PRIORITY", "SET_DEFPRIO", "SET_AFFINITY", "CPU_ID",
            "NODE_PRIORITY", "CPU_STATIC", "IS_STATIC", "IS_MOVING", "FACTS_PROVED",
            "FACTS_CONSUMED", "FABS"}, <<"reg", "reg">>)
   @@ Each({"SET_PRIORITYH", "ADD_PRIORITYH", "SET_DEFPRIOH", "SET_STATIC", "SET_MOVING",
            "SET_AFFINITYH", "MVCPUSREG", "SET_CPUH", "REM_PRIORITY", "SCHEDULE_NEXT"},
           <<"reg">>)
   @@ Each({"JUMP"}, <<"jump">>) @@ Each({"NODE_TYPE"}, <<"reg", "uint">>)
   @@ Each({"REMOTE_UPDATE"}, <<"reg", "pred", "pred", "cnt", "cnt">>)

Printer == PrintFacts @@ PrintCalls @@ PrintMoves @@ PrintMoves2 @@ PrintOperations
           @@ PrintLists @@ PrintCoordinate

=============================================================================

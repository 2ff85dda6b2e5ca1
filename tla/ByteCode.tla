------------------------------ MODULE ByteCode ------------------------------
(***************************************************************************)
(* The byte code interpreter of vm/exec.cpp as a machine over addresses:   *)
(* fetch, dispatch, jumps, the recursion of execute for iterates, the call *)
(* stack of vm/call_stack.hpp, next to the printer of vm/instr.cpp, which  *)
(* walks the same code with advance of vm/instr.hpp. What an instruction   *)
(* computes is left out: a test may come out either way, an iterate finds  *)
(* up to MaxTuples tuples.                                                 *)
(*                                                                         *)
(* The code is a small program of every control construct with one         *)
(* arbitrary instruction in it, laid out as the compiler lays it out: the  *)
(* operation code, the operands the handler reads, the repeated operands.  *)
(***************************************************************************)
EXTENDS InstrFormat, InstrCodes, FiniteSets

CONSTANTS Ops,        \* the straight line instructions tried
          Iterates,   \* the iterates tried
          Shapes,     \* the control constructs tried
          Repeats,    \* number of repeated operands of CALL, SELECT, ...
          Pushed,     \* slots of a PUSHN and of the structure made of them
          MaxTuples,  \* tuples an iterate finds at most
          NumRegs,    \* NUM_REGS
          MaxCalls    \* depth of calls of the function

ASSUME OpsAssumption == Ops \subseteq Instrs /\ Iterates \subseteq Iters \cup OIters
ASSUME SizesAssumption == NumRegs \in Nat \ {0} /\ Repeats \in Nat /\ Pushed \in 0 .. 255

VARIABLES code,       \* the program: [op, n, at, j1, j2] in address order
          fun,        \* address of the function's code
          walk,       \* the printer's nested regions, innermost first
          seen,       \* addresses printed so far
          frames,     \* activations of execute, innermost first
          returning,  \* the return_type on its way out, or "none"
          is_linear,  \* state.is_linear
          stack,      \* call_stack: [vec, capacity, size]
          calls       \* addresses the calls under way must return to (history)

vars == <<code, fun, walk, seen, frames, returning, is_linear, stack, calls>>

-----------------------------------------------------------------------------
(***************************************************************************)
(* Programs, as the compiler emits them.                                   *)
(***************************************************************************)
Variadic == {"CALL", "CALLE", "REMOTE_UPDATE", "NODE_TYPE", "SELECT", "NEW_AXIOMS",
             "LITERAL_CONS"} \cup Iters \cup OIters

Unit(op) == CASE op = "SELECT" -> Size.jump
              [] op \in Iters \cup OIters -> 2
              [] OTHER -> 1

\* One instruction; to1 and to2 are the indices its jumps lead to.
I(op, to1, to2) == [op |-> op, to1 |-> to1, to2 |-> to2,
                    n |-> IF op \in Variadic THEN Repeats ELSE IF op = "PUSHN" THEN Pushed ELSE 0]
One(op) == I(op, 0, 0)

\* x is the instruction tried: a jump over its own data where it has one.
Template(shape, x, it, r) ==
   LET X(k) == I(x, IF x \in {"NEW_AXIOMS", "LITERAL_CONS"} THEN k + 1 ELSE 0, 0)
   IN CASE shape = "flat" -> <<X(1), One("RETURN")>>
        [] shape = "if" -> <<I("IF", 3, 0), X(2), One("RETURN")>>
        [] shape = "ifelse" ->
             <<I("IF_ELSE", 4, 5), X(2), I("JUMP", 5, 0), One("TESTNIL"), One("RETURN")>>
        [] shape = "iterate" ->
             <<I(it, 2, 6), X(2), I("IF", 5, 0), One(r), One("NEXT"), One("RETURN")>>
        [] shape = "nested" ->
             <<I("LINEAR_ITER", 2, 7), I(it, 3, 6), I("IF", 5, 0), One(r), One("NEXT"),
               One("NEXT"), One("RETURN")>>
        [] shape = "reset" ->
             <<I("LINEAR_ITER", 2, 10), I("RESET_LINEAR", 8, 0), I(it, 4, 7), I("IF", 6, 0),
               One("RETURN_DERIVED"), One("NEXT"), One("END_LINEAR"), One("REMOVE"), One(r),
               One("RETURN")>>
        [] shape = "select" ->
             <<I("SELECT", 6, 2), X(2), I("RETURN_SELECT", 6, 0), One("RULE"),
               I("RETURN_SELECT", 6, 0), One("RETURN")>>
        [] shape = "struct" -> <<One("PUSHN"), One("MVREGSTACK"), One("MVINTSTACK"),
                                 One(x), One("RETURN")>>
        [] shape = "call" ->
             <<One("PUSH"), One("MVPCOUNTERSTACK"), One("CALLF"), One("POP"), One("RETURN"),
               I("IF", 13, 0), One("PUSH_REGS"), One("PUSH"), One("MVPCOUNTERSTACK"),
               One("CALLF"), One("POP"), One("POP_REGS"), X(13), One("MVSTACKPCOUNTER")>>

EmitLen(i) == instr_size + Width(Handler[i.op])
              + (IF i.op \in Variadic THEN i.n * Unit(i.op) ELSE 0)

Assemble(t) ==
   LET At(k) == FoldSeq(LAMBDA i, sum : EmitLen(i) + sum, 0, SubSeq(t, 1, k - 1))
       Dist(k, to) == IF to = 0 THEN 0 ELSE At(to) - At(k)
   IN [k \in DOMAIN t |->
         [op |-> t[k].op, n |-> t[k].n, at |-> At(k),
          j1 |-> Dist(k, t[k].to1) - (IF t[k].op = "JUMP" THEN Base["JUMP"] ELSE 0),
          j2 |-> Dist(k, t[k].to2), next |-> At(k) + EmitLen(t[k])]]

Starts == {code[k].at : k \in DOMAIN code}
End == code[Len(code)].next
InstrAt(pc) == code[CHOOSE k \in DOMAIN code : code[k].at = pc]

-----------------------------------------------------------------------------
(***************************************************************************)
(* advance of vm/instr.hpp: the length of an instruction as the printer    *)
(* sees it. Iterates, NEW_AXIOMS and LITERAL_CONS store theirs.            *)
(***************************************************************************)
Sized(S) == [op \in S |-> Base[op]]

advance_control ==
   Sized({"ADDLINEAR", "ADDPERS", "RUNACTION", "ENQUEUE_LINEAR", "FLOAT", "ALLOC", "CALL",
          "CALL0", "CALL1", "CALL2", "CALL3", "CALLE", "IF", "IF_ELSE", "JUMP", "TESTNIL",
          "NOT", "RETURN", "RETURN_LINEAR", "RETURN_DERIVED", "NEXT", "RETURN_SELECT",
          "SELECT", "REMOVE", "UPDATE", "RESET_LINEAR", "END_LINEAR", "RULE", "RULE_DONE",
          "NEW_NODE", "SEND_DELAY", "PUSH", "PUSHN", "POP", "PUSH_REGS", "POP_REGS",
          "CALLF"})
   @@ Each({"SEND", "THREAD_SEND"}, Base["SEND"]) @@ Each({"ADDTPERS"}, Base["ADDPERS"])

advance_moves ==
   Sized({"MAKE_STRUCTR", "MAKE_STRUCTF", "STRUCT_VALRR", "STRUCT_VALFR", "STRUCT_VALRF",
          "STRUCT_VALRFR", "STRUCT_VALFF", "STRUCT_VALFFR", "MVINTFIELD", "MVINTREG",
          "MVFIELDREG", "MVPTRREG", "MVNILFIELD", "MVNILREG", "MVHOSTFIELD", "MVREGCONST",
          "MVADDRFIELD", "MVFLOATFIELD", "MVFLOATREG", "MVINTCONST", "MVWORLDFIELD",
          "MVSTACKPCOUNTER", "MVPCOUNTERSTACK", "MVSTACKREG", "MVREGSTACK", "MVADDRREG",
          "MVHOSTREG", "MVFLOATSTACK", "MVARGREG"})
   @@ Each({"MVFIELDFIELD", "MVFIELDFIELDR"}, Base["MVFIELDFIELD"])
   @@ Each({"MVREGFIELD", "MVREGFIELDR"}, Base["MVREGFIELD"])
   @@ Each({"MVCONSTFIELD", "MVCONSTFIELDR"}, Base["MVCONSTFIELD"])

advance_lists ==
   Each(Operations, instr_size + 3 * Size.reg)
   @@ Sized({"MVREGREG", "HEADRR", "HEADFR", "TAILRR", "TAILFR", "TAILFF", "TAILRF",
             "MVWORLDREG", "MVCONSTREG", "MVINTSTACK", "CONSRRR", "CONSRFF", "CONSFRF",
             "CONSFFR", "CONSRRF", "CONSRFR", "CONSFRR", "CONSFFF"})
   @@ Each({"HEADFF", "HEADFFR"}, Base["HEADFF"]) @@ Each({"HEADRF", "HEADRFR"}, Base["HEADRF"])

advance_coordinate ==
   Sized({"SET_PRIORITY", "SET_PRIORITYH", "ADD_PRIORITY", "ADD_PRIORITYH", "STOP_PROG",
          "CPU_ID", "NODE_PRIORITY", "MVSTACKFIELD", "SET_DEFPRIOH", "SET_DEFPRIO",
          "SET_STATICH", "SET_STATIC", "SET_MOVINGH", "SET_MOVING", "SET_AFFINITYH",
          "SET_AFFINITY", "CPU_STATIC", "MVCPUSREG", "SET_CPUH", "IS_STATIC", "IS_MOVING",
          "REM_PRIORITY", "REM_PRIORITYH", "FACTS_PROVED", "FACTS_CONSUMED",
          "SCHEDULE_NEXT", "FABS", "REMOTE_UPDATE", "NODE_TYPE", "MVTYPEREG",
          "MVTHREADIDREG", "MVTHREADIDFIELD", "MARK_RULE"})

advance_table == advance_control @@ advance_moves @@ advance_lists @@ advance_coordinate

\* The address the printer takes for the instruction after i.
advance(i) ==
   IF i.op \in Iters \cup OIters \cup {"NEW_AXIOMS", "LITERAL_CONS"} THEN i.at + i.j1
   ELSE i.at + advance_table[i.op]
        + (IF i.op \in Variadic THEN i.n * Unit(i.op) ELSE 0)

-----------------------------------------------------------------------------
(***************************************************************************)
(* The printer, instr_print and instrs_print* of vm/instr.cpp. A region is *)
(* printed up to an address, or up to the instruction stop.                *)
(***************************************************************************)
Region(pc, until, stop) == [pc |-> pc, until |-> until, stop |-> stop]

\* Where the pieces of code of a SELECT begin.
SelectCodes(i) ==
   {i.next} \cup {code[k].next : k \in {k \in DOMAIN code : /\ code[k].op = "RETURN_SELECT"
                                                            /\ code[k].next < i.at + i.j1}}

\* The address select_hash_code computes from the entry the compiler wrote for
\* the code at address a.
select_hash_code(i, a) ==
   LET hashed == a - i.next + 1
   IN i.at + Base["SELECT"] + i.n * Size.jump + hashed - 1

\* The regions nested in instruction i, and the address after all of it.
Nested(i) ==
   CASE i.op = "IF" -> <<Region(advance(i), i.at + i.j1, "none")>>
     [] i.op = "IF_ELSE" -> <<Region(advance(i), i.at + i.j1, "none"),
                             Region(i.at + i.j1, i.at + i.j2, "none")>>
     [] i.op \in Iters \cup OIters -> <<Region(i.at + i.j1, i.at + i.j2, "none")>>
     [] i.op = "RESET_LINEAR" -> <<Region(advance(i), End, "END_LINEAR")>>
     [] i.op = "SELECT" ->
          SetToSeq({Region(select_hash_code(i, a), End, "RETURN_SELECT") : a \in SelectCodes(i)})
     [] OTHER -> <<>>

After(i) == CASE i.op \in {"IF", "SELECT"} -> i.at + i.j1
              [] i.op \in {"IF_ELSE"} \cup Iters \cup OIters -> i.at + i.j2
              [] OTHER -> advance(i)

instr_print ==
   /\ walk # <<>> /\ walk[1].pc \in Starts
   /\ walk[1].pc < walk[1].until
   /\ LET i == InstrAt(walk[1].pc)
          outer == Tail(walk)
      IN /\ seen' = seen \cup {i.at}
         /\ walk' = IF i.op # walk[1].stop
                    THEN Nested(i) \o <<[walk[1] EXCEPT !.pc = After(i)]>> \o outer
                    ELSE IF i.op = "END_LINEAR"
                         THEN <<[outer[1] EXCEPT !.pc = advance(i)]>> \o Tail(outer)
                         ELSE outer
   /\ UNCHANGED <<code, fun, frames, returning, is_linear, stack, calls>>

\* instrs_print and instrs_print_until return at the end of their region.
PrintRegionEnd ==
   /\ walk # <<>> /\ walk[1].stop = "none"
   /\ walk[1].pc >= walk[1].until
   /\ walk' = Tail(walk)
   /\ UNCHANGED <<code, fun, seen, frames, returning, is_linear, stack, calls>>

-----------------------------------------------------------------------------
(***************************************************************************)
(* call_stack of vm/call_stack.hpp: vec is filled from its end; expand     *)
(* doubles it once and copies the old contents to the upper half. -1 stands *)
(* for memory never written, -2 for a saved register.                      *)
(***************************************************************************)
EmptyStack == [vec |-> [p \in 0 .. 2 * NumRegs - 1 |-> -1],
               capacity |-> 2 * NumRegs, size |-> 0]

\* Mutant: the old contents are copied to the lower half.
expand_low(s) == [s EXCEPT !.vec = [p \in 0 .. 2 * s.capacity - 1 |->
                                       IF p < s.capacity THEN s.vec[p] ELSE -1],
                           !.capacity = 2 * @]

expand(s) == [s EXCEPT !.vec = [p \in 0 .. 2 * s.capacity - 1 |->
                                   IF p < s.capacity THEN -1 ELSE s.vec[p - s.capacity]],
                       !.capacity = 2 * @]

push(s, howmany) == LET t == [s EXCEPT !.size = @ + howmany]
                    IN IF t.size > t.capacity THEN expand(t) ELSE t

pop(s, howmany) == [s EXCEPT !.size = @ - howmany]

get_stack_at(s, off) == s.capacity - s.size + off

set_stack_at(s, off, v) == [s EXCEPT !.vec[get_stack_at(s, off)] = v]

push_regs(s) == LET t == push(s, NumRegs)
                    base == get_stack_at(t, 0)
                IN [t EXCEPT !.vec = [p \in DOMAIN t.vec |->
                       IF p \in base .. base + NumRegs - 1 THEN -2 ELSE t.vec[p]]]

-----------------------------------------------------------------------------
(***************************************************************************)
(* execute of vm/exec.cpp. A frame is one activation of the C++ function:  *)
(* the outermost one, the body of an iterate for one tuple, or the code    *)
(* between RESET_LINEAR and END_LINEAR.                                    *)
(***************************************************************************)
Running == walk = <<>> /\ frames # <<>> /\ returning = "none" /\ frames[1].pc \in Starts

Here == InstrAt(frames[1].pc)

\* The instruction at the program counter is dispatched to code of S.
At(S) == Running /\ Dispatched(Here.op) \in S

Goto(pc) == frames' = [frames EXCEPT ![1].pc = pc]

Quiet == UNCHANGED <<code, fun, walk, seen, returning, is_linear>>

\* JUMP(label, size) ... ADVANCE(): the handler runs, then npc.
Straight(table) ==
   /\ At(DOMAIN table)
   /\ Goto(Here.at + table[Here.op])
   /\ Quiet /\ UNCHANGED <<stack, calls>>

execute_return ==
   /\ At({"RETURN", "NEXT", "RETURN_LINEAR", "RETURN_DERIVED", "END_LINEAR"})
   /\ returning' = Here.op
   /\ UNCHANGED <<code, fun, walk, seen, frames, is_linear, stack, calls>>

execute_if ==
   /\ At({"IF", "IF_ELSE", "JUMP", "RETURN_SELECT"})
   /\ LET i == Here
      IN \/ i.op \in {"IF", "IF_ELSE"} /\ Goto(i.at + Base[i.op])
         \/ i.op \in {"IF", "IF_ELSE", "RETURN_SELECT"} /\ Goto(i.at + i.j1)
         \/ i.op = "JUMP" /\ Goto(i.at + i.j1 + Base["JUMP"])
   /\ Quiet /\ UNCHANGED <<stack, calls>>

\* A node beyond the static ones, or without code of its own, skips the SELECT.
execute_select ==
   /\ At({"SELECT"})
   /\ \/ Goto(Here.at + Here.j1)
      \/ \E a \in SelectCodes(Here) : Goto(select_hash_code(Here, a))
   /\ Quiet /\ UNCHANGED <<stack, calls>>

Frame(kind, pc, left, lin) == [kind |-> kind, pc |-> pc, left |-> left, lin |-> lin]

execute_reset_linear ==
   /\ At({"RESET_LINEAR"})
   /\ frames' = <<Frame("reset", Here.at + Base["RESET_LINEAR"], 0, is_linear)>> \o frames
   /\ is_linear' = FALSE
   /\ UNCHANGED <<code, fun, walk, seen, returning, stack, calls>>

\* The iterates over facts that are consumed: their this_is_linear is true.
LinearIters == {"LINEAR_ITER", "TLINEAR_ITER", "OLINEAR_ITER"}

execute_iter ==
   /\ At(Iters \cup OIters)
   /\ \/ Goto(Here.at + Here.j2) /\ UNCHANGED is_linear
      \/ \E n \in 1 .. MaxTuples :
            /\ frames' = <<Frame("iter", Here.at + Here.j1, n - 1, is_linear)>> \o frames
            /\ is_linear' = (is_linear \/ Here.op \in LinearIters)
   /\ UNCHANGED <<code, fun, walk, seen, returning, stack, calls>>

\* A body of an iterate came back: the tuple loop of execute_*_iter, POP_STATE
\* and DECIDE_NEXT_ITER_INSTR.
leave_iter ==
   /\ returning # "none" /\ frames # <<>> /\ frames[1].kind = "iter"
   /\ LET f == frames[1]
          it == InstrAt(frames[2].pc)
          outer == [Tail(frames) EXCEPT ![1].pc = it.at + it.j2]
      IN IF returning = "RETURN_LINEAR" \/ (returning = "RETURN_DERIVED" /\ f.lin)
         THEN frames' = Tail(frames) /\ is_linear' = f.lin /\ UNCHANGED returning
         ELSE /\ returning' = "none"
              /\ \/ f.left = 0 /\ frames' = outer /\ is_linear' = f.lin
                 \/ /\ f.left > 0
                    /\ frames' = [frames EXCEPT ![1].pc = it.at + it.j1, ![1].left = @ - 1]
                    /\ is_linear' = (f.lin \/ it.op \in LinearIters)
   /\ UNCHANGED <<code, fun, walk, seen, stack, calls>>

\* Mutant: is_linear is not put back.
leave_reset_linear ==
   /\ returning # "none" /\ frames # <<>> /\ frames[1].kind = "reset"
   /\ LET reset == InstrAt(frames[2].pc)
      IN frames' = [Tail(frames) EXCEPT ![1].pc = reset.at + reset.j1]
   /\ returning' = "none"
   /\ UNCHANGED <<code, fun, walk, seen, is_linear, stack, calls>>

leave_reset ==
   /\ returning # "none" /\ frames # <<>> /\ frames[1].kind = "reset"
   /\ LET reset == InstrAt(frames[2].pc)
      IN frames' = [Tail(frames) EXCEPT ![1].pc = reset.at + reset.j1]
   /\ is_linear' = frames[1].lin
   /\ returning' = "none"
   /\ UNCHANGED <<code, fun, walk, seen, stack, calls>>

\* do_execute returns.
leave_main ==
   /\ returning # "none" /\ frames # <<>> /\ frames[1].kind = "main"
   /\ frames' = <<>>
   /\ UNCHANGED <<code, fun, walk, seen, returning, is_linear, stack, calls>>

execute_stack ==
   /\ At({"PUSH", "PUSHN", "POP", "PUSH_REGS", "POP_REGS"})
   /\ stack' = CASE Here.op = "PUSH" -> push(stack, 1)
                 [] Here.op = "PUSHN" -> push(stack, Here.n)
                 [] Here.op = "POP" -> pop(stack, 1)
                 [] Here.op = "PUSH_REGS" -> push_regs(stack)
                 [] Here.op = "POP_REGS" -> pop(stack, NumRegs)
   /\ Goto(Here.at + Base[Here.op])
   /\ Quiet /\ UNCHANGED calls

execute_make_struct ==
   /\ At({"MAKE_STRUCTR", "MAKE_STRUCTF"})
   /\ stack' = pop(stack, Pushed)
   /\ Goto(Here.at + Base[Here.op])
   /\ Quiet /\ UNCHANGED calls

\* The return address is the address of the CALLF that follows.
execute_mvpcounterstack ==
   /\ At({"MVPCOUNTERSTACK"})
   /\ stack' = set_stack_at(stack, 0, Here.at + Base["MVPCOUNTERSTACK"])
   /\ Goto(Here.at + Base["MVPCOUNTERSTACK"])
   /\ Quiet /\ UNCHANGED calls

execute_callf ==
   /\ At({"CALLF"}) /\ Len(calls) < MaxCalls
   /\ calls' = <<Here.next>> \o calls
   /\ Goto(fun)
   /\ Quiet /\ UNCHANGED stack

execute_mvstackpcounter ==
   /\ At({"MVSTACKPCOUNTER"}) /\ calls # <<>>
   /\ Goto(stack.vec[get_stack_at(stack, 0)] + Base["CALLF"])
   /\ calls' = Tail(calls)
   /\ Quiet /\ UNCHANGED stack

-----------------------------------------------------------------------------
(***************************************************************************)
(* The sizes by which the dispatch code steps over straight line           *)
(* instructions, in the order of vm/exec.cpp. What their handlers compute  *)
(* does not touch the program counter.                                     *)
(***************************************************************************)
dispatch_facts ==
   Sized({"REMOVE", "UPDATE", "ALLOC", "SEND", "THREAD_SEND", "ADDLINEAR", "ADDPERS",
          "RUNACTION", "ENQUEUE_LINEAR", "SEND_DELAY", "NOT", "TESTNIL", "FLOAT"})

dispatch_calls ==
   Each({"CALL"}, Base["CALL"] + Repeats * Size.reg)
   @@ Sized({"CALL0", "CALL1", "CALL2", "CALL3", "RULE", "RULE_DONE", "NEW_NODE"})

dispatch_structs ==
   Sized({"STRUCT_VALRR", "STRUCT_VALFR", "STRUCT_VALRF", "STRUCT_VALRFR", "STRUCT_VALFF",
          "STRUCT_VALFFR"})

dispatch_moves ==
   Sized({"MVINTFIELD", "MVINTREG", "MVTYPEREG", "MVFIELDREG", "MVPTRREG", "MVNILFIELD",
          "MVNILREG", "MVHOSTFIELD", "MVREGCONST", "MVADDRFIELD", "MVFLOATFIELD"})
   @@ Each({"MVFIELDFIELD", "MVFIELDFIELDR"}, Base["MVFIELDFIELD"])
   @@ Each({"MVREGFIELD", "MVREGFIELDR"}, Base["MVREGFIELD"])
   @@ Each({"MVCONSTFIELD", "MVCONSTFIELDR"}, Base["MVCONSTFIELD"])

dispatch_moves2 ==
   Sized({"MVFLOATREG", "MVINTCONST", "MVWORLDFIELD", "MVSTACKREG", "MVREGSTACK",
          "MVADDRREG", "MVHOSTREG", "MVTHREADIDREG", "MVTHREADIDFIELD"})

dispatch_int == Each(IntOps \cup {"ADDRNOTEQUAL", "ADDREQUAL", "BOOLOR"},
                     instr_size + 3 * Size.reg)

dispatch_float == Each(FloatOps \cup {"BOOLEQUAL", "BOOLNOTEQUAL"}, instr_size + 3 * Size.reg)
                  @@ Sized({"MVREGREG"})

dispatch_lists ==
   Sized({"HEADRR", "HEADFR", "TAILRR", "TAILFR", "TAILFF", "TAILRF", "MVWORLDREG",
          "MVCONSTREG", "MVINTSTACK", "MVFLOATSTACK", "MVARGREG"})
   @@ Each({"HEADFF", "HEADFFR"}, Base["HEADFF"]) @@ Each({"HEADRF", "HEADRFR"}, Base["HEADRF"])

dispatch_cons ==
   Sized({"CONSRRR", "CONSRFF", "CONSFRF", "CONSFFR", "CONSRRF", "CONSRFR", "CONSFRR",
          "CONSFFF"})
   @@ Each({"CALLE"}, Base["CALLE"] * Repeats)

dispatch_coordinate ==
   Sized({"SET_PRIORITY", "SET_PRIORITYH", "ADD_PRIORITY", "ADD_PRIORITYH", "SET_DEFPRIOH",
          "SET_DEFPRIO", "SET_STATICH", "SET_STATIC", "SET_MOVINGH", "SET_MOVING",
          "SET_AFFINITYH", "SET_AFFINITY", "STOP_PROG", "CPU_ID", "NODE_PRIORITY",
          "CPU_STATIC", "MVCPUSREG", "SET_CPUH", "MVSTACKFIELD", "IS_STATIC", "IS_MOVING",
          "FACTS_PROVED", "FACTS_CONSUMED", "REM_PRIORITY"})

\* Mutant: the registers of a REMOTE_UPDATE are not stepped over.
dispatch_rest_base ==
   Sized({"REM_PRIORITYH", "SCHEDULE_NEXT", "ADDTPERS", "FABS", "MARK_RULE", "REMOTE_UPDATE"})
   @@ Each({"NODE_TYPE"}, Base["NODE_TYPE"] + Repeats)

dispatch_rest ==
   Sized({"REM_PRIORITYH", "SCHEDULE_NEXT", "ADDTPERS", "FABS", "MARK_RULE"})
   @@ Each({"REMOTE_UPDATE"}, Base["REMOTE_UPDATE"] + Repeats * Size.reg)
   @@ Each({"NODE_TYPE"}, Base["NODE_TYPE"] + Repeats)

\* NEW_AXIOMS and LITERAL_CONS carry data they step over themselves.
execute_data ==
   /\ At({"NEW_AXIOMS", "LITERAL_CONS"})
   /\ Goto(Here.at + Here.j1)
   /\ Quiet /\ UNCHANGED <<stack, calls>>

dispatch_tables == {dispatch_facts, dispatch_calls, dispatch_structs, dispatch_moves,
                    dispatch_moves2, dispatch_int, dispatch_float, dispatch_lists,
                    dispatch_cons, dispatch_coordinate, dispatch_rest}

execute_straight == \E table \in dispatch_tables : Straight(table)

-----------------------------------------------------------------------------
Plain == Ops \ {"MAKE_STRUCTR", "MAKE_STRUCTF"}

Programs ==
   {Template(shape, x, "LINEAR_ITER", "RETURN_DERIVED") :
       shape \in Shapes \cap {"flat", "if", "ifelse", "select", "call", "iterate"}, x \in Plain}
   \cup {Template("struct", x, "LINEAR_ITER", "NEXT") :
            x \in IF "struct" \in Shapes THEN Ops \ Plain ELSE {}}
   \cup {Template(shape, "SEND", it, r) :
            shape \in Shapes \cap {"iterate", "nested", "reset"}, it \in Iterates,
            r \in {"NEXT", "RETURN_LINEAR", "RETURN_DERIVED"}}

Init ==
   /\ \E t \in Programs :
         /\ code = Assemble(t)
         /\ fun = IF t[1].op = "PUSH" THEN Assemble(t)[6].at ELSE 0
   /\ walk = IF fun = 0 THEN <<Region(0, End, "none")>>
             ELSE <<Region(0, fun, "none"), Region(fun, End, "none")>>
   /\ seen = {}
   /\ frames = <<Frame("main", 0, 0, FALSE)>>
   /\ returning = "none" /\ is_linear = FALSE
   /\ stack = EmptyStack /\ calls = <<>>

Next == \/ instr_print \/ PrintRegionEnd
        \/ execute_return \/ execute_if \/ execute_select \/ execute_reset_linear
        \/ execute_iter \/ leave_iter \/ leave_reset \/ leave_main
        \/ execute_stack \/ execute_make_struct \/ execute_mvpcounterstack
        \/ execute_callf \/ execute_mvstackpcounter \/ execute_data \/ execute_straight

Spec == Init /\ [][Next]_vars

-----------------------------------------------------------------------------
\* Every address the interpreter fetches from is the first byte of an instruction
\* of the program, and the printer, which walks by advance and by the stored
\* jumps, prints exactly the instructions there are.
FetchesInstructions ==
   /\ \A f \in DOMAIN frames : frames[f].pc \in Starts
   /\ seen \subseteq Starts /\ (walk = <<>> => seen = Starts)
   /\ walk # <<>> => walk[1].pc \in Starts \cup {walk[1].until}

\* The dispatcher's step over an instruction is the one of advance: the assertion
\* "npc == advance(pc)" of the JUMP macro, vm/exec.cpp:2436.
NextIsAdvance ==
   Running => \A table \in dispatch_tables :
      Here.op \in DOMAIN table => Here.at + table[Here.op] = advance(Here)

\* What the printer shows of an instruction it reads at the offsets from which the
\* handler reads, and the operation it names is the one dispatched.
PrinterReadsOperands ==
   walk # <<>> /\ walk[1].pc \in Starts =>
      LET op == InstrAt(walk[1].pc).op
      IN /\ Dispatched(op) = op
         /\ IsPrefix([k \in DOMAIN Printer[op] |-> Size[Printer[op][k]]],
                     [k \in DOMAIN Handler[op] |-> Size[Handler[op][k]]])

\* A function returns behind the CALLF that called it: the return address on the
\* call stack outlives the pushes, the saved registers and the reallocations of
\* the calls made meanwhile, as long as one doubling makes room for each push
\* (StackFits).
ReturnsToCaller ==
   At({"MVSTACKPCOUNTER"}) /\ calls # <<>> =>
      stack.vec[get_stack_at(stack, 0)] + Base["CALLF"] = calls[1]

\* The call stack stays within its array (push expands it once).
StackFits == stack.size <= stack.capacity

\* RESET_LINEAR ends at END_LINEAR, and when execute returns to do_execute the
\* stack is empty (the assertions of RESET_LINEAR and do_execute). is_linear says
\* that an iterate that consumes its fact is under way since the innermost
\* RESET_LINEAR, however the bodies ended.
EndsClean ==
   /\ returning # "none" /\ frames # <<>> /\ frames[1].kind = "reset"
         => returning = "END_LINEAR"
   /\ frames = <<>> => stack.size = 0
   /\ is_linear = \E f \in DOMAIN frames : /\ frames[f].kind = "iter"
                                          /\ InstrAt(frames[f + 1].pc).op \in LinearIters
                                          /\ \A g \in 1 .. f : frames[g].kind # "reset"

=============================================================================

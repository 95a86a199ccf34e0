# NewPiler in TLA+

Specifications of NewPiler, from the syntax tree of a SysY program to the RISC-V text that the
compiler prints: the Eeyore code of declarations, expressions and control flow, the parser that reads
it back, and every pass of the back end. The modules are translated from `src/src/`; paths below are relative to that directory.

## The system

NewPiler is a sequential program, a pipeline of passes over one program (`main.cpp:50-79`). Nothing
runs concurrently and nothing is persisted. What is hard about it is that each pass silently relies
on what earlier passes left behind - orders of lists, stale edges, numbers given out in one loop and
used three passes later - and that a mistake shows only in compiled programs of the right shape.

| Component | State | Operations | Status |
|---|---|---|---|
| SysY lexer, parser, AST (`sysy/c_lexer.l`, `c_parser.y`, `c_ast.hpp`, `c_new.cpp`) | the tree | parse | not modelled |
| SysY symbol table (`sysy/c_symtab.*`) | stack of scopes, functions, counters | new/delete block, register, find | `ValueGen` |
| SysY code generation (`sysy/c_gen_e.cpp`) | code lists, label globals, temporaries | `code_gen`, `const_fold`, `traverse`, initializers | `ControlGen` (control flow), `ValueGen` (everything else) |
| Eeyore parser (`eeyore/e_parser.cpp`) | `cur_func_`, `params_`, `labels_` | parse a line | `EeyoreParser` |
| Eeyore symbol table (`eeyore/e_symtab.*`) | functions with `locals_`, `stmts_`, `label_to_node_` | register, find, add a statement | `EeyoreParser`, `EeyoreMachine`; blocks in `FlowGraph`, the maps of the allocator in `LinearScan` |
| Flow graph (`backend/dataflow.cpp:4-199`) | `is_entry_`, `is_exit_`, blocks and statements with `preds_`, `succs_`, `labels_`, `where_` | mark, split, visit, drop, relabel, link, order | `FlowGraph` |
| Liveness (`backend/dataflow.cpp:201-296`) | `live_in_`, `live_out_`, `work_list` | one statement off the queue | `Liveness`, implementing `DataflowSolution` |
| Live intervals (`backend/linear_scan.cpp:3-50`) | `live_intervals_` | interval of a variable | `LiveIntervals` |
| Linear scan (`backend/linear_scan.cpp:52-202`) | `active`, `free_regs`, `var2reg`, `var2stack`, `reg2stack`, `used_regs`, `stk_sz` | expire, allocate, spill, place, save slots | `LinearScan` |
| Tigger generation (`eeyore/e_gen_t.cpp`) | the maps above, read only; emitted code | entry, one statement, `get_reg`, `store_into_stack`, `save_regs`, `restore_regs` | `TiggerGen`, executed in `Backend` |
| RISC-V selection (`backend/t_gen_r.cpp`) | `STK`; emitted code | one line of Tigger | `RiscVGen` |
| Strength reduction (`backend/opt.cpp`) | the list of lines | one line | `RiscVGen` |
| Debug printers (`eeyore/e_debug.cpp`, `backend/newpiler.cpp`) | none | print | not modelled |

What makes each of them correct:

- **SysY control flow**: the labels of nested statements and conditions, which go through four global
  variables, lead where the source says.
- **SysY symbol table**: a name means what the innermost block around it says, Eeyore names of a
  function are unique, counters that are reset are reset in time.
- **SysY declarations and expressions**: whatever is folded, spliced or put into temporaries, the
  program makes the same calls with the same values, and leaves the same values in its variables.
- **Eeyore parser**: a call has the params of that call, a label belongs to the next statement.
- **Flow graph**: blocks are entered at the top and left at the bottom; exactly the statements that
  control can reach are kept; after renaming and dropping labels every jump finds one label, the
  right one, in the whole program.
- **Liveness**: it ends, with the least solution of the dataflow equations.
- **Intervals**: they cover every statement at which the variable is live.
- **Linear scan**: no register and no word of the frame has two owners at a time; everything that
  the code generator looks up exists.
- **Tigger generation**: whenever code reads a register for a value, the value is there: across
  moves of params, calls, spills, reuse of registers, and at the return.
- **RISC-V**: every line has the outcome of its Tigger line, can be encoded, and stays in the frame.

The hazards, each at its line, are in `PROJECT.json`.

## The modules

**`SysYFlow`** is the reference for control flow in SysY: what a function has still to do, rewritten
until its head is a statement or the evaluation of a leaf of a condition. The body of a function is a
table of nodes that refer to parts standing before them, as the parser builds the tree from its parts
up (`c_parser.y:149-152`); `IsBody` says which tables are bodies: the root is a block, and `break` and
`continue` stand in loops. **`ControlGen`** translates
`code_gen` of blocks and statements and `CCondExpr::traverse` as recursive functions of the nodes
(`CodeGen`, `Traverse`; what one call does is `GenNode`, `TraverseNode`) that take the four
label globals and return them with the code (`Compile`), and then runs the code line by line
(`PassLabel`, `Jump`, `JumpIf`, `Evaluate`, `Perform`, `Return`) next to the source (`Unfold`). A leaf may
have another value each time it is evaluated. Expressions, declarations and calls are single lines.

**`SysYValues`** is the reference for everything else in SysY: objects, scopes, operators, evaluation from
left to right, C's initializer lists, arrays as params, and the functions of the runtime library,
whose calls are on record. **`ValueGen`** takes a program item by item (`DeclareGlobal`, `BeginFunction`,
`DeclareLocal`, `OpenBlock`, `CloseBlock`, `AssignStmt`, `ExprStmt`, `RetStmt`, `EndFunction`) through
`const_fold`, `gen_temp`, `index_unfold`, `set_values` and `code_gen`, which are operators that take and
return the symbol table (a record with the fields of `CSymbolTable` and `temp_cnt`). The lines are
sequences of tokens, what `>>` reads of them. `Parse` is `parse_eeyore`, from **`EeyoreParser`**: a fold
of `parse_eeyore_line` over the lines with the state of the parser as a record. `Execute` runs the
statements on **`EeyoreMachine`** (objects of four bytes per element, with every access checked), globals
starting with the data that `compile_eeyore` gives them (`GlobalData`), and the program on
`SysYValues`; `SameOutcome` compares them.

**`FlowGraph`** has the state of `gen_control_flow_graph`, `set_stmt_pred_succ` and `order_stmts`; an
action is one traversal of one function (`MarkEntries`, `MarkExits`, `MakeBlocks`, `VisitBlock(b)` for
one call of `CFG_dfs`, `DropDeadBlocks`, `Relabel`, `LinkStatements`), and of `order_stmts` one block
(`OrderBlock`, `EndOrder`). `blocks_` is always in the order of the first statements of the blocks, so it
is a set here; so are `preds_` and the links between statements, of which only the elements matter,
while `succs_` of a block keeps its order: the code asks for its second element. Programs have
several functions, since labels are numbered throughout the program.

**`DataflowSolution`** is the promise: any statement may recompute its sets at any time. **`Liveness`**
is the worklist loop: `Process` is one turn of it, `NewIn`, `GrownOut` and `Requeued` its three
assignments. `live_out_` only grows in the code (it is inserted into) and so it does in the model. A
graph may contain `Dead` statements: exits of unreachable blocks, which stay in `preds_` of the blocks
they led to and are therefore put onto the worklist.

**`LiveIntervals`** gives `start_` and `end_` of a variable.

**`LinearScan`** has one action per iteration of each loop of `linear_scan`: `Allocate`, `SpillActive`
and `SpillCurrent` for the loop over the intervals (each of them expires intervals first),
`PlaceFrame` for the loop over `var2reg` (a hash map, so in any order), `SaveSlot` for the loops over
the registers. Register names are sequences in ascending number; variables are numbers in the order
of their names.

**`TiggerGen`** translates `compile_eeyore_stmt`: the sequence of Tigger instructions of a statement,
with registers, slots and helpers as in the code and with operations abstract; a global array is its
address, loaded with `loadaddr`, a global variable a place in memory. **`Backend`** composes
`Liveness`, `LiveIntervals`, `LinearScan` and `TiggerGen` with `INSTANCE` in the order of
`main.cpp:67-72` and then executes the emitted Tigger code next to the Eeyore function. A place (a
register, a slot, a global) contains the set of names that its current value has: an assignment to `x`
takes the name `x` from every other place, a copy gives the value one more name. The instruction says
which value the Eeyore statement means to read where (`reads`), and `OperandsCurrent` is that it is
there. A callee returns with everything destroyed that the generated code of a callee does not save,
and with every global assigned anew.

**`RiscVGen`** takes a Tigger function line by line through `parse_compile_tigger` (`Compile`) and
`strength_reduction` (`Keep`, or `Halve` once per turn of the loop that counts shifts and then `Shift`),
and runs the RISC-V lines (`RunRegister`, `RunStore`, `RunJump`, `RunCall`) on `Bits`-bit registers next
to the Tigger machine. A label is the number of the line that it stands before, so `goto` and the six
conditional jumps, of both machines, lead to lines, and `ret` behind the last one; a global is its
address, which `la` loads and `lui` with `%hi` and `%lo` splits. `Kept` and `Shifted` are what
`strength_reduction` puts in the place of a line, `Result` and `Taken` what a line does, as functions
of the registers and the memory. `IsFunction` says what Tigger functions are: TLC evaluates it on those of
the run.

## What is checked

Every `MC` module gives the constants their values; a `.cfg` names a specification and its properties.

| Run | Bounds | Shows |
|---|---|---|
| `control_gen` | statements nested up to three deep in a loop; an if, an if with else and a loop under every condition of up to three operands of `||`, each of up to three of `&&` | code and source evaluate and do the same things in the same order (`AgreesWithSource`), labels and the last statement are what `FlowGraph` and `Backend` assume (`FitsFlowGraph`), added jumps never loop by themselves |
| `value_gen` | four families of programs with one point of interest each, in all combinations: an expression of two operators in every kind of statement; initializer lists of arrays of one, two and three dimensions, local and global; names declared again in nested blocks of two functions; arrays and calls as arguments | the program makes the same library calls and leaves the same values as its source says (`SameOutcome`), every name resolves to an entry of its own (`NamesResolve`), temporaries are assigned before they are used, params of calls are those of that call |
| `flow_graph` | every function of five statements ending in a return, then a second function with a loop | the control flow of source, graph and emitted text agree (`FlowPreserved`, `TextKeepsFlow`), blocks are basic, the result is what `Liveness` assumes (`FitsLiveness`) |
| `liveness` | every flow graph of four statements with all statements reached, plus one dead predecessor; one variable | the queue loses nothing, the sets are the least solution at the end and never above it, the loop ends, it implements `DataflowSolution` |
| `linear_scan` | five variables, one of them a param, one an array of two words, three registers, all intervals over four statements | registers and frame words have one owner, the code generator finds everything, spilling picks the last to end, slots are final, the loops end |
| `backend` | functions of six statements over an array, two params, two locals, a global variable and a global array; registers `s3`, `r0` (a caller saved one), `a0`, `a1` | every operand is current, live variables are where they were put, globals are in memory at calls and returns, intervals cover, variables live at the same time are in different registers (`LiveVariablesApart`) |
| `riscv` | 7-bit registers, 5-bit immediates; every operator and jump, numbers at each boundary, globals on both sides of a split address; shortcuts for dividends that are not negative; returns before the end; frames of 0 to 9 words with calls and array accesses | the same outcome as the Tigger line, within the frame, encodable, back to the caller, and the compiler ends |

Why these bounds are enough. Dataflow sets of different variables do not influence each other, so one
variable shows what many do; four statements contain nested and overlapping loops. Five variables
over three registers make registers run out twice, expire in groups, be stolen and be stolen again.
Labels are handed on from one level of nesting to the next, so three levels contain every way to
hand them on and back. Five statements contain a dead block before a live one, an `if` to the statement that follows it, two
jumps to one target and jumps both ways across dead code. 7-bit registers have everything that 32-bit
ones have: overflow, a least integer without negation, numbers on both sides of what an immediate can
hold, and frames on both sides of it (nine words are 48 bytes, the largest offset in five bits is 15).
The translation of an expression depends on what its operands are folded to (a number, a variable, an
element, a call, another operation), and `value_gen` has every one of these on both sides of operators,
as index and as argument. Its programs have no loops or branches, which `control_gen` has; code of items
is only ever put one behind the other.

Five more runs check what comments and the README of the code say, and find it violated. These are
the findings of `PROJECT.json`:

- `array_entry`: head addresses of arrays are loaded at function entry because "live_in of every array
  starts from -1" (`e_gen_t.cpp:72`). It does not; the register may still hold a param.
- `param_assignment`: a useless assignment "should not be translated" (`e_gen_t.cpp:104`). One to a
  param is.
- `spilled_param`: a param without a register has a slot (`linear_scan.cpp:101`), but reading it makes
  the compiler dereference null (`e_gen_t.cpp:391`).
- `signed_shortcuts`: the shift sequence for `/ 4`, `/ 8`, ... is wrong for negative dividends
  (`opt.cpp:53`), so is `andi` for `% 2` (`opt.cpp:81`), and the loop at `opt.cpp:36` does not end for a
  multiplier of -2147483648. One function has all three; the property is that at least one of them is
  right.
- `initializers`: a list that begins within a plane of an array and is shorter than a row is not filled
  up (`c_gen_e.cpp:57`), and an expression statement that is not itself a call drops the calls in it
  (`c_gen_e.cpp:243`). One program has both, and either would make its outcome differ.

The passing runs leave exactly these cases out: in `backend` the first statement reads no param and no
statement assigns to one, and functions that do spill a param end in stage `failed` (`Spared` states the first two, and TLC evaluates it on the functions of the run); `riscv` does
not divide a negative number by 4, 8, ..., take a remainder of one by 2, or multiply by the least integer; in
`value_gen` no list that is not full begins within a row of a three-dimensional array, and expression
statements are calls. No run divides by zero, which SysY leaves undefined.

`CHECK_DEADLOCK FALSE` is set throughout since every pass, and the function, comes to an end.

**Fairness.** `Liveness`, `LinearScan` and `RiscVGen` assume `WF_vars(Next)`: a sequential
program whose next step is possible takes it. `ControlGen` assumes it of the execution of the code only.
`FlowGraph` and `ValueGen` state none, since their passes are loops over lists that do not grow, and
`Backend` states none, since a compiled function need not return. `DataflowSolution` asks that each statement is recomputed fairly, and the worklist
loop is shown to do so.

## What is proved

The proofs are checked by TLAPS and hold for all values of the constants: programs of any number of
functions of any size, function bodies nested to any depth, any set of flow graphs with any number of
statements and variables, any number of registers, variables, params and arrays of any width, registers
and immediate operands of any number of bits. `ControlGenProofs`, `FlowGraphProofs`, `LivenessProofs`,
`LinearScanProofs` and `RiscVProofs` are about the module they are named after, `BackendProofs` about the
passes of `Backend` and `TiggerProofs` about the code that it executes. `NaturalLemmas` is what they share:
a set of naturals has a least element, and a function defined by recursion from its values at smaller
numbers exists.

The assumptions are those that the modules state: for `ControlGen` that bodies are as `IsBody` says. For
`FlowGraph` that a function has statements
(`dataflow.cpp:26` asserts it), the last one a return (`c_gen_e.cpp:161-169`), and that no jump is to
itself (`c_gen_e.cpp:256-321`); that the last two hold of the code of the front end is `CodeFitsFlowGraph`, a
theorem about `ControlGen`. For `Liveness` that there is a statement
and that `graph` is a flow graph in the sense of `IsFlowGraph` - successors
are matched by predecessors, no statement follows itself, dead statements lead nowhere; this is
`LinksFitLiveness`, a theorem about the pass before. For `LinearScan` that the three register lists have no
register twice, that params, arrays and their widths fit together, and that intervals are integers:
nothing about their ends being after their starts is needed. `Backend` asks that names, registers and
numbers are distinct, and has the same assumptions on
registers and variables, and on its functions (`IsProgram`) that their statements are what the parser makes
of the code of the front end (`IsStatement`), that their graphs are flow graphs and that
every statement but the first follows an earlier one. The latter is no property of flow graphs in
general; it holds of the code that the front end generates, in the order of the source, which is the
last part of `CodeFitsFlowGraph`: jumps up add no line to those reached going down. `RiscVGen` asks
that immediate operands have at least two bits and registers more, that `s0`, `sp` and `ra` are none of
the registers of Tigger code (`e_gen_t.cpp` uses none of them), that the stack and the globals are
aligned and apart, that frames are in memory, and that functions are as `IsFunction` says: they end with
a return, jump within themselves, and name no word outside their frame. `PowerAssumption` (`2^0` is 1,
`2^(n + 1)` is twice `2^n`) is arithmetic that the provers do not have.

- `ControlGen`: the invariant `CodeInv` says that the code is that of the body, so that `TypeCorrect` and
  `CodeFitsFlowGraph` are about what the recursive functions return. These exist and obey their
  equations because nodes refer to smaller ones (`RecursiveFunction`). By induction over the tree the
  code of a part places each label that it creates once, at a place where its jumps look for it, jumps
  to those and to the labels of the loop around it only, and goes up only to the start of a loop, which
  is reached from above.
  `CodeAgreesWithSource` needs the source next to it. `LaidOut` is that what the source has still to do
  is in the code: each member of `todo` is linked (`Linked`) to the lines that it was generated as, and
  from behind these, by labels and gotos alone (`Leads`), control comes to the lines of the next
  member, or for a condition to one of two places according to its value. `RewritingUnfolded` is that a step of
  the source preserves this: opening an `if`, a loop, `&&` or `||` turns its link into those of its parts,
  and this is where the labels handed from one `traverse` to the next, and the fall through that a leaf
  counts on, must fit. A `break` drops what follows up to the end of the loop, where the label that it
  jumps to was placed. `FlowInv` is that the machine is on its way to the first member of such a layout
  (`IsAhead`); each line that runs takes it one step nearer, or, at the value of a leaf, to the branch
  that the source takes. The layout is a set that `FlowInv` asserts to exist, so TLC does not evaluate
  it; it checks the properties that follow.
- `FlowGraph`: every pass is a function of what earlier passes left, so the invariant `IInv` says for
  each function which passes it has been through (`Marked`, `HasBlocks`, `Trimmed`, `Linked`, ...) and,
  for each pass, what its fields then are; a lemma per action shows the part of its pass and that the
  others are kept. Three parts need more than that. `VisitsRight`: the visited blocks are within every
  set that is closed under `succs_`, so that at the end they are the least one. `LabelsUnique`: labels of
  different functions differ, because `total` is above all that were given out. `OrderRight`: `order` is the
  blocks before some point, one after the other. `KeepsFlow` and `TextRight` then go from blocks to
  statements: blocks are intervals that end where the next begins (`BlocksApart`, `EndsBeforeNext`), a
  statement that is no exit falls through to the next of its block, and a label is dropped only where
  the one way to a block is falling through an `if`, which it then directly follows in the text.
- `Liveness`: `TypeCorrect`, then the inductive invariant `IInv`. `SettledUnlessQueued` is what one
  wants - a statement not in the queue satisfies its equations - but to show that it stays so when a
  *successor* changes one must know that `live_out_`, which only ever grows, is not too large already:
  `SetsJustified` says that, and is preserved because sets grow. From there `Least` follows: nothing is
  ever called live that some solution does without. `Refinement` maps every turn of the loop to a
  recomputation of one statement.
- `LinearScan`: `IInv` conjoins the two main properties with the progress of each loop. `ScanProgress`
  carries the argument: variables still to be visited own nothing, visited ones own a register or a
  slot and not both, and a register owner that is not active ended before any interval still to come
  starts. With `RegistersAccountedFor` (free registers and those of active intervals share out all of
  them) it gives `NoSharing`, also when a register is stolen; a cardinality argument shows that
  `get_free_reg` is never called on an empty set. `Placed`, `Frame` and `FinalSlots` follow from it, and
  so does `Heuristic`: what goes to the stack ends last.
- `Backend`: `BInv` says that the analysis has the invariant of `Liveness`, and that from when the
  allocator has its input the queue is empty, the input is what `LiveIntervals` makes of the sets, and
  the invariant of `LinearScan` holds; the lemmas of the other two modules are cited for both. An empty
  queue means that the sets solve the equations (`AnalysisSolves`). `Covers` is that the intervals of a
  solution reach from before to behind every statement at which a variable is live. `Apart` is what the
  three passes are for together: variables that are live at the same time are never in one register.
  Since `linear_scan` gives the register of an interval that ends at `n` to one that starts at `n`, both
  variables could be live after `n` if control left `n` backwards; then `n` is a jump, assigns to
  nothing, and the second interval starts before it.
- The Tigger code: `Safe(code, s, Q)` says that from the state `s` every instruction of `code` finds what it
  reads, and that the last one leads into `Q`. There is a lemma for each instruction, one for code put
  together (`SafeThen`) and one for loops over registers, params and arguments (`SafeLoop`), and
  with them one for every helper of `e_gen_t.cpp` and every kind of statement: from `Fine(S)`, the states
  in which each variable of `S` is in the register or slot that it was given, globals are in memory and
  the registers and the slots that belong to the caller are untouched, `Statement(n)` is safe up to `Fine` of
  what is live behind it (`StatementSafe`). What makes these lemmas true is `Apart` and the frame of the
  allocator (`Placement`): an assignment reaches no register of another live variable, saving around a
  call no slot of another. The entry has the argument that the code states in a comment
  (`e_gen_t.cpp:57-61`): when param `i` is moved to a lower param register, the param that came in there
  has left it, and those that go up wait on the stack until all others have moved (`Moved`,
  `Reloaded`). `XInv` is that the rest of the code that runs is safe up to what its statement promises;
  `OperandsFound`, `ValuesHome`, `GlobalsVisible` and `TypeCorrect` follow.
  The theorems have the hypothesis `[]SparesFindings`, which excludes the functions of the findings
  `param_assignment` and `array_entry`: no param is assigned behind its interval; in a function with
  arrays the first statement reads no param or array, nor in any function what it assigns to itself (with
  an interval of an array that starts at 0 instead of -1, as `array_entry` says, such an assignment can
  hit the register of its head; for a local it would read a value that was never assigned). `Spares` derives it from `Spared` for every
  function, and `FindingsSpared` evaluates `Spared` on the functions of run `backend`. A function with a
  param that is read and has no register ends in stage `failed`, which is finding `spilled_param`;
  `LiveValuesHome` leaves out what has no place to be at, the params and arrays without register.

- `RiscVGen`: `OperandsFitAlways` has no hypothesis. Its invariant `CodeOK` says of the lines in `pending`
  and `code` what the operands of each kind are, and `Counting` of the loop that counts shifts that
  `k` is the number of halvings done: `2^k` times what is left is the multiplier or divisor, or it has come
  to where it stays, below 0, and emits nothing. So a shift is always by less than the width.
  The others compare two machines of which one is ahead, and follow a chain of machine states through
  the lines that have yet to run. `Simulated` is that from the present state the lines in `code`,
  and then those in `pending`, lead to a state that agrees with the Tigger machine (`Agrees`): the same
  registers, the frame and the globals in memory word for word, `Caller` in the word for `ra` at the top
  of the frame while the function runs and in `ra` when it has returned. Running a line takes the first
  link off the chain. Compiling a line starts one: there is a lemma for every kind of Tigger line
  (`BinopArrives`, `FrameArrives`, `ElementArrives`, `JumpArrives`, `EnterArrives`, ...), with what each operator
  needs of arithmetic, of two's complement and of `%hi` and `%lo`, and one for offsets that go through
  `s0`. Strength reduction swaps links: `KeptHasEffect` and `ShiftedHasEffect` are that what it puts in
  the place of a `muli`, `divi` or `remi` does what this line means. No write of a chain leaves the frame or
  the globals (`Inside`), which gives `NoWriteOutside`; distinct words have distinct addresses
  (`WordFacts`), also the one for `ra`, since `FrameBytes` always leaves a word above `size`.
  These four theorems have the hypothesis `[]Sound`: before a line is compiled, if it divides, its divisor is
  not 0, if it accesses an element, this is a word of the frame or a global (`Defined`), and its shortcuts are right (`Exact`): a
  division by 4, 8, ... or a remainder by 2 only of what is not negative. Without `Exact` they are false,
  which is finding `signed_shortcuts`; a multiplication needs no such hypothesis, since of the least
  integer, for which the compiler does not end, no code is ever run. Every function of run `riscv` satisfies it for all contents of its
  registers.

Each theorem about a checked property names that property; the inductive invariants are conjunctions
of properties that the runs check or that follow the loops.

Only model-checked are: all liveness (`Terminates`, `Completes`, `KeepsMoving`, and the fairness part of
`ImplementsAbstract`), since TLAPS has no rules for `ENABLED` here; and `ValueGen` with the
modules it uses, whose recursive operators TLAPS does not support.

## What is not modelled

- The lexer, the parser and the tree of SysY: generated code and classes that hold data. Nor the grammar
  actions, so that programs of `ControlGen` and `ValueGen` start as trees.
- Debug printers, the options of the driver, and everything that is wording: the text of Eeyore, Tigger
  and RISC-V lines is tokens or records, names are model values.
- The sets of blocks, which only a debug printer reads.
- More than eight params: the code reads past `param_regs` then.
- Division by zero, in constants (where the compiler itself stops) and at run time.
- In `ValueGen` recursion and statements with labels; elements of constant arrays where a constant is
  required.
- The replacement of set elements during iteration (`linear_scan.cpp:42-48`) is modelled with the outcome
  it has for a tree-shaped set whose keys do not change.

## Plan

1. Done: `Liveness`, `LinearScan` and their proofs; `LiveIntervals`, `TiggerGen` and their composition
   `Backend`, with the proofs about it; `FlowGraph`; `RiscVGen` with jumps and globals; `ControlGen`
   against `SysYFlow`; `ValueGen`, `EeyoreParser` and `EeyoreMachine` against `SysYValues`.
2. Done: the invariants of `FlowGraph`, so that what `Liveness` assumes of a graph is a theorem; the
   invariants of the execution in `Backend`.
3. Done: `RiscVGen`, for registers of any width and frames of any size.
4. Done: `ControlGen`, for bodies of any size.
5. Open: theorems about `ValueGen`. What makes `SameOutcome` true for every program is an induction over
   expressions, as it was over conditions in `ControlGen`, with the table of names and the temporaries as
   what is handed from part to part; it asks for expressions as tables of nodes, too.

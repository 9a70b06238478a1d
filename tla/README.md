# Formal models of CalcLang

CalcLang compiles one small dynamic language along two paths.  `calcc`
(lexer, parser, `codegen.c`) emits assembly text that `calcasm`, `calcld` and
`calcvm` assemble, link and run on a stack machine.  `calcnat` (the same
front end, `type_infer.c`, `codegen_x64.c`) emits x86-64 assembly that is
linked with a C runtime (`runtime_x64.c`: values, garbage collector, closures,
exceptions).  The models here are about the parts where several pieces of
state have to stay in step over many operations.

## Inventory

| component | source | state | operations | what makes it correct |
|---|---|---|---|---|
| native exceptions | `runtime_x64.c` 461-521, `codegen_x64.c` (try, throw, return, loops, calls) | `g_handlers`, `g_handler_top`, `g_exception_value`, the native stack | `cl_try_push`, `cl_try_pop`, `cl_throw`, every jump the emitted code makes | the topmost handler is the one of the innermost running try body |
| native garbage collector | `runtime_x64.c` 78-298 | tracked allocations, mark bits, worklist, threshold, the conservative stack | `cl_alloc`, `cl_realloc`, `cl_gc` and the constructors that allocate more than once | nothing reachable is freed, nothing reads freed or unset memory, garbage goes |
| native containers and values | `runtime_x64.c` 300-1550 | arrays, maps, strings, boxes, closures | index get/set, push, map set/delete, slices, operators | the same results as the VM; growth keeps contents |
| type inference | `type_infer.c` | type environments, function signatures, annotations on the tree | joins at branches, loop fixpoint, calls | a use noted as `num` reads a number whenever it runs |
| closures and boxes | `codegen.c`, `codegen_x64.c` (captures) | scopes, boxed flags, upvalues | capture analysis, `MAKE_CLOSURE`, `LOAD_UPVAL` | a captured variable is one variable |
| symbol table | `symbol_table.c` | scopes, slots, function frame | push/pop scope, enter/exit function, declare, lookup | no two live variables share a slot |
| VM | `calcvm.c` | operand stack, call frames, locals, heap | one action per opcode | calls and returns are matched, stack effects balance |
| assembler and linker | `calcasm.c`, `calcld.c`, `calclib.c` | symbols, strings, labels, code, relocations | assemble, merge objects, relocate, resolve | every reference of every object resolves to what its source meant |
| memory tracking | `common.c` | list of live allocations | tracked malloc, realloc, free, report | the list is exactly what is allocated |
| parser and tree | `parser.c`, `ast.c` | current token, tree | precedence climbing, statements, classes made into functions | the tree is the one the README's precedence gives |
| quoted strings | `common.c` 97-184, `codegen.c` 219-234, `calcasm.c` 33 | none | write and read literals in three files | what the machine loads is what was written |
| library functions | `calclib.c`, `calcvm.c` 471-1094, `runtime_x64.c` 597-1243 | texts, arrays, maps | 51 functions, as calls and as values | the documented result, twice |
| lexer | `lexer.c` | position | tokenise | sequential |
| drivers | `calcc.c`, `calcnat.c`, `run_demo.sh` | files, subprocesses | pipeline steps | I/O |
| numerics, editor, docs | `lib/*.calc`, `editor/`, `docs/`, `examples/` | none | | not program logic of the compiler |

How they interact: the front end hands a tree to the two code generators; the
symbol table numbers locals and boxed captures for the VM path; inference
annotates the tree for the native path and so decides which runtime checks
exist at all; emitted native code calls the runtime, whose allocator may run
the collector at every call and which reads the native stack that the emitted
code lays out; exceptions move that stack without the emitted code's help.
There are no threads: the hard behaviours are long sequences of legal steps
(handlers left behind, scopes reused), collections between any two
allocations, and two implementations that have to agree.

## Modules

```
Syntax (trees) ── Source (writes tokens) ── Parser (reads them back)
   ├── Samples (programs) ─┬── BytecodePrograms = Parser, Codegen (SymbolTable, Instructions)
   │                       └── NativePrograms   = Parser, NativeCodegen (Instructions)
   ├── Lexical + Library (what a program means)
   └── TypeInfer ── TypedRun ── MCTypes
Calclib (values) ┬── VmLibrary ── StackMachine ── Bytecode ─┬─ BytecodeProofs
                  │                                          └─ MCBytecode   (runs BytecodePrograms)
                  └── NativeLibrary ── NativeMachine ── Native ─┬─ NativeProofs
                                                                └─ MCNative     (runs NativePrograms)
SymbolTable ── Scopes ── ScopesProofs
NativeFrames ─┬─ StructuredExceptions (promise)      GcMutator ─┬─ ManagedHeap (promise)
              └─ NativeExceptions ── …Proofs                    └─ NativeGC ── NativeHeapProofs ── NativeGCProofs
ObjectFile ─┬─ Assembler ─┬─ Build ── BuildProofs
            └─ Linker ────┘
```

### Native exceptions: `NativeFrames`, `NativeExceptions`, `StructuredExceptions`

`ctl` is what the emitted code has open, outermost first: a native frame per
activation, a loop, a protected body, a running catch block.  `handlers` is
`g_handlers[0 .. g_handler_top]`, `exc` is `g_exception_value`.  A handler's rbp
is the *position* of a frame, which a later activation may occupy; its catch
label is the function and the constructs around the try statement.  Every jump
the generator emits is an action: `Call`, `Return` (epilogue), `TailCall`
(`jmp .Lbody`), `Break`, `Continue`, and the calls of the runtime
`cl_try_push`, `cl_try_pop`, `cl_throw`.  The generator pops a handler at the
end of a protected body only; the constant `Exits` says which early exits a
program uses.  An unwind whose rbp no longer addresses a frame of the catch
block's function ends in status `wild`: what follows is undefined in C and is
not modelled.  `StructuredExceptions` has no table: a throw goes to the
innermost body that is running.

### Native heap: `GcMutator`, `NativeGC`, `ManagedHeap`

`mem` maps addresses to blocks, `local` is the part of the native stack that
emitted code uses, `live` tells which of its words the program may still use
(the collector does not know), `call` is the constructor that is running with
its C locals.  A constructor is cut at each `cl_alloc`, because each may collect:
`EnterPush`/`FinishPush`, `EnterSet`/`GrowKeys`/`FinishSet`,
`AllocClosure`/`FillClosure`, three steps of `cl_concat`.  Dead words hold
anything (`Clobber`): the scan is conservative.  `NativeGC` adds the collector:
`ScanWord` reads the stack word by word, `Descend` is one iteration of
`cl_mark_descend` with the C recursion as `path`, `Sweep` the loop over the
allocation list, which nothing can interrupt.  `fault` is set when marking
follows a pointer that nothing was stored in.  `ManagedHeap` is the promise: a
collection frees, in one step, exactly what no stack word leads to.

### From text to tree: `Syntax`, `Source`, `Parser`

`Syntax` has the constructors of `ast.c`.  `Source` writes a program down as tokens,
with parentheses only where the precedence of README.md:182 asks for them, and in
one of two styles: short (`x += 1`, `m.f`, `fn f() {…}` in a body) or long.  `Parser`
is `parser.c`, one operator per function of it; a class becomes the function that
builds its instances.  Both paths compile what `Parser` makes of what `Source`
wrote, and must do what the tree before it meant: the bytecode run uses the short
style, the native run the long one.  The second part of `Source` takes every string literal of the
bytecode path through the assembly text, the object file and the executable.
Tokens are where the models begin: the lexer, `import`, `extern`, `pub` and the
limits on sizes are left out.

### What a program means: `Lexical`, `Library`

An interpreter of trees written from README.md 155-189 and 320-392, with cells
instead of slots and boxes, and a library function as what the table of the README
says of it.  It has three ways to end: normally, with an exception nobody catches,
with an error.  Both paths are compared with it, and so with one another.

### Bytecode path: `SymbolTable`, `Codegen`, `StackMachine`, `VmLibrary`, `Bytecode`

`Codegen` follows `codegen.c` function by function over one record `g`: the
symbol table, captures, loop stack, label counter, queue of closures, trampolines,
code.  `StackMachine` is `calcvm.c`, one action per opcode; `Passes` holds the checks
made before an opcode acts and `Die` is the run that fails one.  `VmLibrary` is the
inner switch over the library functions: what each accepts and does.  `Bytecode`
loads a compiled program, compares, and says when code is balanced.  `Scopes` drives the symbol table alone in
every order of blocks, functions, declarations and uses that nest.

### Native path: `NativeCodegen`, `NativeMachine`, `NativeLibrary`, `Native`

`NativeCodegen` is `codegen_x64.c`: the three walks that decide what is boxed and
captured, frames, arguments in 16-byte slots, tail calls that reuse the frame, try
blocks, trampolines.  An instruction of the model stands for the few machine
instructions one piece of the generator emits together, and keeps their effect on
`rsp`, `rbp`, `xmm0`, `r10` and the words of the stack.  `NativeMachine` runs it:
`stack` is the native stack, a word per element, with saved frame pointers, return
addresses and padding as words of their own; `handlers` are those of `cl_throw`.
What the code does not check leads to status `wild` (a call of a value that is no
closure): `SameOutput` allows it only in programs that are in error.  `Native` loads
a compiled program, compares what it prints, and says when code is balanced.

### Type inference: `TypeInfer`, `TypedRun`

`TypeInfer` is the walk of `type_infer.c`: environments with snapshots compared
by position, joins, loops walked up to eight times, functions from their
declared parameters.  The result is a note per use of a variable.  `TypedRun`
runs the same program on types only: `todo` holds the statements left and, as
marks, where scopes, rounds, try bodies and calls end; a condition is true or
false, an element has any type of `Elements`.  `read` holds the uses of the last
step with the type each one had.  The notes are what `codegen_x64.c` relies on
to omit a check (`infer_type`, 546-550).

### Assembler and linker: `ObjectFile`, `Assembler`, `Linker`, `Build`

A line of a file is a record; `Assembler` has one action per kind of line.
`LinkObject` reads one object and does all of its relocation, `Resolve` is the
second pass.  Opcodes are kept as far as the linker tells them apart.  `Build` is
the whole command sequence: assemble each file, then link.

## Runs

All runs check every reachable state of their instance.

| run | properties | bounds, and why they are enough |
|---|---|---|
| `exceptions` | `HandlersMatch`, `NoEarlyOverflow`, `ImplementsStructured` | no early exits; 2 functions, 3 handlers, 7 open constructs: three bodies in three frames, one of them recursive, and the fourth push that overflows |
| `exceptions_exits` | `BodiesKeepHandlers` | all four early exits, 2 handlers, 5 constructs: a stale handler below, above and between running ones |
| `exceptions_stale` | `CatchFollowsBody` fails | the shortest run returns out of a try body and throws: finding 1 |
| `gc` | `Intact`, `ImplementsHeap`, `DescentSimple` | 2 stack words, 4 addresses, capacity 1 then 2, closures of no or one variable: boxes, closures, arrays and maps that share or cycle, both buffers of a map regrown, three allocations of `cl_concat`, with a collection at each allocation |
| `gc_upvals` | `NoUnsetRead` fails | finding 2 |
| `bytecode` | `SameOutput`, `CodeBalanced`, `CleanHalt`, `HeightFixed`, `FrameIsolation`, `Ends` | 4952 programs: every three statements out of eight (loops) or ten (closures), calls as operands, every operator on every pair of kinds, operators in operators, forms of statements, elements through two names, classes, literals of up to two of the characters that are escaped, library functions on every short text, range and pair of steps on an array; 15 stack slots and 8 frames are never exhausted by them |
| `native` | `SameOutput`, `CodeBalanced`, `CallsFit`, `ReturnsHome`, `SpFixed`, `Aligned`, `CleanExit`, `Ends` | 3515 programs: the same families, some smaller, and tail calls (8 deep: were they calls they would fill the 60 words), exceptions out of loops, calls and half-built arrays, closures over variables of the top level; calls of closures that assign their parameters and are reached through another closure; 2 handlers, as many as are ever needed |
| `bytecode_called` | `SameOutput` fails | finding 3 |
| `scopes` | `SlotsDistinct`, `FrameCovers`, `CapturesTrue` | 2 names, 5 scopes, 4 variables, functions three deep: one capture through a function in between, a block beside it, two variables of one name in different functions; the view `Live` leaves out what closed functions leave behind, which is reset before it is read |
| `types` | `NotesTrue` | 2662 programs of three statements out of eleven, loops of up to three rounds: two variables need at most three rounds of the fixpoint |
| `types_flow` | `NotesTrue` fails | finding 4 |
| `build` | `ImageFaithful`, `Separate`, `OneDefinition`, `ObjectWellFormed`, `LabelsLead` | 2 files, 5 lines, one local and one global name: the same local label in both, references across files in both directions, every table one short of the need |

Each run also checks the type invariant of its module.  For every property there
is a seeded fault, an operator next to the definition it replaces, under which
TLC finds the property violated: the properties can tell this code from code
with a plausible bug.

Deadlock checking is off where the program ends: exceptions, bytecode, native,
types and build stop when done, and `NativeGC` stops at `fault`.

What the program families leave out.  Each of these is a place where the code and
a document disagree, the two paths differ, or a machine has no check, and is listed
under the hazards in `PROJECT.json`.

* Programs call functions with the right number of arguments, declare no captured
  local twice, call captured names only in `bytecode_called`, do not depend on the
  order in which arguments are evaluated, and have no chain of calls as a statement
  and no return in the init of a class.  On the bytecode path closures are made in
  functions only, and there are no exceptions: it has none.
* On the native path no program leaves a try body by return, break or continue: its code
  would not be balanced (finding 1, and the runs of `NativeExceptions`).
* The right operand of `&&` and `||` has no effects: `calcvm.c` evaluates it always,
  although docs/book.md:130 says it stops early, and the native code does.
* Literals have no semicolon: the assembler cuts the line there.
* On the native path `-=` and `*=` meet numbers only (`Checked`): the code does not
  look at the tags.  Ranges that leave a text or an array, and blank texts given to
  `to_num`, are run on the bytecode path only (`Strict`): it refuses them, the native
  runtime cuts them to size.
* A function of `Lexical` does not see top-level variables, and no program of the runs
  makes use of one in a named function.
* Programs of `types` have blocks as branches and bodies, declare a name once in a
  scope, use calls as whole operands, and declare only types that their values have;
  no native code checks a declared type.  The five ways in which the walk ignores
  control flow are in `types_flow` and left out of `types`.

The programs are compiled once, as constants, before the first state: the modules
that hold them come first where `MCBytecode` and `MCNative` list what they extend,
because TLC evaluates constants in that order.

**Fairness.**  Only `Ends` needs it: `WF_vars(Next)` of `Bytecode` and of `Native`.  The
machine is one loop that executes instructions until HALT or an error, and the
processor runs one thread of native code, with nothing else to wait for: an enabled
step is always taken.

## Proofs

All are proved with TLAPS for every value of the constants, from the named
assumptions of the modules only.

* **Exceptions** (`NativeExceptionsProofs`).  `TypeCorrect` and `BodiesCovered`
  hold for every set of early exits.  `BodiesKeepHandlers` is not inductive: a
  stale handler may lie above that of a running body.  `CoverInv` adds that every
  handler above it was pushed deeper in the context, and that the same held for the
  bodies around a handler when it was pushed, so that a throw that lands there finds
  them covered again.  With `Exits = {}`,
  `TableMatches` uses `MatchInv`: the table lists the running bodies in order.
  `OverflowIsReal` counts them, and `TableImplementsStructured` is the refinement.
* **Native heap** (`NativeHeapProofs`, `NativeGCProofs`), for any addresses, number
  of stack words, capacities, captures and programs, provided that neither NULL nor the
  mark of an unset pointer is an address and the two differ.  `HeapInv` is what every step of a constructor keeps: a block
  serves one owner, buffers are as large as their owner's capacity says, what a live
  word leads to is there, and the C locals of the running constructor are blocks of
  the kind its next step assumes.  `MarkInv` is what every step of the mark phase
  keeps: marked blocks lie in every closed set that has the roots (so nothing but the
  reachable is marked), and every reference behind the scan and behind a frame of the
  recursion is marked (so at the end everything reachable is).  From both,
  `HeapIntact` and `MarkingSimple`, and with them `CollectorImplementsHeap`: `Sweep`
  is the one step of `ManagedHeap`, all the rest of marking stutters.  Reachability is
  never computed: it is the least closed set, and the two halves of `MarkInv` bound it
  from both sides.
* **Symbol table** (`ScopesProofs`).  Slots are reused when a scope closes, so
  `SlotsDistinct` alone says nothing of what a pop restores.  `ScopesInv` relates
  the two stacks that a scope remembers (`starts`, `locals`) to the live symbols:
  below each mark the offsets stay below what the mark saved.  From it follow
  `SlotsDistinctAlways` and `FrameCoversAlways`.  `CapturesTrueAlways` needs `Newer`:
  what was declared after a scope opened belongs to its function or to one inside it, so
  that what a name means outside a function, where its captures lead, changes
  neither by a declaration nor by the end of a scope.  A capture through several
  functions is followed by induction over the depth of the function.
* **Assembler and linker** (`BuildProofs`).
  `AsmInv` makes every object well formed at every moment.  `LabelInv` counts: as
  many instructions are in the object as lines with one were read, which is what makes
  `LabelsCorrect` an invariant.  `LinkInv` says that the
  ranges of merged objects are disjoint and that each merged instruction already
  has its meaning except for the labels left to the second pass; `ImageCorrect`
  follows when that pass is done.  `BuildCorrect` joins the two: what one tool
  writes is what the other assumes.
* **Virtual machine** (`BytecodeProofs`).  `MachineTypes` holds for any executable, not
  only for what `codegen.c` makes, and for any sizes of the stacks: the checks of
  `calcvm.c` (`Passes`) are enough.  `TypeOK` refers to the objects there are now, so the
  invariant is stated with their numbers as parameters, `Typed(a, m, f)`: a step keeps it
  with the same numbers or with larger ones, and `Val` only grows.  The bulk of the proof
  is the library: each of its functions, given arguments of the kinds it asks for,
  results in a value of values there are.
* **Frames of the virtual machine** (`BytecodeProofs`, second half).  The machine does
  not check that code keeps to its frame (LOAD_LOCAL and STORE_LOCAL take negative
  offsets, a pop may take a word of the caller), so this rests on the code.  `Balanced`
  is what it needs, and can be decided by looking at the instructions: a plan that
  gives every instruction its function and the height of the stack above the
  arguments, the same on every path.  The run checks it of everything `codegen.c`
  made there (`CodeBalanced`).  For any images that are balanced (`AllBalanced`) and
  any stack sizes, `BalancedHalts` and `BalancedIsolates` state `CleanHalt` and
  `FrameIsolation`.  `FrameInv` follows every frame on the call stack: the one that
  runs is as high as the plan says for `pc`, or higher by its arguments, and one that
  waits will be as high as the plan says for the instruction behind its call, once the
  result has taken the place of the arguments; the frame of the program has no
  arguments, hence nothing on the stack when it halts.  `BalancedHeights` adds
  `HeightsInv`: what `heights` holds for two instructions of one function differs as
  their plans do.  Its hypothesis `CallsAgree` is `HeightFixed` for the entry points
  only, since an indirect call passes as many arguments as it likes.

* **Frames of native code** (`NativeProofs`), for any programs, executables and sizes of
  the stacks.  Here even the return address is a word like any other: the emitted code
  writes locals and arguments at fixed distances from rbp and nothing checks them.  Two
  promises are the hypotheses of the theorems, and invariants that the run checks of what
  `NativeCodegen` made there.  `CodeBalanced` is the generator's: a plan gives every
  instruction the body it belongs to, its height above rbp (an even number of
  words, whence the alignment) and the list of tries open there, the same on
  every path; what it writes lies in its own frame or among its own arguments, and a return
  happens with no try open (which leaves out the programs of finding 1).  `CallsFit` is for the author of the program: an indirect
  call passes at least the arguments its closure assigns.  Neither the generator nor the
  runtime counts them, and a closure called with too few would write over its caller's
  operands.  `NativeFrames` is the inductive invariant: there is a sequence of frames, each
  as high as the plan says for the instruction it has come to; the saved rbp and the
  return address at its base are those of the frame below (`Links`); the handlers are
  those of the tries its instruction has open, in order (`Guards`); and control is either
  in the last frame or at an entry with the return address pushed.  A throw drops frames
  above the one whose try the last handler is of, a tail call keeps all of them.
  Nothing is assumed of the values the code computes with.  `NativeSpFixed`,
  `NativeAligned`, `NativeReturnsHome` and `NativeCleanExit` follow.  `SpFixed` alone is
  far from inductive: a return brings back an rbp and an address that were saved
  any number of calls earlier.  The frames are under an existential quantifier, which
  TLC cannot enumerate: what the run checks are the two promises and the four
  consequences.

`SequenceFacts` holds facts on sequences that these proofs cite.

Some functions of the model are recursive (the digits of a number, splitting and
joining texts, sorting, the entries of a map literal).  TLAPS does not know that a
recursive definition has a value, and the induction theorems cannot be used.  Where a
proof needs the type of such a function, the lemmas `Iterated` and `Descended` of
`BytecodeProofs` give a function that satisfies the equation, by the least counterexample
(a set of numbers has a least element), and `StepsStay` and `AllStay` give its type in
the same way.

Only model-checked:

* liveness (`Ends`), which TLAPS cannot prove;
* `SameOutput`, `CodeBalanced`, `CallsFit`, `NotesTrue`: they are about what `Codegen`,
  `NativeCodegen` and `TypeInfer` make of a tree, by recursion over it;
* the types of `NativeMachine`: the processor checks nothing, so that they hold of
  code that reads back from the stack what it put there, not of every executable;
* the types of `TypedRun`, which is in terms of recursive operators.

## Findings

1. `codegen_x64.c:1578` and the jumps at 1500, 1503 and 1571: leaving a try body
   early does not pop its handler, so a later throw runs the catch block of a
   body that has ended, on a frame that may be gone.
2. `runtime_x64.c:793`: `cl_new_closure` is in the allocation list, with its count
   of upvalues, before `upvals` is set; a collection in the second allocation reads
   it.
3. `codegen.c:286`: a name that a closure only calls is captured but its variable
   is not boxed; the machine dies.
4. `type_infer.c:456`: try statements, break, continue, assignments in closures
   and complex differences are not taken account of; native code then treats a
   value as a type it does not have.

## Not modelled, and why

NaN-boxing, floating-point arithmetic with its functions, division and complex
numbers (bit patterns and rounding, no state); the text of the emitted assembly, and
which registers the C compiler keeps pointers in; the shorter code for operands
known to be numbers; annotations of parameters and results and their checks;
`import`, `extern` and `pub`; the lexer (a pure function of text); input, files and
random numbers; the drivers (one pass over files); `ffi_load` and `ffi_call` (foreign
code); the libraries written in CalcLang (numerics); editor support and documents.

## Plan

Done, in this order: exceptions (the behaviour most exposed to sequences no test
has), the collector, assembler and linker, symbol table and bytecode path, type
inference; then values, operators, maps and strings on the bytecode path, the
native path, the parser with classes, quoted strings, library functions; then the
proofs about the heap and its collector, captures, labels, the types of the
virtual machine, its frames and those of native code.  What could follow:

1. Which words of a native frame hold boxes and closures: a plan with kinds of words
   would give `TypeOK` of `NativeMachine` and bound what may end in `wild`.
2. What joins and snapshots of environments promise in `TypeInfer`, stated over folds
   instead of recursive operators.
3. `TrackedAlloc` (common.c 12-94): the doubly linked list against the set of live
   blocks, with realloc moving a block; the refinement is worth a proof.
4. The types that `codegen.c` checks (60-122, 949-960, 1062) with the machine's TYPECHECK.

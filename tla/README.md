# A verification project for aclspv

aclspv compiles OpenCL C kernels to SPIR-V for Vulkan. It is one sequential C program on
top of libclang: no threads, no persistence, no messages. What makes it hard is
elsewhere: every phase is a callback that libclang calls while it visits the syntax
tree, the callbacks talk to each other through one mutable context (`x_aclspv_ctx`), all
tables live in vectors that *move* when they grow, and any allocation may fail in the
middle of an operation that spans several sections of the module. The project models
these interactions in TLA+, checks them with TLC on small instances and proves, with
TLAPS and for every size, that the two lowest layers - the arena of scales and the
sections of words - are safe and faithful to what they promise, that an expression is
translated into the code of its tree, that the cache of types and constants stays
consistent whichever maker is called and whatever fails, that the statement visitor
hands out no id twice, that every body is compiled with the table of its own kernel, and
that the caller is handed the sections in order and told the truth about them.

All paths are those of the repository; `src/vec.c` is the file of that name in
the repository's own `src/`.

## The system

| part | state | operations | interacts with |
|---|---|---|---|
| growable vector (`src/vec.c`) and scales (`lib/util/scale.h`) | one block of bytes holding a linked list of buffers | init, make, grow last, delete last, find by index, write | tables of parameters, the operand stack |
| cursor table (`lib/util/cursor.h`) | slots keyed by clang cursor, a window size | find, find-or-add, tell the variables before a label | statement visitor |
| statement visitor (`lib/emit/entp_body.h`) | sections `m_fndef`, `m_fnimpl`, `m_err`, `m_id` | one case per statement kind | cursor table, expressions |
| expressions (`lib/emit/expr.h`) | an operand stack made of scales | emit an expression under a given id | cursor table, constants |
| types and constants (`lib/util/constant.h`, `src/util/constant/ptr.c`, `lib/util/iddef.h`) | a sorted vector of nodes, each with the ids it was given; the fixed ids | a maker per type or constant | types, decorations, capabilities |
| entry points (`lib/emit/count_fn.h`) | `m_fnlist`, reserved ids | count, emit `OpEntryPoint` | driver, declarations |
| declarations (`lib/emit/decl_glob_obj.h`) | `m_scale_vars`, `BUFF`, bindings | declare a kernel's parameters | scales, constants |
| driver (`lib/aclspv.c`), preamble and assembly (`lib/impl`) | the phase, `m_err` | the loop over the kernels, clean-up | everything |
| word emitters (`lib/util/wrdemit.h`, `emitx.h`) | a section and its count | append words | everything |
| attribute parsers (`lib/attr`), `type_unique.h`, `u32_to_hex8.c` | none | text parsing; unused; formatting | - |

What is hard to test, and therefore what the properties are about:

- *moving memory*: a record or a memo is reached through a pointer while the
  vector it lies in grows (scales, nodes of constants, slots of cursors);
- *leftovers*: the cursor table is never cleared, and its window shrinks and
  grows again from one function to the next;
- *order*: a goto before or after its label; a variable that is declared after
  the code that uses it was emitted, into another section; tables filled first
  to last and read last to first; ids reserved in one visit and used in another;
- *partial failure*: one allocation of many fails, the section it belonged to is
  lost, and `m_err` is set, kept or cleared depending on where.

## Modules

| module | models | checked by |
|---|---|---|
| `ScaleStack` | what an arena of scales promises: a stack of buffers | - |
| `Scale` | `scale.h` and `vec.c`, at the level of bytes | `MCScale` |
| `ScaleProofs`, `ScaleRefinement` | the theorems about `Scale` | TLAPS |
| `WordLog` | what a section promises: a log of words | - |
| `Section` | `wrdemit.h` and `emitx.h`, at the level of words | `MCSection` |
| `SectionProofs` | the theorems about `Section` | TLAPS |
| `EntpBody` | the loop over the kernels, the statement visitor, the cursor table | `MCEntpBody` |
| `EntpBodyProofs` | the theorems about `EntpBody` | TLAPS |
| `Expr` | the expression compiler, `expr.h` | `MCExpr` |
| `ExprProofs` | the theorems about `Expr` | TLAPS |
| `ConstantCache` | makers of types and constants, default ids | `MCConstantCache` |
| `ConstantCacheProofs` | the theorems about `ConstantCache` | TLAPS |
| `Compile` | the phases of one compilation | `MCCompile` |
| `CompileProofs` | the theorems about `Compile` | TLAPS |
| `Assembly` | the sections, `impl_asm`, and what the caller is handed | `MCAssembly` |
| `AssemblyProofs` | the theorems about `Assembly` | TLAPS |

**Scale.** `cap` and `mem` are `m_sz` and the bytes behind `m_p`; `at` holds
the records at their offsets and `last` is the header word. A record's cells
carry `Meta` and a buffer's carry data, so that a write that goes astray is
seen. `InitScale`, `MkScale`, `GrowLast`, `DelLast`, `Write` are the functions of
`scale.h`, each with a `...Fails` twin in which the vector cannot grow and is
lost. `Walk` is `get_scale_from_vec`. `ScaleStack` is the abstraction: a sequence
of buffers, of which the last may be resized or removed; `Stack` is the
refinement mapping and `ImplementsStack` the claim that every step of `Scale` is
a step of `ScaleStack` or none.

**Section.** `cap` and `mem` are a section's vector in words, `count` its counter
in `m_count`; sizes are computed modulo `Words`, the words that 32 bits of bytes
can address. Three ways to grow are kept apart: doubled (`util_emit_wrd` and all
that use it), exact (`util_emit_str`), and the copies of `expr.h` and `aclspv.c`,
which keep the count when they lose the memory (`CopyFails`). `pos` is the
instruction whose count of operands is filled in afterwards. `WordLog` is the
abstraction: words are appended and stay; only the first word of the last
instruction is written again; a section may be lost as a whole.

**Expr.** One behaviour is a sequence of calls of `emit_get_expr`. The tree is
chosen node by node as libclang visits it in preorder; `open` holds the operands
still to come, `visit` records the tree. The rest are the five things `emit_expr`
keeps between two calls: the stack of awaited ids, the scales of the operators that
are open, the one counter, and the two flags. The boot scale is laid out as in the
bytes: made of 2, written as two words, and read as `Overrun` (65536) once a record
lies over it. Which opcode belongs to an operator and a type is data.

**Assembly.** Every section is a sequence of numbered words, so that a word out of
its place is seen. Its sections fail as they do in `Section`: with the count reset
(`EmitFails`; the compilation ends, unless nobody looks at the answer, as happens in the
sections of `Unwatched`) or kept (`ExprFails`, and it goes on).
`CopySection` runs once per section with the offset `asm.h` sums up for it, which is
written out ten times there and ten times in `Offset`.

**EntpBody.** libclang is the environment: it visits any statements of each
kernel, in which a variable, a label or an expression occurs once and a goto
names a label of its own function. `slots` and `num` are the vector and the
window of the cursor table; `fndef`, `fnimpl` the sections as sequences of
instructions. A statement either completes and clears `err`, or breaks the visit
off with whatever `err` was. An expression is one step here (the module `Expr` has
its own), but the step emits the loads and the operators one by one, each under the id
`expr.h` gives it: a value, a conversion, an operator, an operator on the right of
another, and an assignment of each (`Terms`, `Expressions`). `lost` is a history
variable: a statement's translation was given up. So is `of`, the statement a load or an
operator belongs to. A slot past the capacity, which `cursor.h:123` reads out of bounds,
is taken to match no cursor (`FindIn`). That an operation which is complete may lose
`fnimpl` and keep its count (`expr.h:703`) is left to `Expr` and `Assembly`.

**ConstantCache.** A maker is an operator from a context to a context, nested
as the code nests its calls, so the order of emissions is the code's. `gen`
changes when a new node moves the vector; a maker that took a pointer before
reads what was there and writes nowhere. `fuel` chooses the allocation of a call
that fails. A specialisation constant is found by its number and emitted with its default
(`Spec32`; the same lines once more, inlined, are `decl_glob_obj.h` 283-318), so two of
them may hold one default. The word behind the last node, which the search compares when
the key is larger than all (`constant.h:97`, `:128`), is taken to differ from the key (`Node`).

**Compile.** The variables are the fields of the context the phases share; `pc`
is the phase, `visit` is `BUFF`, `tables` are the scales of `m_scale_vars` (the
module `Scale`; NULL is the empty sequence), `made` stands for the makers of
`ConstantCache`, memoised by name, and the body of a function is one step (the
module `EntpBody`). The kind of a parameter is its type with its annotation: `count_fn.h`
counts the annotations of all (`Annotated`), the declarations stop at a scalar before they
look at its annotation (`Scalars`), and a scalar that is annotated is in both ("marked"). `broken` and `fails` are history variables.

The modules are composed by contract rather than by instantiation: each higher
module uses the part below it through what its run shows (a stack of buffers, a
log of words, a memo per name, an expression or a body that is compiled or fails).

### Operators named `Mut...`

Each property comes with a way the code could be wrong: an operator such as
`MutGrown` is the definition after it with a plausible bug (a dropped guard, an
id that is not counted). No action uses them; substituting one for its
definition makes the property it is listed with fail, which shows that the
property is about that definition. `PROJECT.json` lists the pairs.

## Which build is modelled

The code without its assertions. `decl_glob_obj.h` 526-574 compiles the label of
a `goto` only when `NDEBUG` is undefined or 0, so that is the build with
`-DNDEBUG=0`; in one with assertions the same conditions end the process.
`ae2f_unreachable()` that is reached is a choice between the
outcomes a compiler may produce: `get_scale_from_vec` past the last table
answers NULL or goes on.

## Runs

All runs are exhaustive. Deadlock is checked in all of them: a finished
compilation stutters (`Finished`, `Done`), and an arena always has a call to make.

| run | instance | what it shows |
|---|---|---|
| `scale` | header of 1 cell, records of 2, buffers of 0-2, at most 10 cells | type, links, packing, untouched records, index walk, refinement of `ScaleStack` |
| `section` | at most 9 words in an address space of 19, instructions of 0-2 operands, strings of 1, 4 and 5 bytes | type, no word outside of the allocation, tiling, refinement of `WordLog` |
| `expr` | 2 expressions of at most 6 nodes of all 8 kinds, 1 failure | the operand visited next is the one awaited; a complete visit emits the expression |
| `entp_body` | 2 kernels (0 and 1 parameters), 1 name per kind, 3 statements, ids up to 13, 1 failure | the code of the bodies fits together |
| `constants` | 2 keys, 4 default types, 3 calls | ids, memos, operands, decorations, capabilities |
| `constants_faults` | 2 calls, one of the first 10 allocations fails | the cache stays sorted, memos share no id, single makers answer 0 |
| `compile` | all translation units of at most 2 functions over 42 shapes of kernels and a helper, 1 failure | the phases agree; every compilation ends, and one that answers OK has every body |
| `assembly` | 10 sections of at most 1 or 2 words, lost or kept | the module is the header and the sections in order; the caller is told the truth |

Bounds, and why they are enough. *Scale*: three scales with room to delete and
remake one, buffers of size zero (which is how tables are opened) and a vector
that has to grow; the theorems cover all sizes. *Section*: nine words hold three
instructions and two growths, strings of 1, 4 and 5 bytes end inside, at the end
and behind a word, and an address space of twice the words and one is the smallest
`LimitAssumption` admits; the theorems cover all of these. *Expr*: six nodes hold
an operator of an operator with a cast or parentheses between them, and two calls
let one find what another left in the stack, the scales and the sections.
*EntpBody*: two kernels are what
leftovers need (the second inherits the slots of the first, with a smaller and
with a larger window); three statements hold a declaration, a use and a label,
or a goto, its label and a return; one name of each kind because cursors are
compared only for equality. `MaxId` bounds the counter behind an expression by 13, the
smallest at which an operator nested in another, which takes the most ids, fits behind
the other statements of its function. *ConstantCache*: two keys are enough to order a
node before and after another; the inner calls add the keys 1 and 4 of their
own; three calls let a maker be asked, disturbed and asked again. *Compile*:
kernels have every kind of parameter alone, all pairs of the five kinds that
keep counters (scalar, global, constant, input, local array), three shapes of
three, and an annotated scalar before and behind an input; two functions let one kernel's table, bindings and ids disturb another's,
and a helper stand between. *Assembly*: an offset can be wrong only by a section
that has words, and by one more than one that has none. One failure: the code has
no retry, so a second failure meets a state the first has already lost; `TypeOK`
and the `crashed` phase cover what follows it.

What the properties say, beyond types:

- `scale`: no call touches a record's bytes (`RecordsIntact`), buffers neither
  overlap nor leave gaps (`Packed`), the list is linked both ways (`Linked`), an
  index finds its scale (`IndexFinds`).
- `section`: no counted word lies outside of the allocation, except where a copy
  lost it (`WithinAllocation`), instructions follow one another (`Tiled`), words
  that were emitted stay (`ImplementsLog`).
- `expr`: ids are defined once and after those they use (`IdsDefinedOnce`,
  `OperandsDefined`), the stack awaits what libclang visits (`Awaited`), and what is
  emitted is the tree (`TranslatesExpression`). They are stated for trees
  in which no right operand is an operator (`LeftDeep`) and for visits that were not
  broken off; for the others see `right_nested` below.
- `entp_body`: one slot per cursor of the function (`WindowKeysDistinct`), result
  ids unique over the module body but for two values of one expression
  (`ResultIdsUnique`; see below), a branch has one target
  (`BranchTargetsDefined`), variables at the head of the function though declared
  late, and before what is stored to them (`VariablesDeclared`), every block
  closed once (`BlocksClosed`).
- `constants`: ids are new (`IdsDefinedOnce`) and used after they are defined
  (`OperandsDefined`); a memo names what was emitted for its node (`MemoTruthful`): a
  constant's literal is the key, a specialisation constant carries the key as its number
  and any literal; nothing is declared twice, where two specialisation constants of one
  default are told apart by their numbers (`NoTwins`); an answer stays the answer
  (`CacheStable`); every type has the decorations and, once, the capability it needs
  (`Decorated`; decorations are a set, so that one is given twice is not seen). The makers in `Unsound`
  are excepted by name where they are wrong (see below), and nowhere else.
- `constants_faults`: `KeysSorted`, `MemosDistinct` (no two memos share an id although a
  failed call leaves its instruction behind and its id uncounted) and
  `LeavesReportFailure` (the makers of single types and constants answer 0; those that
  call others do not).
- `compile`: `EntryIdsAgree` (three computations of an entry point's id agree),
  `IdsUnique` (blocks of ids do not overlap), `ParamsBound` (a body gets the table of
  its own kernel, every parameter its slot in it, bindings count up in the order of
  `OpenCL.md:23`, and there is one push constant), `InterfacesDeclared` (of the ids an
  entry point lists, those of annotated pointers are declared, and no others: see below),
  `Delivers`.
- `assembly`: `Layout` and `OutputOwned`.

*Liveness and fairness.* `Compile` states `FairSpec == Spec /\ WF_vars(Next)`, and
`Delivers` is checked under it: every compilation returns, or crashes where the code
does, and when it answers OK the body of every kernel was compiled. The program
is one thread that waits for nobody; libclang's visits run over finite lists. So the
one assumption the code justifies is that a step that can be taken is taken.
What is not assumed is that any branch is ever chosen. The other modules describe
components that are called as often as their callers like, and promise nothing to
happen.

### What the runs with a violation show

Each checks one sentence of the repository that the code does not keep.

| run | the repository says | the code |
|---|---|---|
| `caches_all` | a cache (`ctx.h:64`) | stale node pointer in `util_mk_constant_arr128_id` |
| `push_constant_declared` | scalars are merged into one push constant (`OpenCL.md:24`) | a kernel of scalars breaks off (`decl_glob_obj.h:511`) |
| `local_length` | `u32[(COUNT + 3) / 4]` (`OpenCL.md:42`) | the last id given out is multiplied (`decl_glob_obj.h:340`) |
| `right_nested` | "succeed, value was not constant" (`expr.h:43`) | one counter for all operators: in `a + (b + c)` the inner operator is emitted right after `b`, and `c` is then loaded under the inner operator's own id; the outer one is emitted over it (`expr.h:731`) |

Other disagreements, met while modelling and left without a run of their own:

- the assumption of `cursor.h:144`, that the vector is no larger than the window asks
  for, is false at the first lookup of a second function with fewer parameters: the
  window shrinks and the vector does not.
- slots of the function before stay in the window of the next one (`aclspv.c:188`),
  although `ctx.h:39` and `:75` say "reset on every function", and a slot below the
  capacity keeps its old data (`cursor.h:159`), although `cursor.h:134` says it
  "will be empty except for" its key. `ResultIdsUnique` and `WindowKeysDistinct`
  hold in spite of it, but a variable that no label followed in its own function
  may be declared, under its old id, at the first label of the next. After a statement
  that was given up it may even take the id of a label: a variable without a type id
  (`VarDeclUnknown`) keeps the id that an earlier function left in its slot, and if that
  was a label's, the next function's first label declares a variable under it. TLC finds
  it with three kernels of one, no and no parameters; with two, the window is too small.
  `ResultIdsUnique` therefore excepts OpVariables once a statement was given up
  (`Clash`), and no others. It was a proof attempt that showed the exception to be
  necessary.
- variables are declared only when a label is met, so a body without labels loads
  from, and stores to, ids that nothing defines; `VariablesDeclared` is about those
  that were told.
- a statement that fails without setting `m_err` (`entp_body.h:418`), or before one
  that clears it (`entp_body.h:425`, `expr.h:776`), goes unreported; `lost` remembers it.
- an operand that breaks off the visit of an expression is answered as a success,
  because only the answer of the root is looked at (`expr.h:820`).
- the copy of a complete operation may lose the section `m_types` and keep its count
  (`expr.h:703`); with `m_err` cleared afterwards the compilation goes on, and the
  words before come out as zeros, or `impl_asm` copies from NULL (the phase
  `crashed` of `Assembly`).
- an operator that `expr.h:391` does not know, an assignment among them, leaves its
  operands in its own place: both sides of `a = b` are loaded into the id of the whole
  expression, in `a = b + c` that id is the load of `a` and the result of the operator,
  and below a known operator they are counted as its operands; `Wild` is what follows
  a count below zero. In `a + (b + c)` one id is the inner operator and the load of `c`.
  `ResultIdsUnique` therefore excepts values of one expression from each other, and
  from nothing else (`Clash`).
- the boot scale is made with 2 bytes and written as two words (`expr.h:803`). On the
  first call they reach byte 55 of an allocation of 50; `Boot` takes them as written and
  read back. What is read there once another scale was made is 65536.
- `count_fn.h:94` reserves an id of the interface for every parameter annotated as an
  input or output (`OpenCL.md:94` has no restriction to a type), but the declarations leave
  a scalar alone before they look at its annotation (`decl_glob_obj.h:111`). An annotated
  scalar becomes a part of the push constant, and the id reserved for it is listed by
  `OpEntryPoint` and declared by nothing; `InterfacesDeclared` says which ids those are.
- the makers of pointers answer an id though the maker of their pointee failed, where
  `ptr.c:27` says "0 when allocation failure".
- an error of the declarations (`decl_glob_obj.h:190`, `:251`) is overwritten by the
  phases after it (`aclspv.c:132`, `:166`), so the compilation answers OK.
- `m_num_ret` is set before `m_ret` is allocated (`asm.h:13`): a caller that fails is
  still handed the count, without words. `OutputOwned` holds because the result says so.
- the bound in the header (`asm.h:35`) is the number of words, not `m_id`. A helper
  function takes two ids and adds no words, so ids may reach it.
- `constant.h:473` asserts `m_arr128_id` one line before it is assigned.
- a scalar returns at `decl_glob_obj.h:111` without advancing `ARG_IDX`, so its
  slot is overwritten by the parameter after it; `ParamsBound` excepts scalars.
- `scale.h:175` asserts that the vector is there; after an allocation that failed,
  `decl_glob_obj.h:592` calls it without looking (the phase `crashed`).
- the emission of a workgroup variable may fail with the `ACLSPV_COMPILE_OK` of
  `decl_glob_obj.h:388`, and the compilation succeeds without it.

## What is proved

`ScaleProofs` proves, for every size of header, record and buffer and every
capacity (`SizeAssumption`, `CellAssumption`), that `TypeOK`, `Linked`, `Packed`
and `RecordsIntact` are invariants of `Scale` (`TypeCorrect`, `LinkedAlways`,
`PackedAlways`, `RecordsIntactAlways`). None is inductive alone: that a growing
buffer does not reach a record needs the packing, the packing after a deletion
needs the links, and the links need the types of the offsets. The inductive
invariant `IInv` is the conjunction of the four; `Inductive` states it. One lemma
per action shows that it is kept, with one step per conjunct the action can
disturb. The key fact is that the last scale is the one with the largest
offset, so that nothing lies behind the buffer that grows.

`ScaleRefinement` proves `ImplementsStack` under the same assumptions: `Implements`
says that every behaviour of `Scale` is one of `ScaleStack`. The mapping takes the
buffer of the scale with id i to the (i+1)-th place of the stack, so to `IInv` comes
`Numbered`: ids grow with the offset, none is left out, and every size is one a caller
asked for. From it the scale with the largest offset is the top (`Facts`), and each
of the ten actions is shown to push, pop, resize, write to or empty the stack, or to
leave it alone. `Numbered` also gives `IndexFinds` (`IndexFindsAlways`): the walk of
`get_scale_from_vec` is a recursive function, and the function from an index to the
node with that id solves its equation (`NodesFollow`); that nothing else does is
shown with the least index at which they differ (`WalkIs`).

`SectionProofs` proves `TypeOK`, `WithinAllocation`, `Tiled` and `ImplementsLog` of
`Section` for every address space, every limit below half of it, every number of
operands and every length of a string. `WithinAllocation` needs that the doubled size
does not wrap (`LimitAssumption`, that is 2^29 words, and the one assumption the code
does not check). `Tiled` is inductive only with `WithinAllocation` (a word behind the
allocation is no word) and with the place of the open instruction; `Inductive`
is their conjunction. The steps of the refinement then are read off: `Appends` extends
the log whichever way it grew, `SetOprndCount` completes the last instruction, `Loses`
and `CopyFails` lose the log or blank it.

`ExprProofs` proves the five safety properties of `Expr`, `TypeOK`, `Awaited`,
`IdsDefinedOnce`, `OperandsDefined` and `TranslatesExpression`, for expressions of any
size, any number of calls and of failures (`KindsAssumption`, `BoundAssumption`). The
types need two more facts, and `TInv` is the three together: what is put among the types
of the module has no operand that was loaded (`FlagsAgree`), and a scale with another
above it waits for two operands or for 65536 (`Waits`), for with the boot scale read as
0 the stack would grow by a word that is not there. `Awaited` speaks of the next operand
only; what makes it hold is the `Shape` of everything that is left: of the operators
that are open, the k-th from the root has the scale k + 1 and the k-th word pair of the
stack, and its right operand is the k-th to come from the end. At a left operand all
pairs are whole, at a right one the last left id is gone, and the completion of an
operator takes exactly the left id of the one around it. `Shape` is where `LeftDeep` is
needed: below a right operand the counter would be 1 for two operators.

`IdsDefinedOnce` and `OperandsDefined` need to know which ids the operators hold, and
`CodeInv` says it. Without an operator at a right operand all operators come before the
first leaf, and nothing but them takes ids until then: the k-th from the root awaits its
operands under the ids 2k - 1 and 2k after the first of the call, and is itself the id
2k - 3 (`Numbered`). Before the first leaf there is no code and m_id is where the last
operator left it (`Untouched`); after it the left operand of the innermost operator is
defined, its right one is not, and neither is an id from before them (`Halfway`). So
the id of a leaf and the id of a completed operator are new, the two an instruction
takes are there, and its section, chosen by IS_NOT_CONSTANT, agrees with its form, chosen
by the flag of its scale: when anything was loaded the flag of the innermost scale is set.

`TranslatesExpression` relates the tree, which no variable of the program holds, to the
code, and needs a third part, `TreeInv`. The id of a node follows from that of the
operator around it (`Placed`): an operator under v awaits its operands under v + 1
and v + 2 when v was the id asked for, and under v + 2 and v + 3 otherwise (`LeftId`,
`RightId`), because `Numbered` says where v stands. So the operands an instruction was
given (`Formed`) are the ids of its own two subtrees, whatever was visited between
them. A node that was visited has its instruction, or is an operator whose scale still
waits (`Compiled`), and each operand of an operator was visited or is still to come
(`Asks`); when nothing is to come only the boot scale is left, and both become what the
property says. Where the value is (`ValueIs`) is known when the last scale is joined,
and that the definition of a node is the only one is `IdsDefinedOnce`.

`AssemblyProofs` proves `TypeOK`, `OutputOwned` and `Layout` of `Assembly` for every size
of the sections (`RoomAssumption`). The first two are inductive with `Announced`: no words are held
before the copying starts or after a failure, and in between as many as the count says.
`Layout` needs what was copied so far (`LaidOut`): the header, and behind it the words
of the first `copied` sections one after the other (`Laid`). The offset of a section is
one of ten sums written out (`Offset`); the proofs compare them with a recursive sum,
`Before`, of which each is an instance since each adds one section to the one before it
(`OneTermMore`, `OffsetIs`). What is expected is `Code`, a recursive concatenation;
both have a value for the sections whatever they hold (`BeforeIs`, `CodeIs`), the one is
the length of the other (`CodeCounted`), and `Before[10]` is what `impl_asm` adds up for
the allocation (`TotalIs`), so a copy ends within it and touches nothing before it (`Copies`).

`CompileProofs` proves `TypeOK` and `EntryIdsAgree` of `Compile` for translation units
of any functions, with parameters of any kinds, and any number of failures
(`ProgramAssumption`). `m_w0` indexes the array of entry points without a check, and
the visits count it up on their own. So the types are inductive only with `Phases`:
`m_w0` is the number of kernels before the function that is visited (`Before`), hence
below the number the first visit counted (`BeforeGrows`). With `Slots` the slot that
the next parameter is given lies in the last table or directly behind it, which is
what `grow_last_scale` needs. `EntryIdsAgree` compares three lists that are built in
three phases and in two directions. `Counted` relates them through `Before`: during
the visit the entry points noted are those of the kernels passed, each at its place
and with the anchor plus that place for its id (`Noted`), and during the loop
over the bodies, last to first, the kernels compiled are those from `m_w0` on
(`Compiled`). Both hold as long as nothing failed, and a failure is never
forgotten (`FailsKept`).

`IdsUnique` of `Compile` needs where the blocks of ids are (`UInv`). Until the
declarations begin, nothing but reserved ids was taken from the counter (`Reserving`).
From then on the ids of types, constants and variables are apart from each other and from
the interfaces (`Apart`); they may not be told by the counter, for an Input variable takes
its id from the block its entry point reserved, long before. That it meets no other of
them follows from the order of the visit (`Frontier`: the inputs declared lie below the
place of the next one), and that it stays within the block from two counts of the same
parameters, of which the second never exceeds the first: the one that reserved it, of
annotations over the whole list, and the one of pointers the visit counts up
(`InputsBefore`). The id of the push constant is taken with the first scalar and defined
with the last parameter; in between nobody else may get it (`Held`). That the names a
maker misses get ids of their own is shown for the sequence of names as it is, with
repetitions, by the place where each stands first (`FirstPlace`, `MkAllExtends`).

`InterfacesDeclared` (`InterInv`) rests on the two counts again. In a compilation that
was not broken off (`Clean`), the ids below `io` of the kernel that is visited are declared
(`Complete`), and `io` is the number of annotated pointers before the parameter that is
next, unless the visit was given up with an error (`Abandoned`), which `KernelBroken` will
record. So, when a kernel is closed, the ids of all its annotated pointers are declared
(`AllDeclared`). That nothing declares the rest of its block, reserved for annotated
scalars, follows from the other direction: an input has an id of the part of its own
kernel's block that belongs to the pointers (`Owned`), and the blocks are apart.

`ParamsBound` (`TabInv`) says of the tables what a visitor leaves behind. The table of a
closed kernel has one slot for each parameter that is no scalar, with the id of a variable
that was declared for it, and the kernel has a push constant if and only if it has scalars
(`TableDone`, for the kernels before the one visited). Of the open table only the slots
below `arg` count: a scalar is written behind them and overwritten by the next parameter,
which is why no two slots are of the same parameter (`Filling`). That the variable of a slot
is found again, that slots of other kernels are left alone and that bindings are counted
from zero (`BindablesCounted`) makes it inductive. `Owners` and `Bodies` carry it over to the
loop over the bodies: the table that is read there at `m_w0` is the one that was filled for
the kernel noted there.

`ConstantCacheProofs` proves the ten properties of `ConstantCache` that the two runs
check, for any keys, any number of calls and a failing allocation anywhere
(`CallAssumption`; `WantedAssumption` says that FN_VOID is not asked for as a type, as in
the code). No property is inductive alone, and none is inductive over calls without being
so over the steps *within* a call, since makers call makers: `Good(ctx)` is what every
maker keeps, and one lemma per maker shows it from the lemmas of the makers it calls.
`Good` has the sorted nodes (`Shape`), that no two memos hold the same id and none is
beyond the counter (`MemosOK`, which failures keep), and, while nothing failed, a
correspondence in both directions: every instruction of the types section is that of a
default type or of one memo, with the operands the memo's node remembers (`KnownOK`), and
every default type and memo has its instruction (`MadeOK`). `NoTwins`, `MemoTruthful` and
`CacheStable` are read off the correspondence. `Inductive` adds that the answers given so
far are still what would be answered. The makers in `Unsound` need a case of their own
in each part, for what they write may be lost. The binary search is a recursive function;
that it finds the node, or the place for it, is shown for every length of the vector
(`SearchFindsNodes`), with the least element of a set of naturals in place of induction.

`EntpBodyProofs` proves the six properties of `EntpBody` for any number of kernels, of
parameters, of names, of statements, of ids and of failures
(`KernelAssumption`). `WindowKeysDistinct` needs that kernels are compiled last to first,
so that what is left over in the table is of later kernels only (`KeysAt`). Uniqueness of
ids needs the most: an id in the table that will be a result is not one yet. For labels
of the function that were named by a goto and not met, and for variables that were declared
and not told, in this function or before it, `LabelsAt` and `PendingsAt` say that the id is
no result, is different from those of the others, and is not the id of a reserved entry
point (`BoundAt`). `PendingsAt` is lost with the first statement that is given up, and that
is why `Clash` excepts OpVariables from then on. Every kind of statement is shown
to be a case of one transition of the table, `Turn`: it tells a set of variables and
gives at most one slot to a cursor. What a statement emits must have new ids, ids of the
variables it tells or of the label it visits (`NewId`), and then the invariant is
kept (`Taken`), wherever the statement fails. The code of an expression is apart from the
rest because each of its values has an id between the one asked for and the counter behind
it and names its statement (`Belongs`), which is shown for each form (`Fits`) and carries
over to what is left of it when it is given up (`Compiled`). The loops over slots and parameters
are recursive functions and unfolded as above.

The other three properties of `EntpBody` are about the order of the instructions, and
follow from a second invariant, `Order`, that rests on the first. Its part `Layout` says
that, while nothing was given up, `fndef` holds finished functions and, in a body, the
open head of one (`Opens`: OpFunction, OpLabel, OpVariables only), that what is stored into in
`fnimpl` is declared in that head (`StoredIn`), and that in `fnimpl` a branch precedes
a label and nothing else does (`Linked`). It speaks of neighbours (`Adjacent`) and not of
indices, for neighbours survive concatenation (`AdjacentConcat`). `VariablesDeclared` and
`BlocksClosed` are read off it at once. A return that is not last leaves a block closed
twice; `BlocksClosed` excepts such code, and so does `ClosedIfLast`, which has to be kept for
a section of which only the end decides whether it is excepted. The part `Meets` is about
labels: each branch of the body is to the id of a label in the table that was visited or
awaited by a goto, and of a visited one the body has the OpLabel. That slots of the
labels never move and keep their ids (`LabelsStay`), that a cursor has one slot
(`WindowKeysDistinct`) and that no id is handed out twice (`ResultIdsUnique`) then give
`BranchTargetsDefined`.

Every safety property and every refinement that a passing run checks is stated by a
theorem. Only model-checked is `Delivers` of `Compile`, for liveness under fairness is
out of the prover's reach. So are the four runs that end in a violation.

## Not modelled, and why

- The text side: attribute parsing (`sscanf` on annotations), names, debug names,
  diagnostics. Their answers are fields of a parameter.
- The opcode and the operand types of an operator in `expr.h`: tables without state.
- Sections of 2^29 words and more, where the doubled size wraps (`wrdemit.h:52`): no
  property says anything of them.
- The ids in the assembled module (see the bound of the header above), the work group
  size and the execution model of an entry point: data that no control depends on.
- `type_unique.h`, which nothing calls; build files; samples.
- Control flow other than goto: the visitor has no case for it, visits its
  children and drops it (`OtherStmt`).

## Plan

1. `Scale`, `ScaleStack`, `ScaleProofs`, `ScaleRefinement` - done.
2. `Section`, `WordLog`, `SectionProofs` - done.
3. `Expr`, `ExprProofs` - done; all its safety properties are proved.
4. `Assembly`, `AssemblyProofs` - done; all its properties are proved.
5. `EntpBody`, `EntpBodyProofs` - done.
6. `ConstantCache`, `ConstantCacheProofs` - done.
7. `Compile`, `CompileProofs` - done; all its safety properties are proved.
8. `TypeUnique` - find-or-add of `type_unique.h`, whose growth uses the size of
   the wrong type, should the program begin to call it.

# Xr0, modelled and verified in TLA+

Xr0 (the repository's `README.md`) is a verifier for C. A function carries an
*abstract*, a block between `~ [ ... ]` that says what the function does to
memory; Xr0 executes the abstract and the body symbolically and accepts the
function when no undefined operation is met, nothing is leaked, and both leave
the same memory behind. This directory models that verifier: not C programs,
but the program that judges them. The question behind every property is what
the word "verified" is worth.

## 1. Inventory

Paths are relative to `src/` of the repository, so `src/path/path.c` below is
`src/src/path/path.c` in `PROJECT.json`.

| component | state it keeps | operations | interacts with |
|---|---|---|---|
| path (`src/path/path.c`) | a binary tree; per path: one of seven states, the abstract and the actual symbolic state | `path_step`, `path_split`, `path_audit`, `path_atend` | driven by `ast_function_verify`; calls the executor's `state_step` and reads `undecideable_cond` out of its errors |
| props (`src/props/props.c`) | the assumed conditions of one state | `props_install`, `props_get`, `props_contradicts` | written by `path_copywithcond`, read by `sel_decide` |
| function (`src/ast/function/function.c`) | none of its own | `ast_function_verify`, `ast_function_initparams`, `ast_function_setupabsexec`, `ast_function_absexec` | path, executor |
| executor of statements (`src/ast/stmt/verify.c`, `stmt.c`) | none of its own | `ast_stmt_exec`, `ast_stmt_absexec`, `sel_decide`, `ast_stmt_isterminal` | expressions, props |
| executor of expressions (`src/ast/expr/verify.c`) | none of its own | `ast_expr_eval`, `ast_expr_abseval`, `ast_expr_lvalue`, `expr_call_eval`, `verify_paramspec` | memory; a call executes the callee's abstract |
| memory (`src/state/*.c`) | heap and its freed flags, clump, pool of literals, stack of frames with program counters, symbolic constants | `state_alloc`, `state_dealloc`, `state_deref`, `state_pushframe`, `state_popframe`, `state_declare`, `state_vconst`, ... | objects and values |
| audit (`heap_referenced`, `stack_references`, `state_equal`, ...) | a circuit breaker per search | `state_hasgarbage`, `state_equal` | memory |
| objects and blocks (`src/object/object.c`, `src/state/block.c`) | values at offsets, ranges of cells to free | `block_observe`, `block_range_alloc`, `block_range_dealloc`, `object_upto`, `object_from` | values, arithmetic |
| values (`src/value/value.c`) | numbers as ranges, pointers, symbolic expressions, structs | constructors, `value_equal`, `value_assume` | props, objects |
| call graph (`src/ast/topological.c`, `ast_function_buildgraph`, the `getfuncs` of statements and expressions) | the graph, a set of entered functions, frames of the recursion; a map of counts, a queue and the order | `recurse_buildgraph`, `topological_order` | `main.c` verifies in this order |
| linking (`pass0` and `verifyproto` of `src/main.c`, `src/ext/ext.c`, `src/ast/externdecl.c`) | tables of functions, types, variables | `ast_externdecl_install`, `proto_defisvalid`, `ast_function_protostitch` | function; calls look callees up in the tables |
| driver (`verify`, `pass1`, `pass_inorder` of `src/main.c`) | the mode and the index of the loop | verification in the order of the file, or of the calls (`-x`), printing of that order (`-t`) | linking, call graph, function |
| stripping (`strip` of `src/main.c`) | the position in the file | `isvblock`, `skipvblock` | nothing: it writes the file without its verification blocks |
| arithmetic (`src/math/math.c`) | none | `math_eq`, `math_le`, `math_lt`, ... | comparison of offsets |
| lexer, parser | input and output | | |

The program is sequential. What is hard in it is not scheduling but *history*:
a function is executed along many paths, each with its own copy of the memory
and its own assumptions; a step may fail half done and be repeated in two
copies; memory is looked at later than it was written, through aliases, after
frees, returns and calls. The properties that make each part right:

* **path, props**: the paths split the cases without loss or overlap; a path
  assumes only what is true in its cases; no impossible path is executed; the
  verifier ends; "verified" means that every case was audited.
* **executor, memory, audit**: a verified function is safe and keeps its
  abstract when it really runs; a function that is rejected deserves it; no
  assertion of the verifier fails; a condition that was assumed is decided.
* **objects, values, arithmetic**: an array of ranges and values is an array of
  cells; splitting and freeing a range never gives a block two owners or a
  cell two objects; what is lost is found by the audit; what was allocated as a
  range can be freed as one.
* **call graph, linking, driver**: the graph misses nobody; a function comes
  behind those it calls; it is verified against what its callers assume; an
  accepted program has had all of its functions verified; the ways to crash are
  the known ones; the loops end.

`PROJECT.json` lists the hazards by line and the properties that cover them.

## 2. Modules

| module | models | checked by |
|---|---|---|
| `Props` | `props.c`, `ast_expr_assume` | through `Path` |
| `Path` | `path.c`, the loop of `ast_function_verify`; the executor is a parameter | `MCPath` (TLC), `PathProofs` (TLAPS) |
| `OneCase` | what verifying a function in one case alone means: the abstract specification of `Path` | through `EachCase` |
| `EachCase` | the refinement: the leaf of a case is where the verification of that case alone would be | `MCPath` (TLC), `PathProofs` |
| `PathProofs` | theorems about `Path` and `EachCase` | TLAPS |
| `State` | the symbolic memory, as operators from state to state | through `Memory` and `Verify` |
| `Memory` | the memory's operations as actions, in any order | TLC directly (`MCMemory.cfg`), `MemoryProofs` |
| `Allocator` | what the heap promises: the abstract specification of `Memory`'s heap | through `Memory` |
| `MemoryProofs` | theorems about `Memory` | TLAPS |
| `Audit` | `state_hasgarbage`, `state_equal` and their searches | through `Verify` |
| `Exec` | the executor of statements and expressions, calls, the program counter | through `Verify` |
| `Verify` | `Path` with `Exec` as its executor | `MCVerify`, `MCFindings` |
| `Concrete` | the meaning of programs: what really happens when a function runs | reference for `Verify` |
| `Tally` | sums of variables and their comparisons (`math.c`) | through `Ranges` |
| `Objects` | objects, the array of a block, splitting, range allocation and range free (`object.c`, `block.c`) | through `Ranges` |
| `Ranges` | an array on the heap under single statements, frees, loops and verification blocks | `MCRanges` (TLC), `RangesProofs`, `CellsProofs` |
| `Cells` | what an array promises: the abstract specification of `Ranges` | through `Ranges`, `CellsProofs` |
| `RangesProofs`, `CellsProofs` | theorems about `Ranges`: its invariant and its blocks, and its cells | TLAPS |
| `Calls` | expressions and statements as trees and the functions they call (`getfuncs`) | through `MCProgram` |
| `Linking` | the tables of externals, `pass0`, `verifyproto`, `protostitch` | through `Program` |
| `Topological` | `recurse_buildgraph` with its frames and the loops of `topological_order` | through `Program` |
| `Strip` | `strip`, `isvblock`, `skipvblock`, character by character | through `Program` |
| `Program` | the driver: linking, order, verification, stripping | `MCProgram` (TLC), and the next row |
| `ProgramProofs`, `LinkingProofs`, `GraphProofs`, `StripProofs` | theorems about the order, linking, the graph of calls with what is accepted, and stripping with the progress of the whole program | TLAPS |
| `MCPath`, `MCVerify`, `MCFindings`, `MCProgram`, `MCRanges` | instances for TLC | |

`Memory` and `Exec` use the same operators of `State`. `Exec` applies them as
the statements of a program say; `Memory` applies them in every order in which
statements could: what it shows does not depend on the family of programs that
a run of `Verify` goes through.

`Verify` composes `Path` (by `INSTANCE`), `Exec`, `Audit`, `State` and
`Props`. `Concrete` is not part of the model: it is the definition of right and
wrong, and does not mention the verifier.

`Program` composes `Linking`, `Topological` and `Strip`, which share the
declarations, the tables, the index of the running loop and `status`, as the
functions of `main.c` share them through their parameters. Verifying one
function is a step that succeeds or fails: what happens inside it is `Path` and
`Verify`. `Topological` takes the search for calls (`GetFuncs`) as a
parameter: `Calls` defines it with recursive operators, which have no place in a
module that is proved about, and the theorems hold for every search.

### How state and steps correspond

* `tree` is the tree of `struct path`, as a function from names to nodes. The
  name of a path is the sequence of conditions it was split on, what the code
  writes as `f | x | !(y)` (`split_name`). `PATH_STATE_HALFWAY` and
  `PATH_STATE_AUDIT` never outlive a call of `path_step` and appear only as
  part of the steps `path_init_actual` and `path_audit`.
* `path_step` on the root walks down to every unfinished leaf, `p_true` before
  `p_false` (`path_step_split`). `turn` holds the leaves the walk has yet to
  reach, and one action of the model is the call of `path_step` on one leaf.
  Leaves made by a split wait for the next walk, as in the code.
* `verdict` is what `ast_function_verify` has returned: "error" for any
  error, "abort" for a failed assertion (or a NULL pointer used without one).
* A symbolic state of `State` is a record of heap, freed flags, clump, pool,
  stack and symbolic constants. Being a value it needs no copying:
  `state_copy`, `stack_copy` and the like have no other counterpart.
* An action of `Memory` is a statement as far as the memory sees it: an
  expression is evaluated (`Evaluated`, which may allocate, pool a literal, make
  a symbolic constant or create the object it reads), the target is found
  (`Targets`), the value is assigned. A call pushes a frame and fills the
  parameter, a return reads the result, pops the frame and assigns. Only
  operations that succeed are actions, since an error ends the path.
* An operation of `Exec` returns the state *as the operation left it* also when
  it fails: a path that splits is copied with whatever the failed statement has
  already done. A call that fails leaves its frame behind, as in the code.
* Programs are records; types, printing and source positions are left out.
  Expressions that are values ("irreducible") are only compared.

* In `Program`, `status` is the function that is running or how the process has
  ended, and `i` the index of its loop; a loop body is one action. The recursion
  of `recurse_buildgraph` is the sequence `frames`, each with the function's
  statements, the callees noted and the place reached. The maps `g` and
  `indegrees` are functions from names with their keys in order (`keys`,
  `ikeys`), since loops run over them in that order. `strip` takes one step per
  character that is copied and one per block that is skipped.
* In `Ranges`, `objs` is the object array of the block that the result `a` points
  to, in its order; `freed` is the heap. A statement is one action and its
  outcome: another array, an error of the path (`verdict`), or an abort.
  Loops are executed as the code executes them, as their effect on a range.

Peculiarities of the code that the model keeps because they matter: a negated
condition is known as soon as nothing contradicts it (`props_get`); `!!x` and
`x` are different propositions, though assuming strips the bangs by parity
(`reduce_assume`); whether a statement returned is found out by deciding its
condition once more (`sel_isterminal`); `location_equal` ignores frames;
`location_tostack` looks into the top frame whatever the location; a failing
lvalue behind `p[i]` is a NULL lvalue, behind `*p` an error; `!e` as an
argument evaluates to the literal "hack".

Of programs (`Program`):

* a callee that is not declared is a NULL pointer that is dereferenced before
  the check that would report it (`function.c:402`); a declared function with
  neither body nor `axiom`, a body without statements and an allocation
  expression in a body fail assertions (`CrashExact` says: nothing else does);
* calls inside `e->field` are not searched (`ast_expr_getfuncs`);
* a prototype behind a definition whose abstract is empty is accepted: the
  definition was verified against the empty abstract while its callers assume
  the prototype's; an axiom replaces whatever was declared of its name; of
  several prototypes the last counts; two definitions without a prototype are
  both accepted, the second with the abstract of the first when it has none;
* `0c -s` does not end on a block that is not closed or a file that ends in
  `~`, and takes a byte 255 for the end of the file (`char` compared with `EOF`).

Of arrays (`Ranges`):

* `block_range_dealloc` appends the parts of an object outside the bounds to the
  array that it then throws away (`block.c:246`): the rest of a split range is
  forgotten, and its fresh blocks are reported as garbage. The test
  `src/state/test.c:490-514` states the result that was meant; the difference is
  the finding `part_of_range`. The same append may move the array that is being
  read: undefined, so the model also lets the process abort there;
* a loop that frees between equal bounds frees what lies at the bound, though it
  is never entered when the function runs (finding `empty_loop`);
* a tally equals another if both have the same constant and as many variables,
  whichever they are, and a variable that cancels out stays
  (`variable_tally_eq`): `n = m`, but `lw + (up - lw)` is not `up` when `lw` is a
  variable;
* indices are compared as they are written, without evaluating them;
* objects are searched in the order of their creation. A range free that finds
  them out of the order of their offsets may be accepted and free nothing, or
  leave one object in the array twice; the next range free over both is the error
  of a block freed twice (`object_dealloc_ok`);
* a range free aborts when the first object is a number, or when the upper bound
  is the start of a range; a range allocation aborts when the block has objects or
  the bounds are written alike; and so does every verification block over a
  nonempty range (`ast_expr_rangedecide` takes the operands of a unary expression).

## 3. Runs

| run | expects | question |
|---|---|---|
| `path` | pass | does the tree of paths treat each case as it would be treated alone? |
| `memory` | pass | does the memory stay well formed, and its heap an allocator, whatever programs do? |
| `functions` | pass | is "verified" true of functions that allocate, free and return under conditions, keep blocks in blocks, use dead ones, and call others behind abstracts and preconditions? |
| `ranges` | pass | does an array of ranges stay an array of cells under every sequence of statements and loops, but for the two findings about loops? |
| `program` | pass | are declarations, order and verification of whole files put together rightly, and does the program end? |
| `not_condition`, `else_return`, `dangling_frame`, `reassigned_condition`, `literal_condition` | violation | single functions on which the verifier does not do what it says |
| `part_of_range`, `empty_loop` | violation | loops of `ranges` that do not do to the cells what they say |

**path.** The executor of `MCPath` runs sequences of guarded effects over two
conditions `a`, `b` and their negations; all abstracts and bodies of at most
`MaxLen = 2` statements are verified, which is enough for a path to be split
twice, once in the abstract and once in the body, or on one condition in the
abstract that the body meets again, negated or not. Functions that fail to
start, in every way, are included.

* `ExactlyOnePath`, `PropsFollowName`, `UnfinishedPathsArePossible`,
  `VerifiedMeansAudited`: the leaves partition the cases, what a path assumes is
  true in its cases, a path without a case is not executed, and "verified" is said
  only when each case has been executed to both ends and audited;
* `EachCaseAlone`: the refinement of `OneCase`, for every case at once. A step of
  the tree is, for each case, a step of its verification alone or none: whatever
  is split, copied, dropped and swept in between, no case has a step skipped,
  repeated or changed;
* `ReportedIsSomeCase`: an error or a failed assertion is one that the verification
  of some case alone ends with;
* `SplitsAreDecided`: what a path was split on is decided by its propositions the
  way it was assumed, through both lookups of the code and for the condition and its
  inversion, after the abstract has ended as before;
* `NoRepeatedSplit`, and `Termination` under `FairSpec`.

**memory.** One variable, one literal, two frames and two of blocks, literals and
constants together (`MaxNew`): a block is freed and another allocated, a stale
pointer is kept in a variable, in a block, in the caller or in the result, two
constants of one kind or of both exist, a literal is met twice. More of each
multiplies the states without a new relation between them, and the theorems of
section 4 hold for all of them. `HeapIsAllocator` is the refinement of
`Allocator`: the numbers below `Len(heap)` are allocated, those whose flag is set
are freed. Pointers go to offset 0 and are dereferenced at the offsets in
`Offsets`, up to two times in one statement.

**functions.** `MCVerify` verifies *every* body of at most `MaxLen = 4` statements of
three families, and of at most `MaxMixed = 3` statements of all three mixed, against
each of three abstracts, and compares the verdict with `Concrete`. The families are
conditional allocation, freeing and return of one block; two pointers one of which may
be kept in the other's block, with aliases and uses after free; and calls of
functions that make, destroy, write or pass on a block, some under preconditions.

* `VerifiedIsSafe`: a verified function, run with any arguments, never frees or
  uses a dead block and never uses an uninitialised value;
* `VerifiedConforms`: it leaks nothing and leaves the memory its abstract says;
* `ReportedIsWrong`: a rejected function deserves it. There is one exception,
  stated in the property: `state_equal` compares blocks by number, so a body that
  allocates in another order than its abstract is rejected too;
* `NoAbort`: no assertion fails. The one exception is a body that stores through a
  pointer that it has not assigned, which fails `assert(root_val)` in
  `expr_unary_lvalue`;
* `NoRepeatedSplit`: no condition is split on twice along a path.

Four statements are the shortest bodies in which a block is allocated, freed,
used or freed again and returned, and in which a condition is met twice with an
allocation between. Arguments range over 0 and 1: a body sees of a number only
whether it is 0. In this run a name of a function is its place in the family.

The families stay clear of what the findings show to be wrong (negated
conditions, `else` with a `return`, assigned conditions, conditions that are
pointers, addresses of variables) and of two other weaknesses listed as hazards
(undecided conditions inside compound statements and inside abstracts of
callees): inside these limits the run shows that the verifier is sound and, up
to the numbering of blocks, complete.

**ranges.** Three cells (`N`) under all sequences of assignments of numbers and
of fresh pointers, frees, loops that allocate or free a range, verification
blocks, and the audit. Bounds are the nonempty ranges of cells, `1..1`, `0..n`
and `m..n`. With three cells a range is split into what is before, at and
after the cell, and a free reaches across objects and cuts both the first and
the last. `MaxObjects = 3` is one object per cell; `MaxHeap = 5` is the array's
block and four more, enough for every cell to be allocated and one again. With
`MaxObjects = 4` the run has 1674232 distinct states and no error.

* `FreeableAsAllocated`: what a loop has just allocated a loop can free;
* `OneOwner`: no step from objects in order gives a block two owners or a range
  a freed block;
* `NoOverlap`: no step makes two objects contain one cell, but for an object that
  a range free out of order leaves twice;
* `OtherStepsAsCells`: the refinement of `Cells`, of all steps but loops that free
  a part of a range. A statement that finds the objects in order does to the cells
  what it says, or is refused, and the audit reports exactly what was lost;
* `PartIsReported`: a loop that frees a part of a range leaves a block that
  nothing refers to, and it stays so, so that the audit reports it. The loss is
  thus a false alarm, never a leak that is passed over.

Two things that arrays should do the code does not do, and each has a run of its
own: `part_of_range` checks the refinement without the exception (`StepsAsCells`),
`empty_loop` that a loop between equal bounds frees nothing
(`EmptyLoopFreesNothing`). `Cells` says that a range free empties some range of
cells that hold blocks, not which bounds the statement has, so the second is no
consequence of the first.

The run does not check deadlock: a path that has ended, or whose statements all
need more objects or blocks than the bounds allow, has no next step.

**program.** Four families of files: all call graphs of three functions, with an
axiom that one of them calls or not; all files of up to `MaxDecls = 3`
declarations of `f` and `g`, with and without abstracts, axioms, bodies,
statements, and a variable of the same name; samples of every kind of statement
in which calls are searched, under a root that is a function, an axiom or
undeclared; all texts of up to `MaxChars = 5` of the six kinds of characters
that `strip` tells apart. Three functions are the least with a cycle through
another function, a function reached in two ways, and a function outside of a
cycle that depends on it; three declarations the least with a definition
between two prototypes, or a stitched definition that a prototype follows; five
characters a block with another inside. `MaxOut = 6` bounds what a run that
never ends has written; no file is longer (`ConfigAssumption`). TLC evaluates
`SearchAssumption` in this run, for every statement of its families: the
recursive search of `Calls` finds what the declarative `Mentions` names.

* `VerifiedAsAssumed`, `AcceptedIsVerified`: what is accepted is verified, against
  the abstract its callers see; the property names the two exceptions above;
* `GraphExact`, `OrderComplete`, `DependenciesFirst`: the graph and the order
  against definitions over the trees and over sets of functions, not over the
  algorithm; a cycle is reported only if there is one;
* `CrashExact`: building the graph crashes on exactly the functions listed above;
* `StrippedExactly`: what is written is the file without its blocks, for files
  that are well formed (`WellFormed`): no byte 255, no block left open, no `~` at
  the end. What `strip` does of other files is modelled and executed in the run, but
  no property says that it should do better;
* `Terminates`: under `FairSpec` every file is dealt with, except that a block that
  is not closed and a `~` at the end of the file are not.

**Findings.** The first five are one function each (`MCFindings`), the last two
statements over an array (`MCRanges`):

1. `not_condition`: `if (!x) p = malloc(1); free(p);` is verified.
2. `else_return`: `p = malloc(1); if (x) 1; else return x; free(p);` is verified.
3. `dangling_frame`: `p = address(x); write(p);` is verified, where `address`
   returns the address of its own parameter.
4. `reassigned_condition`: `if (x) x = y;` fails the assertion in `sel_isterminal`.
5. `literal_condition`: `if ("a") 1;` is split on for ever.
6. `part_of_range`: after `for (i = 0; i < 9; i++) a[i] = malloc(1);` and
   `for (i = 4; i < 7; i++) free(a[i]);` no cell of `a` holds anything, though the
   test of the repository asks that the cells before 4 and from 7 on still can be
   freed. (`make test` does not run that test: only `src/state/Makefile` builds it.)
7. `empty_loop`: `p[1] = malloc(1); for (i = 1; i < 1; i++) free(p[i]); free(p);` is
   verified, though it leaks `p[1]`.

All were reproduced on the repository's code. For the first five, these functions
were built with the constructors of `ast.h` and given to `ast_function_verify`. The same
was done with several thousand random functions (calls, nested selections,
compounds, dereferences, setups): the verdicts of `Verify` and of the code, with
failed assertions and endless splitting told apart, agreed on all of them. For the last
two: the function of 7 is verified, and without its loop rejected as a leak; the range
of 6, freed as a whole, is verified, freed from 4 to 7 rejected for garbage, and freed
in three parts fails the assertion at `location.c:365`.

**Mutants.** For every property of every passing run `PROJECT.json` names a
mutated definition under which the run fails; they stand before the
definitions they replace, marked `Mutant:`.

**Fairness.** `FairSpec` assumes weak fairness of `Next`: `ast_function_verify`
is a plain loop in one thread, which takes its next step or has returned.
Liveness is checked for `Path` with the executor of `MCPath`; for the real
executor the question is `NoRepeatedSplit`, since every body is finite and a
path can be split only as often as there are conditions. `Program` has the same
fairness for the same reason: one thread, whose loops run until they return.

**Deadlock** is checked in all runs but `ranges` and the two findings about it; a
verifier that has returned stutters (`Done`), and so does a process that has exited
(`Exited`).

## 4. What is proved

`PathProofs` proves, for all functions, all conditions and every executor that
meets `ExecutorAssumption` (its operations return results of the declared
form) and `NoStateAssumption` (a NULL pointer is not a state):

| theorem | property |
|---|---|
| `TypeCorrect` | `Spec => []TypeOK` |
| `SplitsPartition` | `Spec => []ExactlyOnePath` |
| `AssumptionsAreTrue` | `Spec => []PropsFollowName` |
| `NoImpossiblePath` | `Spec => []UnfinishedPathsArePossible` |
| `VerifiedCoversEveryCase` | `Spec => []VerifiedMeansAudited` |
| `DecisionsAreRemembered` | `Spec => []SplitsAreDecided` |
| `TreeImplementsEachCase` | `Spec => EachCaseAlone` |
| `ReportsAreCases` | `Spec => []ReportedIsSomeCase` |
| `AssumptionsAreExact` | `Spec => []NameFollowsProps` |

None of the first five is inductive alone. The invariant `PathInv` has five parts:

* `TypeOK`;
* `NodeOK` of every node: an unfinished path has the states its phase needs;
  what its states have assumed follows from its name and has a model; a path at
  its end was audited, or its name contradicts itself (so it stands for no case
  and was rightly dropped);
* `ParentsAreSplit`: a proper prefix of a name in the tree is a split path.
  Without it a leaf could be overwritten by a split elsewhere;
* `ExactlyOnePath`;
* `VerifiedAtEnd`: the verdict "verified" is given only to a finished tree.

A step either replaces a leaf by one that meets `NodeOK` (`ContinueKeeps`),
splits it (`SplitKeeps`), or ends (`FailKeeps`). For the split, the lemmas about
propositions carry the argument: inverting a condition inverts its truth
(`InvertedHolds`), assuming strips bangs without changing it (`ReducedHolds`), a
contradiction is real (`ContradictionFails`), and a set of literals without
contradiction has a model (`ConsistentSatisfiable`), which is why a copy that
is not dropped is a possible path.

These theorems hold of every executor, the real one included: nothing is assumed of
what a step does, only of the form of its result.

`DecisionsAreRemembered` is the tree's half of never splitting twice on one condition:
the propositions a path is executed under decide whatever it was split on, so an
executor that looks a condition up before it gives up finds it. The proof goes
through `AssumptionsAreExact`: the propositions imply each condition of the name, and
a set of literals without contradiction implies a literal only by having it
(`EntailedIsMember`), where both lookups find it (`LookupsDecide`). The
executor's half, that it does look, fails for pointers, which is the finding
`literal_condition`; `NoRepeatedSplit` is therefore model-checked, for the executor of
`MCPath` and for the real one over the families of `Verify`, and not proved.

`TreeImplementsEachCase` is what `path.c` is for. `OneCase` is the verification of a
function in one case, given by the truth values of the conditions: abstract, body,
audit, one after the other, where a condition that is left open is assumed in the form
that is true. It has no tree, no copies and no sweeps. The refinement mapping takes
for a case `v` the fields of the leaf that stands for it (`PathOf(v)`; there is one by
`ExactlyOnePath`). A step of a leaf is a step of all cases it stands for
(`ContinuePathOf`, `StepAlone`). A split is too, though it makes two states with
different assumptions: of the two copies each case goes with the one whose condition is
true in it (`SplitPathOf`, `TrueFormIs`), and that copy is not dropped, because
a contradiction is false in every case. Together with `VerifiedCoversEveryCase`,
"verified" means that the verification of every case on its own ends accepted;
`ReportsAreCases` says that any other verdict is the end of the verification of some
case on its own, which exists because every unfinished path is possible. What remains
possible are the mistakes that the executor makes in a single case, such as the findings:
those are the question of the run `functions`.

`AssumptionsAreExact` is the converse of `AssumptionsAreTrue`: the propositions
under which a path is executed hold in no case but its own, so nothing is forgotten
between the abstract and the body.

`MemoryProofs` proves the properties of `Memory`, for all names, literals and
offsets and every bound, from the assumptions of `Memory` (`NamesAssumption`: the
result is not a variable; `OffsetsAssumption`: offsets are natural numbers and 0
is one; `BoundAssumption`: `MaxNew` is a number):

| theorem | property |
|---|---|
| `MemoryInvariant` | `Spec => []IInv`, the inductive invariant |
| `MemoryTypeOK` | `Spec => []TypeOK` |
| `MemoryNoWildPointer` | `Spec => []NoWildPointer` |
| `MemoryOneObject` | `Spec => []OneObjectPerOffset` |
| `MemoryConstantsAreDistinct` | `Spec => []ConstantsAreDistinct` |
| `MemoryPooledOnce` | `Spec => []PooledOnce` |
| `MemoryFreedForGood` | `Spec => FreedForGood` |
| `MemoryHeapIsAllocator` | `Spec => HeapIsAllocator` |
| `MemoryPrivateStaysPrivate` | `Spec => PrivateStaysPrivate` |

The invariant says of a state (`StateOK`): it has its type; each block has one
object per offset and no pointer beyond the arrays (`BlockOK`); each variable has
a block in its frame and an object at offset 0 (`FrameOK`), without which reading
a variable would find nothing; the number in the name of a constant is the count
of the constants of its kind declared before it (`ConstantsOK`), from which
distinctness follows because such counts grow; and the pool and the static blocks
go together (`PoolOK`). `SameShape`, `NoBlockLost` and `FreedKept` relate two
states. Almost every operation is covered by one of two lemmas: a block is
replaced (`WithBlockKeeps`), or a block is added (`Changed`); `location_getblock`
answering "ok" is what keeps freed blocks from being written. `EvaluatedOK`,
`AssignTarget` and `NextOK` put the operations together, and `AllocatorStep` is
the step of `Allocator` that each of them takes.

`PrivateStaysPrivate` is what a caller relies on: a variable of a waiting function
that no object points to is neither written nor pointed to until the function runs
again. It is a statement about dangling pointers too, whose frames may exist again
under other functions. `Private(x, y, n)` relates a state `x` to each state `y` on the
way through a step, for the `n` lowest frames: their blocks change only where `x`
points, and what points to them in `y` did in `x`. Every operation keeps it
(`PrivateAbove` if it leaves those frames alone, `PrivateWrite` if it replaces a
block), because each location that is written was read from an object or belongs to
the running function (`TargetPrivate`), and so does each pointer that is assigned
(`EvaluatedPrivate`).

`ProgramProofs` and `LinkingProofs` prove, for all files, names, abstracts and
searches for calls, from `LinkingAssumption` (EMPTY is an abstract, a NULL
pointer is none of the other things), `GetFuncsAssumption` (a search returns
names, or fails an assertion), `ConfigAssumption` (what a command line is, and
that the file to strip is not longer than `MaxOut`) and `StripAssumption`
(`MaxOut` is a number):

| theorem | property |
|---|---|
| `ProgramInvariant` | `Spec => []IInv`, the inductive invariant of the order |
| `ProgramDependenciesFirst` | `Spec => []DependenciesFirst` |
| `ProgramTypeOK` | `Spec => []TypeOK` |
| `LinkingInvariant` | `Spec => [](Tables /\ OneDefinition /\ Agreed /\ Known /\ Verified)` |
| `ProgramVerifiedAsAssumed` | `Spec => []VerifiedAsAssumed` |

That dependencies come first is not inductive: the code looks at a count, not at
the order. `Waiting(n)` are the callees of `n` that are not in the order, or of
which the scan of the current function has not yet told `n`. `Sorted` says that
`count[n]` is the number of `Waiting(n)` all through the scan, so that a count of
zero means that all callees are in the order, which is `First`. It holds when the
sort begins because the counts are the lengths of lists of callees without
repetition (`Counted`, `Entered`), and stays because a function enters the queue
once, when its count reaches zero (`Queued`). `Collected` says which functions
have a count, `Linked` and `Typed` give types. `ProgramTypeOK` adds that indices
and counts stay in their ranges.

For linking, `Tables` says that the table holds the last declaration so far of
each function, `OneDefinition` that a name with a prototype has one definition,
`Agreed` that the declared function and the last prototype have the abstract of
the definition, with the two exceptions, `Known` that only declared functions
are sorted, and `Verified` carries over to the functions that were verified. When
`pass0` has run, what a caller looks up is what was agreed upon.

`GraphProofs` goes on from both, with `SearchAssumption` besides: the search of
a statement fails exactly if the statement is `Unsearchable`, and else returns what it
`Mentions`. It is a fact about the recursion of `Calls`, which the prover cannot
use and TLC evaluates in the run `program`; the theorems hold of every search and
every declarative reading that agree.

| theorem | property |
|---|---|
| `GraphInvariant` | `Spec => []GInv`, the inductive invariant of graph and sort |
| `ProgramGraphExact` | `Spec => []GraphExact` |
| `ProgramCrashExact` | `Spec => []CrashExact` |
| `ProgramOrderComplete` | `Spec => []OrderComplete` |
| `ProgramAcceptedIsVerified` | `Spec => []AcceptedIsVerified` |
| `ProgramAcceptedMeets` | `Spec => []AcceptedMeets` |

`Followed` is the part of `GInv` about building: each frame has met everything
its statements before the next one call (`Follows`), each key is done with its
whole body (`Complete`), and what was entered is a frame, a key or an axiom, and
lies under the given function. When the last frame has returned there are only
keys and axioms, so what was entered is closed under calls (`GraphClosed`) and
equals the declarative `Under`, the smallest such set: this is
`GraphExact`. `Crashed` says that building stops only where such a function
cannot be called (`Uncallable`).

For the sort, `Ranked` and `Stuck` say that a function which waits for nobody is
in the queue or has left it. When the queue is empty and functions are missing,
each of these waits for another of them (`CycleIsOne`), and in a finite set in
which all call into the set somebody is under itself (`CycleExists`): were nobody,
a callee of `n` in the set would have strictly less of the set under it than
`n`, and some `n` has least. So the cycle that is reported is a real one.
`Accepting` follows `qed` through `pass1` and
`pass_inorder`, with `Tables` of `LinkingProofs` for which definitions the file
has.

`AcceptedMeets` says what the order is for: calls are executed as the abstracts of
the callees, so the verification of a function is worth something only if its callees
meet theirs. For every set `M` of facts "this function meets this abstract" such that
axioms meet theirs and each verified function does if its callees do, every function
under the given one meets its abstract. The proof takes the first function in the
order that would not; its callees stand before it.

`StripProofs` goes on from `GraphProofs` and proves, for well-formed files of every
length and, with `ProgramProgress`, for the whole program:

| theorem | property |
|---|---|
| `ProgramStrippedExactly` | `Spec => []StrippedExactly` |
| `ProgramProgress` | `Spec => [][Progress]_vars` |

`StrippedExactly` defines the blocks by counting brackets, from a `~[` to the
first place where as many are closed as opened. The invariant `Stripping` has two
cases. Outside of a block (`Copied`) the output is what is kept of the
characters read, and no block of the file reaches over the place reached.
Inside one (`Inside`) that holds for the place where the block begins, the
brackets since then have not balanced, and `depth` says by how many they differ.
The step that closes the last bracket has found the first balance, so what is
skipped is one block of the definition and nothing else.

`Progress` is the part of termination that is within the prover's reach. `Work` is a
tuple of five numbers: the phase, then what is left of its loops, outer ones first.
Each step makes it smaller (`LexLess`), which needs the invariants: building
the graph enters each function once, so that those not entered become fewer
(`UnenteredLess`); a function leaves the queue into an order that is never longer than
the graph; a block that is skipped takes the position forward. There is no infinite
descent in this order (the lemma `WorkIsWellFounded`), so every run ends, and the
exceptions of `Terminates` are the only ones. `Terminates` itself, which says that under
`FairSpec` the end is one of the proper ones, stays with TLC.

`RangesProofs` proves, for all offsets and bounds that are sums over the
variables (`RangesAssumption`):

| theorem | property |
|---|---|
| `RangesInvariant` | `Spec => []Typed`, the inductive invariant |
| `RangesTypeOK` | `Spec => []TypeOK` |
| `RangesFreeableAsAllocated` | `Spec => []FreeableAsAllocated` |
| `RangesOneOwner` | `Spec => OneOwner`, if `BoundsInOrder` |

`Typed` says that each object refers to a block that exists and has an offset
and a size in the domain of the arithmetic. `RangesOneOwner` is about a step: from
objects in order, what is split is replaced by parts with fresh blocks
(`SplitSound`, `ObserveSound`) and a range free keeps a part of the objects and
adds parts with fresh blocks (`EndsInOrder`: the first object it looks at stands
no more than one place behind the last). `BoundsInOrder` says that the bounds of a
loop are not numbers in reverse. The code takes such a loop, although C would not
execute it; it would then copy objects twice.

`CellsProofs` proves the other properties of `Ranges`, two of them under hypotheses
that are operators of `Ranges` and that TLC evaluates in the run `ranges`
(`MCRangesAssumption`): `BoundsInOrder`, and `CellsCovered`, that the cells the
statements and the loops name by a number are cells of the array.

| theorem | property |
|---|---|
| `RangesNoOverlap` | `Spec => NoOverlap`, if `BoundsInOrder` |
| `RangesOtherStepsAsCells` | `Spec => OtherStepsAsCells`, if `BoundsInOrder` and `CellsCovered` |
| `RangesPartIsReported` | `Spec => PartIsReported` |

For `NoOverlap`, `Clear` of two objects says that one ends before the other
begins. The parts of a split object lie within the whole, so they are clear of
whatever the whole was clear of, and an object is appended only where none
contains its cell. What a range free keeps is a sequence of the objects there
were, each of them once if they stood in order.

`OtherStepsAsCells` is the refinement of `Cells`: every step from objects in order
that is not a loop freeing a part of a range is a step of the array of cells, or
leaves all cells alone. The invariant is `Typed`
and `Within`, that an object whose bounds are numbers lies within the array. What
the refinement mapping says of a cell depends only on the set of objects that
cover it (`KindAt`), and what the audit sees only on the blocks that no object
holds (`Lost`), so the proofs speak of sets of objects and not of their order.
Splitting keeps the kind of every cell (`SplitKinds`): the parts hold fresh
blocks, all live, where the whole held a live one. A range allocation covers the
cells of its bounds (`RangeAllocCells`). A range free drops the objects from the
first to the last that it touches. In order and without a gap these cover all
cells from the first to the last of theirs (`SegmentCovers`), all of them held,
and nothing else changes (`FreeSegment`), which is `FreeRange`. When the bounds meet,
the objects are those that lie at the bound, and they are freed all the same.

`PartIsReported` is about the steps that the refinement excepts. A rest that is split
off gets a fresh block, and the object that holds it is not in the new array. A block
that nothing refers to stays so under every statement (`LostStays`): objects are only
made with blocks that were held before or are new, and a block is only freed through
a reference to it.

Every theorem assumes only the named assumptions of the modules it is about and
what stands in its ASSUME. TLC evaluates all of them for the instances it
checks: `ExecutorAssumption` and `NoStateAssumption` in `path`, those of `Memory`
in `memory`, those of `Program` (`SearchAssumption` among them) in `program`,
`RangesAssumption` and `MCRangesAssumption` in `ranges`.

No run lists `NameFollowsProps`, `AcceptedMeets`, `Progress` and
`PrivateStaysPrivate`: the theorems cover them. They were checked on the instances of
the runs before they were proved (`AcceptedMeets` with sets `M` about the declared
functions, `PrivateStaysPrivate` with `MaxDepth = 3` and `MaxNew = 1` as well, so that
two functions wait).

Only model-checked:

* liveness (`Termination`, `Terminates`), which is out of the prover's reach;
  proved of it is `ProgramProgress`, and for paths `DecisionsAreRemembered`;
* `NoRepeatedSplit` of `Path`, which depends on what the executor asks;
* the properties of `Verify` (`VerifiedIsSafe`, `VerifiedConforms`,
  `ReportedIsWrong`, `NoAbort`, its `NoRepeatedSplit`): `Exec` and `Concrete` walk
  trees with recursive operators, which the prover cannot use, and what they
  compute for every tree is an induction over data;
* `SearchAssumption`, for the same reason: `Calls` is recursive;
* the findings, each of which is a counterexample.

Of the contradiction branch of `path_copywithcond`: `sel_decide` never reports a
condition as undecided that the propositions contradict, except for values it
does not look up, so the branch is not taken in the run `functions`.
The proofs cover it.

## 5. Not modelled, and why

* Loops and verification blocks are modelled in `Ranges`, over an array, and not
  in `Exec`: the families of `Verify` have no loops. Reversed bounds
  are not among the checked instances, nor are pointers into the middle of
  a block.
* Struct values, `++`, `--`, typedefs, types: left out of `Exec`.
* Ranges of numbers as values (`number_range_*`, `value_assume` in `value.c`): the
  functions that decide conditions by them have no caller in this commit.
* `math_expr_simplify` and the printing of sums have no caller in the
  verification.
* Lexer, parser, preprocessing, printing: no state that verdicts depend on.
* An explicit `else ;` is treated as no `else` (the code fails an assertion in
  `stmt_setupabsexec` when such a selection stands in an abstract).

## 6. Plan

In this order.

1. Loops in `Exec`, with `Ranges`' operators as their effect, so that paths,
   calls and audits meet arrays.
2. Struct values, `++` and `--` in `Exec`.
3. Conditions in abstracts of callees and in compound statements, where the code
   repeats what a failed statement has already done.
4. Proofs about single operations of `Exec` that are not recursive (`sel_decide`,
   `assign`, `verify_paramspec`), towards the executor's half of `NoRepeatedSplit`
   for conditions that are no pointers.

# A verification of the Lisp interpreter

This directory models a Lisp interpreter written in C99 (`src/`): a reader, an
evaluator that works on linked objects, closures that copy what they capture, a
mark-and-sweep collector, and a small library of containers.  The models are
TLA+ modules, checked with TLC on small instances; the heap of the interpreter,
the vector behind its collector, the reader, the parser, the arithmetic, the hash
table, the ordered set, the linked list and the permuter are also proved about with
TLAPS, for every value of their constants.  Paths below are relative to `src/`.

## 1. The system

The program is sequential.  `main.c` parses the command line and calls
`run_lisp`, which interprets a library file, a program file and a prompt, one
expression after the other:

    text --Reader--> expression --Parser--> objects --eval/apply--> result
                                               |  set, lambda          |
                                               v                       v print
                                     environment, gc.allocated <-- collect_garbage

| component | state it keeps | operations | what makes it correct |
|---|---|---|---|
| reader and session (`interpreter.c`, `repl.c`) | the open file, the global buffer `buff`, the expression under construction, the history | read from a file, read from a prompt, interpret, close, dispose; `SIGINT` | the lines of a file are handed out in order, with none left out, and none doubled before its end; the session ends and gives everything back |
| parser (`parser.c`) | none (recursion on the text) | parse an expression, a list, an atom, a quote; validity tests | returns the first expression and where it ends, and stays in the text |
| evaluator (`evaluator.c`, `closure.c`, `primitives.c`) | the C stack, `interpreter->env` | `eval`, `apply`, partial application, ten primitives and `defmacro`, which always fails | prints what the expressions mean, never touches freed memory |
| environment (`environment.c`) | one association list: links to pairs `(key . (value))` | look up, extend, overwrite, restore | a tree of its own: shares nothing, loses nothing |
| collector (`garbage-collector.c`) | `gc.allocated`, a flag on each object | record, record recursively, mark, sweep, dispose | frees each temporary once and nothing else |
| vector (`lib/cvector.c`) | array, count, capacity | append, insert, replace, remove, clear, filter, dispose | is the list of its elements; cleans up each once |
| objects, lists (`lisp-objects.c`, `list.c`) | the objects | allocate, copy, compare, join, dispose | used by all of the above |
| arithmetic (`math-lib.c`) | none | five operations and five comparisons on ints and floats | ints and floats agree where both can hold the result; what overflows, traps or never ends does so as the processor says |
| ordered set (`lib/cset.c`) | an AVL tree whose nodes keep their height and the sizes of their subtrees | insert, remove, look up, rank, size, clear | the tree is balanced and the counts are right; the interpreter does not use it |
| hash map (`lib/cmap.c`) | entries with their hash, size | insert, look up, remove, clear, walk | finds exactly the keys that are in it, loses and doubles no pair; not used by the interpreter |
| linked list (`lib/clist.c`) | nodes with two links, front, back, count | push, pop, insert, erase, remove, clear, walk | the links lead through the same elements in both directions; not used by the interpreter |
| permutations (`lib/permutations.c`) | the array, a direction for each place | next, reset, `nth_permutation`, `nth_combination` | every arrangement once, then the end; not used by the interpreter |

The components share state rather than send messages.  The hard parts are all
about *who owns an object and for how long*: the environment owns what it points
to and frees it in `set`; the collector owns what evaluation allocated and frees
it after each expression; results share structure with both; and the C stack
holds pointers to either while nested evaluations run.  The other hard parts are
partial failure (an expression that fails inside an argument, a clause or a
file), the end of the input, and the one asynchronous event, `^C`.
`PROJECT.json` lists each of these hazards at the line where it bites, with the
properties that cover it.

## 2. The modules

| module | models | checked | proved |
|---|---|---|---|
| `ObjectLifetimes` | the promise of `include/garbage-collector.h`: an object is the environment's or a temporary | as a property of `LispMemory` | implemented by `LispMemory` |
| `LispMemory` | ownership: every operation that allocates, links, records, marks or frees | `Memory_*.cfg` | `LispMemoryProofs` |
| `LispValues`, `LispEvaluation` | what expressions mean: values, and a recursive reference evaluator on them | used by `LispMachine` | - |
| `Arithmetic` | `math-lib.c`: ints up to `MaxInt`, floats that are stored as ints | in `Machine_programs.cfg` | `ExpressionProofs` |
| `LispMachine`, `MCLispMachine` | the evaluator and the primitives, object by object | `Machine_*.cfg` | - |
| `ElementList` | what `cvector.h` promises: a list of elements | as a property of `CVector` | implemented by `CVector` |
| `CVector` | `lib/cvector.c` | `CVector_ops.cfg` | `CVectorProofs` |
| `Texts` | the tests on a text that the parser and the reader share | with both | - |
| `Parser`, `MCParser` | `parser.c`, and a reference reader with an explicit stack | `Parser_texts.cfg` | `ExpressionProofs` |
| `Reader`, `MCReader` | the readers and loops of `interpreter.c` and `repl.c` | `Reader_sessions.cfg` | `ReaderProofs` |
| `CMap`, `MCMap` | `lib/cmap.c` | `Map_*.cfg` | `CMapProofs` |
| `OrderedSet` | what `cset.h` promises: a set of elements under an order | as a property of `CSet` | implemented by `CSet` |
| `CSet`, `MCSet` | `lib/cset.c`: the AVL tree with cached heights and counts | `Set_ops.cfg` | `CSetProofs` |
| `Deque` | what `clist.h` promises: a list that can be changed at any place | as a property of `CList` | implemented by `CList` |
| `CList` | `lib/clist.c` | `List_ops.cfg` | `CListProofs` |
| `Permuter` | `lib/permutations.c` | `Permuter_ops.cfg` | `PermuterProofs` |

Two modules describe the heap, at two levels.  `LispMachine` executes real
programs, so it says what a *given* program does to memory; `LispMemory` drops
what is computed and lets an evaluation do any sequence of heap operations, so it
says what *every* program may do to memory, and it is the one the proofs are about.

Definitions whose comment begins with "A mistake:" are plausible bugs in the
operation that follows them.  They are used nowhere; `PROJECT.json` names, for
each property of a passing run, the mistake that the property catches.

### LispMemory

An object is a number, in the order of allocation.  `kids` holds the pointers,
`slot[l]` is the value that the binding `l` holds; a binding (the link, the pair,
its key and the cell after it, always allocated together) is one object.
`allocated[a]` counts the entries of `gc.allocated` that hold `a`; `reachable` is
the set of objects whose flag is up; `scopes` is the stack of `interpreter->env`
and the `old_env`s that calls of `apply` saved.  Actions and code:

- `Parse`: `interpret_expression`, which records the parsed tree, and
  `read_expression`, which does not.
- `NewCell`, `NewTree`: the cells of `cons`, `t`, `nil`, a closure; the trees of
  `lambda` and of the copies that an application makes, recorded with
  `gc_add_recursive`, which also raises the flags.
- `Apply`, `Return`: `bind`, `associate` and the exchange of `interpreter->env`
  in `apply`.
- `SetNew`, `SetOverwrite`: the two branches of `set`, for the value it was given:
  any live object all of whose parts are live (`Intact`), which `copy_recursive` reads.
- `SetReadsFreed`: `set` is given a value of which a part has been freed, and the
  copy (`primitives.c:302`) reads it.
- `Reset`, `Mark`, `Sweep`: `collect_garbage`; marking is one object at a time.
- `Abandon`: `interpret_program` leaves its loop without collecting.
- `Dispose`: `interpreter_dispose`.

Using freed memory is undefined behaviour in C: the step that does it sets `fault`
("read" for that copy, "free" for anything else) and the behaviour is followed no
further.  `(set 'y (cons x (set 'x '(a))))` is an expression that comes to the first
kind without any closure: `cons` holds the old value of `x` when the inner `set` frees
it, and the outer one copies it.  So `NoFault` is about the second kind only, what the
collector and the disposals do, and of the first `ReadsOnlyOverwritten` says where it
comes from: an earlier `set` since the last collection has overwritten a variable
(`overwritten`), and never from a sweep.  `LocalSet` is the assumption under
which the heap is sound: when it is `FALSE`, `set` in a closure overwrites only
variables of the global environment and creates none.  With it `TRUE` the run
`local_set` shows what goes wrong when a closure's variable is overwritten.  A
variable *created* inside a closure breaks the other half: `set` prepends a link to
`interpreter->env` (`primitives.c:327`), `apply` puts the old environment back
(`evaluator.c:76`), and the link, which `gc.allocated` does not hold either, is
lost, although `garbage-collector.h:17-19` says that objects of the environment
are looked after by it; `NothingLost` is violated with `LocalSet = TRUE`.

### LispMachine

`heap` maps addresses to objects of the real layout (`car`/`cdr`; parameters,
procedure and captured list of a closure).  `control` is what the innermost C
function is about to do and `stack` the calls below it with the locals they still
need, so that a pointer held by `cons` between its two calls of `eval` is part of
the state.  Each call and each return is a step.  `Faithful` compares what was
printed, and the values of all variables, with `Run` of `LispEvaluation`, a
definitional evaluator without memory.  That evaluator shares with the machine two
things that the code's comments contradict: a predicate that fails selects its clause
in `cond` (`primitives.c:254`, where `primitives.c:217-219` says "until one returns
t"), and an operation on floats gives an int (`math-lib.c:52`, where `math-lib.h:28`
speaks of a float object).  `departed` remembers that one of them has happened, and
`Faithful` says nothing of the program from then on; it catches no such step.  It
shares `Arithmetic` as well, so that it says what is calculated with which numbers and
not that the calculations are right.  `Primitives` gives a program's initial
environment, in the code's order: all twenty-one names when the program asks for
`env`, otherwise those it uses, since the others cannot be told from absent.

Numbers are those of `Arithmetic`.  `get_int`, `get_float` and the int in which
every result is stored (`allocate_float` calls `new_int`, although `math-lib.h`
speaks of floats) are modelled by what they do; ints go round after `MaxInt`.
Where C leaves the result open the model has what the build does on x86: a division
by zero, or of the smallest int by -1, raises `SIGFPE` and ends the program (the
machine's "trapped" state), and a float outside the ints converts to the smallest
int.  `mod_floats` by zero subtracts for ever: the "looping" state, in which the
program stays.  Floats are multiples of one half, which shows every truncation;
the rounding of floats beyond 24 bits is left out, and so is the failure of
`malloc`.  What is said of floats is therefore said of the numbers that they hold
exactly (`Exact`): `MaxWhole` is 2^24.

### CVector

`elems` is the array itself, cells that were never written included; the filter
takes one step for each element, in place, as the code does.  `ElementList` is the
list a client sees, in which a filter decides one element after the other.
`MidInsert` says whether the client inserts before the end: `cvector.c:81` then
moves the elements with source and target exchanged, so that it overwrites what it
should keep (`NothingForgotten` is violated with `MidInsert = TRUE`).  The
interpreter only appends.

### CMap

`entries` is the table.  An insertion, a lookup and a clear are single steps; a
removal erases the entry of the key and then looks at the entries behind it in the
loop of `delete`, one step for each: `Move` fills the hole, `Skip` goes on, and
`Removed` is the return.  `Right` asks, for an entry that `delete` looks at, whether
it is moved exactly if the hole is on the path of its lookups, and `tidy` remembers
whether that was so in every step, and whether the loop came far enough.  The code
compares `hash >= start` without going round the table (`cmap.c:319`) and stops at
the hash of the removed entry, so `tidy` does not always hold: `AlwaysFindable` is
violated (run `map_remove`), while `Findable`, which assumes `tidy`, says that
nothing else in the map goes wrong, and `Counted`, which does not, that no pair is
lost or doubled even then.  In the trace of `map_remove` one key has its home in entry
0, another in entry 1, and both are there: removing the first moves the second into
entry 0, in front of its home, where no lookup looks.  A walk finds such a pair:
`WalksAll` says that in as many steps as there are pairs `cmap_first` and `cmap_next`
come to each as often as it is in the table.  It says nothing of the step after the
last pair: `cm->end` is never set, so `cmap_next` then leaves the table (`OUTSIDE`)
where `cmap.h:110-113` promises a next key only "if there is one".

### CSet

A tree is a node with its subtrees in it. `Trees` are the trees of at most
`MaxHeight` levels, whatever their nodes keep; what the code does on its way through
a tree, by recursion (`insert_at`, `remove_at`, `dispose_node`) or in a loop
(`lookup`, `set_rank`, `extrema`), is a function on `Trees`. `Settle` is one round
of the loop of `balance`, and `Balance` two of them: `BalanceEnds` proves that there
is never a third. The fields that the code caches in a node, `height`, `nleft` and
`nright`, are fields here and change only where `assign_child` changes them, so a
count that is not brought up to date stays wrong. `Insert` stops where the tree
could grow out of `Trees`. `ImplementsSet` compares the tree with `OrderedSet`, the
cleanup calls of the last operation included. When the allocation of a node fails,
`insert_at` hands `NULL` up to the root (`cset.c:160`): the set goes on with none of
its elements, and nothing cleans them up (`OrderedSet!LoseAll`).

### CList

`next`, `previous` and `added` are the fields of all nodes ever allocated, and
`live` says which of them have not been freed. `ImplementsDeque` says which
operation of `Deque` each call is. `clist_erase` and `clist_remove` do not look
whether the node is at an end (`clist.c:129`): after that `front` or `back` points
at the node that was taken out, although `clist.h:139,148` says "Erase the data" and
"Remove an element". The list is followed up to there (`Usable`), and no property
says what comes after. `clist_erase` frees neither the node nor the element: `lost`.
`clist_next` and `clist_prev` assert that there is a further node, although
`clist.h:93,103` say that they return `NULL`.

### Permuter

`elems` is the array, `directions` the bit array that moves with it, and `key` what
the client's comparison sees of the elements, so that elements may compare as equal;
`qsort` (external) may put those in any order. With equal elements that are not the
smallest, some arrangements are never reached (keys 1, 1, 2, 2: five of six), which
is why `Complete` makes an exception for them.

### Parser and Reader

A text is a sequence of characters of `Alphabet`. `ParseExpression` and `ParseList`
return the value, the position after it, and `inside`: whether only the text was
read, because `parse_list` uses a distance of -1 as an offset when the text ends too
early. They call one another at later positions of the text: `Readings` is the
function on positions that they define together, and `Printings` the one on values
that `UnparseValue` and `UnparseList` define. Values are at most `MaxLevels` deep,
which is only there to give that function a domain. The parser leaves the text for
`(')`, whose brackets match: `parser.c:58` goes past the end, and that is why `ReadsInsideQuoted`
leaves a quote before a bracket out. An atom is a symbol, an integer or a decimal,
whose value is kept as the numeral that `%d` or `%g` prints of it. `PlainNumbers`
says of a text that this is what the code does with its numerals: no sign or
exponent, no prefix of another base, at most nine digits, or six where there is a
dot, since `%g` prints no more. `Unparse` is what `unparse` prints of what was read,
and `PrintsWhatItReads` that it is read as the same again if the numerals of the
text are such ones, except for `()`, which is printed as `nil` and read as the atom,
and a whole float, which is printed without its dot and read as an integer. `Reader`
has the loops: `FirstLine`, `NextLine` and `CheckFile` are
`get_expression_from_file`; `PromptLine`, `PromptMore` and `CheckPrompt` are
`get_expression_from_prompt`; `InterpretFile` and `InterpretPrompt` are the loop
bodies of `interpret_program` and `interpret_fd`, where an expression has a value or
fails (which one, `LispMachine` decides); `buff` is the global buffer with its
leftover contents. `get_expression_from_file` looks at `buff` although `fgets` has
failed, so that the last line of a file is handed out a second time if it is a whole
expression by itself (`interpreter.c:200`). `InOrder` is about texts handed out, not
about what becomes of them: the lines taken of a file are what was handed out and
what is being put together, in order and with none left out, and until the end of
the file is met nothing else is. It allows the last line to come twice at the end, it says nothing of the prompt, and `read_expression` parses
only the first expression of a text that it is handed (`interpreter.c:129-130`): of
the line `()a` the `a` is dropped, although `interpreter.h:34` and
`interpreter.c:192` speak of one expression after the other.

## 3. The runs

| run | instance | shows |
|---|---|---|
| `memory` | 6 objects, trees of 2, one nested call, one builtin; about 142,000 states | the collector frees every temporary and nothing else; `set` copies a freed object only where an earlier `set` freed it; the environment stays a tree; `KeepsLifetimes`; every collection ends |
| `local_set` (violated) | same, `LocalSet` | overwriting a closure's variable gives an object two owners |
| `vector` | capacity 1, five elements; about 5,400 states | growth to 2, 4 and 8 cells, every pattern of a filter, removal and replacement anywhere |
| `programs` | some 2,000 programs, ints of 4 bits (`MaxInt = 7`); about 66,000 states | what is printed and bound is what a reference evaluator says, as long as the code does what its comments say; no memory is left; ints and floats agree |
| `stale` (violated) | one program | a result that contains an object `set` freed |
| `parser` | all texts of at most 7 characters over `( ) '` blank `a 1 .`; 960,800 states | the first expression is returned, the parser stays in the text, and what is printed reads as the same object where `%g` prints all digits |
| `sessions` | 1,232 sessions of a library and a program or a prompt, `^C` at any time; about 24,000 states | what is handed out of a file is its lines in order; no line is asked for too many; the session ends |
| `map` | 4 entries, 4 keys of which two collide and one goes round the end; about 26,000 states | lookups are right after tidy removals; no pair is lost or doubled; a walk comes to every pair |
| `map_remove` (violated) | same | a removal moves another key away from where its lookup begins |
| `set` | ten elements, two of them equivalent; about 23,000 states | the tree stays balanced, its counts and order answer rank, lookup and size, and it is a set that cleans up what it drops once |
| `list` | 5 elements; about 314,000 states | the list is the sequence of its elements, in both directions, until `erase` or `remove` takes one at an end |
| `permutations` | all arrays of 4 keys out of 4, one reset; about 13,000 states | no arrangement comes twice, all come, the loop ends; numbered permutations and combinations differ, as far as factorials are ints |

A violated run checks one statement of a comment, header or test of the code that
the code does not keep; `findings` in `PROJECT.json` quotes both.  More
disagreements are visible in the models and have no run of their own: those
described in section 2 (`LocalSet`, `MidInsert`, `(')`, the last line of a file,
the list's ends, the last step of a walk through the map, what follows the first
expression of a line, the copy of a freed value, the ints made of floats); the flags of
the environment's objects are never lowered, although the comment in
`collect_garbage` says "reset all the flags" (`Reset`); the handler of `^C`
disposes of a pointer that is always `NULL` (`Interrupt`); at the end of the
prompt's input inside an expression the length of `NULL` is asked for (`PromptMore`);
and `cond` takes the clause of a predicate that failed, although
`primitives.c:217` says "until one returns t" (`CondReturn`).

*Bounds.*  Every bound is a named constant. `MaxObj = 6` with two objects of the
initial environment leaves four for a history: enough for a closure application with
a bound variable, a new variable with a value, an overwrite and a collection with
temporaries in between; the proofs remove this bound. A vector of five elements from
capacity 1 grows three times, and a filter of five sees every pattern. The programs
combine every primitive with every kind of argument, every wrong number of
arguments, closures of at most two parameters applied to at most two arguments, all
histories of three changes out of nine, recursion, and every operation on five ints,
the smallest and the largest among them, and on the floats of the same size; four
bits are enough for every overflow. A map of four entries has runs that go round its
end, runs of colliding keys and a full table, in which `delete` comes round to where
it began; `CMapProofs` removes the bound. Five elements make a list with an inner
node on either side of the place where it changes. Four elements are the fewest for
which the largest one comes back and a second one moves twice; `MaxIndex` = 4!. Ten
elements, two of them equivalent, make trees of at most four levels (`MaxHeight = 5`
stops no insertion) and every kind of rotation, at the root and below it, after
insertions and removals; the smallest tree in which one removal needs rotations at
two heights has twelve nodes and is out of reach. Seven characters hold a list in a
list with two atoms, quotes of quotes, and decimals with digits on both sides; a
character adds at most two levels of list (a quote does), so `MaxLevels` is 14, and
the proofs remove both bounds. Three lines are enough for an expression over several
lines between two others.

*Deadlock.*  `LispMachine` is checked for deadlock: its end is a step of its own.
The other configurations switch the check off because the system really stops there:
the interpreter or a container is disposed of, the allocation bound is used up, the
text is as long as `MaxText`, the session has ended, the elements and the
arrangements that a client may ask for are used up.

*Fairness.*  The interpreter is one thread: a call that has begun goes on.
`LispMemory` assumes weak fairness of marking and sweeping only (a program need
not finish), `CVector` of the steps of a running filter, and `Reader` of the
session's next step, which also says that input that is waited for arrives or
ends.  `Permuter` assumes that the client's loop `for_permutations` goes on.
Nothing is assumed of `^C`, of resets or of a map's client.

## 4. The proofs

Each of the eight modules whose name ends in `Proofs` holds the theorems about one
module, except that `ExpressionProofs` has those about `Arithmetic` and `Parser`;
`PROJECT.json` lists the main ones.  Where a property is defined by a
recursive function (a walk, a concatenation), no library theorem says that there is
such a function, or only one, since those take an operator.  The modules therefore
prove it for the function at hand, and facts about all its arguments, from the least
number for which they fail (`FirstExists`, from the order of the natural numbers
being well founded).

**LispMemory.**  `TypeCorrect` needs no assumption.  The others assume
`~ LocalSet`, which the run `local_set` shows to be necessary.  The properties
are not inductive.  The invariant `IInv` adds what the code relies on and nowhere
writes down: the environment's objects, `Owned`, are closed under pointers; no
two of them point to the same object, and none to the root; the only way into them
that a step uses is a scope's link.  `Links` is the part that is easily missed:
which links belong to which scope, that a link of the global scope is owned and
holds its value in `slot` and nowhere else, and that links of inner scopes are
recorded.  Without it nothing says that what `SetOverwrite` frees is a subtree of
the environment.  From the tree shape follows that the objects below the old value
are owned, allocated and disjoint from what stays; from that, no object is freed
twice in `set`; from `RecordedOnce`, none in the sweep and the disposal.  That is
`MemorySafety`; it does not say that `set` copies no freed object, which would be
false.  `ReadsSound` has its own part of the invariant: whatever an object points to is
live, or was overwritten since the last sweep (`Held`); a sweep frees recorded objects
with their flags down, and no pointer of what remains leads to one.
`MarkStaysInEnv` holds although flags are stale, because `Reset` lowers those of
all that can be freed and marking stays in `Owned`.  `ImplementsLifetimes` maps
each action to one of `ObjectLifetimes` or to a stutter.

**CVector.**  The theorems assume `~ MidInsert` (section 2 says what a
client that inserts before the end does to it).  `IInv` says
how `kept`, `removed`, the array and the set of cleaned elements are related in
the middle of a filter, and the refinement theorem follows each step of it in
`ElementList`.

**CMap.**  The only assumption is `MapAssumption`: some entries, and a hash for
every key. `NoGap` (no free entry on the path of a lookup) is an invariant between
operations while `tidy` holds, but it does not hold inside a removal, and what holds
there is not obvious. `OneGap` says that the hole is the only gap and only on the
paths of entries that `delete` has yet to come to. To keep that when an entry is
moved, and the hole with it, one has to know that no entry before the old hole has a
path that leads round the table through the new one. In a table with a free entry
that is clear; a full table that is being emptied has none but the hole. The
invariant therefore carries an `Anchor`: an entry on nobody else's path. A free
entry is one, and the entry that filled the table is one, since its place was free
when all other entries were put in; no right move goes past it. `MapFindable`
follows: while `delete` moves the right entries lookups are right, so its comparison
is the only thing to blame for `map_remove`. `MapCounted` needs none of it and holds
for the moves of the code as they are. The places round the table are compared by
their distance from where a probing begins, which turns each fact into linear
arithmetic.

`MapWalksAll` gives each entry in use its rank, the number of entries in use before
it; `NextFrom` leads from each rank to the next one, so that a walk of as many steps as
there are pairs comes to each rank once (`VisitsOf`), and each pair is at as many ranks
as `kept` says (`PairVisits`).

**Reader.**  The assumption `ReaderAssumption` says that every session is a sequence
of sources, of files and prompts with lines of characters. The invariant says that
the lines not yet read are the last ones of the file (`AreTheLast`), that a file
that has ended is not read any further (`EndsOnce`), and that an expression for
which another line is asked is not complete (`Incomplete`). The texts handed out of
a file and the one under construction are then its lines, in order and none left out
(`ReaderInOrder`); the leftover line comes a second time only after the end of the
file was met, behind them all. `ReaderStopsInTime` is an action property.

**CSet.**  The assumption `SetAssumption` says that keys are integers and that the
number of levels is bounded, by any number.  `IInv` says that the tree is a search
tree (`Search`): at every node the kept height and counts are those of the subtrees,
which differ by at most one level, and the element is between theirs (`Sound`).  A
fact about all trees follows from `TreeInduction`: it holds for `NULL`, and for a node
whenever it does for the subtrees.  The heart of the argument is one level: `balance`
of a node over two search trees that differ by two levels gives, in each of the four
cases of which child and which grandchild is the higher one, a search tree of the same
elements that is as high as the node was or one level lower (`BalanceLeft`,
`BalanceRight`).  So an
insertion makes a subtree at most one level higher (`InsertedAt`) and a removal at
most one level lower (`RemovedAt`), and the difference never exceeds two on the way
back to the root.  `remove_node` takes the greatest element of the left subtree
(`LastIs`) and removes it there; the node that comes back out has stale links and
counts, all of which the two calls of `assign_child` overwrite (`NodeRemoved`).
`SetBalanced` and `SetAnswersRight` follow from `IInv`, and `SetImplementsOrdered` maps
each call to one of `OrderedSet`, with the elements cleaned up once each.

**CList.**  No assumption but that elements are numbered. The invariant says that
there is a sequence of different live nodes along which the links lead from front to
back and back again (`IsChain`), that links of nodes that were never allocated lead
nowhere; once the node at an end was taken it says nothing of the links.
`ListLinked` compares the recursive walks with that sequence; `ListImplementsDeque`
maps each call to the operation of `Deque` on the sequence of its elements, the
losses of `erase` and the order of the cleanup calls included.

**Arithmetic.**  `MaxInt` is any number from 1 on.  An int that overflows is the
exact result plus a multiple of the number of ints (`WrapIs`), so overflows in a
chain of sums or products cancel where the exact result is an int
(`OverflowsCancel`).  Of all quotients only that of the smallest int by -1 is no int
(`QuotientsFit`): it is the one that traps.  `FloatsMeetInts` is what the code
promises by handing ints to the float operations when one operand is a float; for
the remainder it holds only up to the sign, since `mod_floats` gives the
remainder of the absolute values.  It assumes that the numbers and the result are
within `MaxWhole`, 2^24 for the code's floats, any number in the proof: 16777217 is
rounded as a float, and the model, whose floats are exact, has nothing to say of it.

**Parser.**  The assumptions are that values may have two levels for each character
of the longest text (`TextAssumption`), and that both bounds are numbers; the
characters may be any.  That the recursion of the parser has a value at all
(`ReadingsAre`) is proved from the end of the text backwards: `parse_expression` and
`parse_list` look only at later positions, or at the expression at the place
where the list goes on (`ExpressionLooksAhead`, `ListLooksAhead`).  A whole text is
then followed by the number of brackets that are open before a position (`Depth`):
an element that begins at some depth ends at the same depth, a list ends one level
lower, and neither can meet the end of the text, where the depth is 0.
`ReadingInduction` packs this up: what holds for atoms and ends of lists, and for
quotes, brackets and lists when it does for their parts, holds for all that is read of
a text.

- `ParserReadsInside` is this with "reads only the text".
- `ParserReadsFirst` says by the same induction that the reader with the stack, begun
  where the parser is and with any forms open, comes to the parser's value at the
  parser's position, in at most two steps for a character of the element
  (`ElementsRead`).
- `ParserPrintsWhatItReads` has two inductions.  `ParsedTrips` says that every value
  parsed is read again from its printed text wherever this comes in any text, if
  there an atom ends after it (`RoundTrip`, and `ListTrip` for the elements of a list
  up to its bracket).  A statement about the printed text alone would not do, since
  the printed parts of a list come in the middle of its text.  The leaves are
  the numerals: no zero on the left of an integer or on the right of a decimal
  comes back.  The theorem is about texts whose numerals are plain (`PlainNumbers`),
since for others the model's numerals are not those of the code: 1.234567 is printed
as 1.23457.  `ParsedValues` bounds the depth of what is parsed, so that it is
  among the values that can be printed.

**Permuter.**  `PermuterTypes`: the array holds every element once for any number of
elements and any keys, because an exchange keeps a bijection and the largest mobile
element exists and faces a place inside the array.  `PermuterNoRepeat` and
`PermuterComplete` need the order in which the arrangements come.  Every key gets a
digit: how many smaller elements it has passed since it last turned.  Whether it has
turned can be seen in the array: it has if the smaller keys are in an odd number of
inversions (`Turned`).  A step adds one to the digit of the key that moves and does
not change those of smaller keys, while larger keys have gone as far as they can
and start again at 0.  So arrays come in the lexicographic order of their digits, and none
comes twice.  A step leaves out no digits, and when all keys but the smallest are
different the digits say what the array is: nothing is left out (`Gapless`), and at
the end, when no key can move, all digits are as large as they can be.
`PermuterUnranks` is about the other numbering.  The factorials are the bases of one
system of digits and the powers of two of another (`Bases`), and in either a number
below the base `N` is what its digits make (`DigitsMake`).  A digit of
`nth_permutation` is always below the number of elements that are free, so there is
one to pick (`RankExists`), and from the permutation one can tell which was picked.
The theorem is about the factorials that are ints (`FactorialsFit`), which in the code
are those up to 12!: strings of thirteen characters and the numbers that are ints.

**Only model-checked.**  Liveness (`CollectionEnds`, `FilterReturns`, `SessionEnds`,
`Ends`) is out of the prover's reach.  So are the five invariants of `programs`.
The meaning of programs that `LispMachine` is compared with, `LispEvaluation`, is an
evaluator that need not end; it is written with recursive operators, in whose
modules `tlapm` has no arithmetic.  `NoFault` is no theorem of `LispMachine` either
(the run `stale` is a program that violates it): under which condition the heap
is sound is proved of `LispMemory`, for every program.  What `FloatsAgree` says of
the machine's programs is proved of the operations (`FloatsMeetInts`).

## 5. Not modelled

- Failure of `malloc`: the code either asserts or reports and leaks, and the
  heap modules would need every allocation to fail.  (`CSet` does have the
  insertion that finds no memory for its node.)
- `cvec_search` and `cvec_sort`, which hand the array to the C library, and
  `split_lists`, which nothing calls.
- Hash functions and comparisons on bytes (`lib/hash.c`, `ops.c`, and
  `murmur3.c`, third-party): the map's hash is any function.
- The command line (`main.c`) and logging.
- Numerals with signs, exponents, octal or hexadecimal digits, or more digits than `%g`
  prints; floats that are rounded; the printing of
  closures and primitives, with its buffer of 256 bytes.
- Lines longer than the reader's 512 byte buffer.
- Factorials that overflow in `nth_permutation`, from 14 characters on.
- What the list's `front` and `back` and the map's walk lead to once they have left the
  container, and what a file's last line does when it is handed out again.

## 6. Plan

Done: `ObjectLifetimes`, `LispMemory` and its proofs; `ElementList`, `CVector` and
its proofs; `LispValues`, `LispEvaluation`, `LispMachine`; `Arithmetic`, `Parser`
with numbers and printing, and the proofs of both; `Reader` and its proofs;
`OrderedSet`, `CSet` and the proofs that the tree is balanced and implements the
set; `CMap` and its proofs, the walk included; `Deque`, `CList` and the proof that
one implements the other; `Permuter` and the proofs that it is complete and repeats
nothing and that numbered permutations and combinations differ.

Left, in this order:

1. `LispMachine` implements `LispMemory`: the abstraction from heap cells to
   owners, as a property of `programs`; the trees that files and prompts leave.
2. Numerals with signs and exponents, and the digits that `%g` cuts off; the
   printing of closures.

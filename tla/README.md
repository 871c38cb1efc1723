# Formal model of golua

TLA+ specifications of golua, a Lua 5.5-style virtual machine in Go, with the TLC
configurations that check them and TLAPS proofs of the results that matter most.
Every definition is translated from the Go source; `PROJECT.json` maps each one to the
lines it stands for, lists what could go wrong in the code (`hazards`) and names the
seeded fault that each property catches (`mutants`).

    tlc -workers 2 -config CoroutineSafety.cfg MCCoroutine
    tlc -workers 2 -config Language.cfg MCInterpreter
    tlapm CoroutineProofs.tla

The project has three groups of modules. One follows the parts of the virtual machine that keep
state across calls (coroutines, channels, tables, weak tables, unwinding). One, the *Language*
part, follows a program from its tokens to what it does to the outside. One, the *Library* part,
follows the functions of the standard library a program calls.

## 1. Inventory

| component | code | state | operations | what is hard | what makes it correct |
|---|---|---|---|---|---|
| coroutine scheduler | `stdlib/coroutine.go`, hooks in `vm/vm.go`, `vm/vm_upvalue.go` | registry, `Coroutine` (status, started, channels, err), `VM.terminated`, `VM.closeDepth` | create, resume, wrap, yield, close, VM.Close's sweep | one goroutine per coroutine over unlocked shared state; abandoned resumes; closers and the closed goroutine; handlers that re-enter the library; timers | the VMs take turns, none waits for ever, closed coroutines run their handlers, nothing parked is lost |
| channels | `vm/chan_provider.go`, `stdlib/chan.go` | `closed`, `done`, `senders`, the Go channel | send, recv, try_send, try_recv, close, select | goroutines of the host and VMs race close against sends | no send on a closed Go channel, exact WaitGroup, FIFO, Close returns |
| instruction budget, limits | `vm/limits.go`, `vm/vm.go` | family counters, a VM's local budget | charge, sync, inherit | counters moved between goroutines | a family never spends more than its budget |
| protected calls, upvalues, to-be-closed variables | `vm/vm.go`, `vm/vm_upvalue.go` | call stack, open upvalues, tbc list | call, pcall, close, unwind | errors inside handlers of errors | each handler once, in reverse order, last error wins |
| tables | `vm/table.go`, `vm/vm_table.go` | array part, three hash maps, ordered keys with tombstones, two optional indexes over them, a cursor and window all traversals share | get, set, SETLIST, next, length, promotion | migration between the parts, assignment during traversal, caches some mutations keep and others drop | a map; every key visited once; where the length is a border |
| weak tables | `vm/weak_store.go`, `vm/weak_ref.go` | entries, index, dead count, traversal window, weak pointers | get, set, next, length, sweep, change of `__mode` | the collector, and sweeps of other VMs, between any two operations; addresses are reused | a map without what was collected |
| finalizers | `vm/gc.go` | pending queue | collector callbacks, drain | callbacks on the collector's goroutine | no finalizer lost or run twice |
| values and arithmetic | `vm/value.go`, `vm/vm_arith.go` | none | arithmetic, comparison, numeric `for` | 64-bit edges | Lua's definition |
| interpreter and calls | `vm/vm_exec.go`, `vm/function.go` | frames, stack | one arm per instruction | re-entry from natives | stack discipline |
| hooks, introspection | `vm/vm_hook.go`, `vm/vm_debug.go` | hook mask, count | dispatch | hooks that run Lua | no re-entry |
| lifecycle and providers | `vm/lifecycle.go`, providers | registered providers, close hooks | register, Close | failure of one of several | every one is shut down |
| lexer, parser | `lexer`, `parser`, `ast` | token stream with one token ahead | parse a block, a statement, an expression | precedence and associativity of eleven levels, calls against new statements, nesting | the tree is the one the text stands for |
| compiler | `compiler` | registers in use, active variables, blocks, pending jumps, upvalues, constants | one function per statement and expression | goto and scope exit, register reuse under assignment, open lists, constants across functions | the compiled code means the source; what the rules forbid is rejected |
| strings, patterns, packing | `stdlib/string.go`, `pattern.go`, `string_pack.go`, `utf8.go` | matcher state, a `gmatch` position | find, match, gmatch, gsub, sub, byte, rep, pack, unpack | backtracking, captures restored on failure, empty matches, alignment, widths and sign | reference definitions |
| table library | `stdlib/table.go` | the list being sorted | insert, remove, move, concat, unpack, sort | comparators that lie or fail, overlapping moves, lengths at the edge of integers | permutation, order, closed forms |
| base, load, package | `globals.go`, `load.go`, `package.go` | `package.loaded` | load, require | modules that require each other | one load |
| io | `vm/full_io.go`, `stdlib/io*.go` | two buffers, the descriptor's position, modes, defaults of the io table | open, read, write, seek, setvbuf, flush, lines, close | a reader ahead of the program and a writer behind it; append; closed files; the collector | one position and no buffer, as far as a program can tell |
| processes | `vm/process_provider.go`, `stdlib/exec.go` | child, readers, exit status | start, wait, kill | child, timers and readers race | wait returns once, all output seen |
| directives, check, glob | `directives`, `check`, `glob` | block stack | match, apply | nesting | reference definitions |
| os, time, http, command line | `stdlib/os.go`, `stdlib/http`, `cmd` | – | – | calls to the outside | – |

Coroutines and channels meet in `VM.CheckInterrupt`: a context that is cancelled releases
a VM from every blocking call, and the unwinding error reaches the host through the nested
resumes. `VM.Close` calls the scheduler's sweep as a close hook. Parser, compiler and dispatch
loop meet in the prototype: instructions, constants, nested prototypes and upvalue descriptions.
The library meets the rest in calls only: a comparator, a replacement function, a file handle's
`__gc` and `__close`.

## 2. Modules

| module | what it is |
|---|---|
| `Coroutine` | the scheduler: every VM of a family, its goroutine, the three channels per coroutine, close handlers, the host |
| `MCCoroutine` | its instances |
| `CoroutineProofs` | types, life cycle of the coroutines, who owns a dead VM, the registry, the close depth; the VMs of a family take turns, and the handshakes between them meet |
| `AbstractChannel` | what channels promise: first-in first-out pipes that are closed once |
| `LuaChannel` | channels as the code has them, on goroutines of the host and on VMs |
| `MCLuaChannel` | one unbuffered and one buffered channel |
| `LuaChannelProofs` | the safety of closing, and `LuaChannel` implements `AbstractChannel` |
| `WeakTable` | one table with `__mode`, the program that uses it, the collector and the sweeps |
| `MCWeakTable` | its instances |
| `WeakTableProofs` | the index and the count of tombstones are exact, reads answer for their own key, traversals miss and repeat nothing |
| `LuaTable` | one table without `__mode`: array, hash, ordered keys, and the traversals over it |
| `MCLuaTable` | its instances |
| `LuaTableProofs` | what each operation of a table does to its storage and what a step of `next` answers; every table is exact, acts as a map, has a border for a length (where no sum wraps around), and is traversed exactly |
| `LoopProofs` | a loop that is a function of the number of its passes: that it has a value, and what all its passes keep |
| `Unwind` | one VM: calls, protected calls, close handlers, open upvalues and the message handler (no MC module: its configurations need none) |
| `UnwindProofs` | which message handler is set, that the last error is reported, that call stack and `top` are restored |
| `LuaSyntax` | tokens, trees, values and operators of the language |
| `LuaPrinter` | the text of a tree, as tokens |
| `Parser` | the recursive-descent parser |
| `FuncState` | the compiler's state of one function: registers, scopes, upvalues, jumps, labels |
| `Compiler` | the code generator |
| `Interpreter` | the dispatch loop, one step per instruction |
| `LuaMeaning` | what a program means, read off its tree |
| `MCInterpreter` | the programs |
| `AbstractFile` | what a file promises: contents, one position, no buffer |
| `LuaFile` | a file as `fullFile` and the io library have it |
| `LuaFileProofs` | `LuaFile` implements `AbstractFile` |
| `LuaSort` | `table.sort`, one step per call of the comparator |
| `LuaSortProofs` | sorting is exact, for every list and comparator |
| `LuaPattern`, `LuaString` | the matcher; the string functions over it and the rest of them |
| `LuaList`, `LuaPack`, `LuaNumeral` | the list functions; packing; the numerals `read("n")` accepts |
| `PatternMeaning`, `LibraryMeaning` | the same answers in closed form |
| `Library`, `MCLibrary` | the three parts of the library as one specification; lists, patterns and questions |

### Coroutine

`pc[v]` says where VM `v` is: executing Lua, in one of the selects, parked, leaving.
The actions follow the code from one blocking point to the next, since between two of
those only the VM that has the turn executes: `ResumeCheck`/`ResumeSend` are the status
check and the send of `coResume` (something else may happen in between only through a
timeout, which is why they are two), `RecvYield`/`RecvDone`/`RecvCtx` the three branches of
its select, `Await*` those of `awaitCoroutineStop`, `StartCo` and `DoneClose` the two ends
of `runCoroutine`, `Yield`/`YieldSend`/`Wake`/`WakeClosed` are `coYield`, `CloseDead`/
`JoinDead` and `CloseBegin`/`CloseMark`/`JoinDone` the two paths of `coClose`, `CloseVM` and
`Reap*` the sweep of `VM.Close`. A to-be-closed variable is a count (`tbc`); while its
handlers run, `mode` says on whose behalf: `killed` (woken by a close), `self`
(coroutine.close of the running coroutine), `pending` (ClosePendingTBC, on the goroutine of
a closer, which is meanwhile at `pending`). `Poll` is the interrupt check of `OP_CALL`:
after it a VM may make one library call whatever has been cancelled meanwhile.

Left out: values, messages, hooks, the call depth, reference counts of upvalues, and what
`callCloseHandlers` adds to `closeDepth` (`vm_upvalue.go:100-104`: it takes it off again in a `defer`, so
`CloseDepthBalanced` is about the chains `coroutine.close` enters). What the Lua program does next is any choice it has. The panic protocol is kept: nothing,
an error, the sentinel of coroutine.close, the sentinel of os.exit.

### LuaChannel

`senders` is the WaitGroup, `done` the channel that wakes blocked senders, `buf` the Go
channel's buffer. `accepted` and `taken` are history variables. A call of the VM that is
over goes through `Checkpoint` first (`CheckInterrupt` after the select). Go's own channel
semantics are the three operators `Take`, `Drained` and `Pass`.

### WeakTable

`ws` is the `weakStore`: the ordered `entries`, the `index` from lookup keys to entries, the
count of tombstones and the shared traversal window. Every operation holds `ws.mu`
throughout and is one action; its effect on the store is an operator of its own
(`AfterGet`, `Store`, `Delete`, `AfterNext`, `AfterSweep`, ...), so that what each does to an
entry whose key or value has been collected can be read side by side. An object is an
address and a life: `LookupKey` forgets the life, as `weakKeyFor` does. `Collect` is Go's
collector: everything not reachable from the registers and from what the store holds
strongly dies at once, weak pointers included. `last` is a history variable: what was
assigned last to each key and not collected. `walk` holds the traversals in flight with the
keys they still owe; a key stops being owed when its entry is lost.

### LuaTable

`tbl` is the table: `array` and `cap` (Go's capacity, which decides when an append
reallocates and promotes), the hash part as one function `hash`, the ordered `keys` with
tombstones, the lazily built `deadIndex` and `keyIndex`, and the cursor and window of `next`.
`strHash`, `intHash` and the general `hash` are one function here, since no key can be in two
of them; what differs by kind of key (the order of store and slot in `ReviveDead`) is kept.
Every helper is an operator from table to table, in the order the code calls them, so that
`SetTable` is `Table.Set` whole: dead slots, revival, promotion, absorption, shrinking. A loop of
the code (`rehashToArray`, `absorbHashIndices`, `OP_SETLIST`, the two searches of the length) is a
function from a number of passes to what they have made of the table, each pass an operator of its own
(`MoveNext`, `MoveCovered`, `WriteField`, `Halve`, `HalveInt`, `Double`); a pass after the loop has ended changes
nothing, so that a bound on the passes is all the loop's result needs. The search in the hash part doubles up to
`maxInt`, so `HalveInt` computes in Go's ints (`Wrapped`, `Half`); the array's search does not, since
a slice in memory is far shorter than `maxInt`. The order in which `range` hands
`absorbHashIndices` the entries of a Go map is any.
`listed` is the constructor that is running: `PositionalFields` is one `OP_SETLIST`,
`KeyedField` a store between two of them, `EndConstructor` the end of it. `walk` is the
traversals in flight: where each stands (`at`), what it still owes (`due`), whether no key
has been added under it (`calm`), the number of slots it may not leave (`fence`)
and whether it was handed an index the array had shrunk below (`strayed`); the last three
are what its properties are stated with, not state of the code.

Abstracted: the threshold at which the indexes are built, the least size of a promoted
hash part and `maxTableEntries` are constants, so that a table of four integers meets all of
them. Left out: `ForEach`, metatables, and `table.pack` and varargs, which build states a
constructor reaches as well. `GoAppendCap` is the growth rule of Go's `append` for short slices.

### Unwind

The Lua program is arbitrary; the interpreter's part is exact. `go` is the Go stack, one record
for each Go function that keeps something across a call into Lua: `lua` a Lua function in
`execute`, `scope` a `closeUpvaluesWithError` with the positions it still has to visit, `pc` a
`ProtectedCall` with what it saved and how far its recovery is (`body`, `handled` by the message
handler, `closing`, `report`, or `done`), `msgh` a `callMsgHandler`, `closers` a
`callCloseHandlers` or `CloseAllTBC`. Below it are the VM's own fields: `cs` is `callStack`,
`tbc` is `tbcVars`, `uv` is `openUpvalues`, `mh` is `msgHandler` with its result. A Go panic is
`panic`; `Propagate` drops the records that have no recover, and `Recover`, `CloserFails`,
`CloserInnerDone` or `CallbackRaises` take it from there. `ProtectedCall(kind)` is `pcall`,
`xpcall` or a library function that calls back into Lua (`callback`: the users of
`ProtectedCallNoTBCClose`, which raise the error again).

Registers matter: a frame is placed at `top` and wipes its registers when it is popped, which
is what the findings below come from, so `stack` keeps for each register the variable it holds.
Values, parameters and results are left out: a Lua function has `NLocals` variables, an error is
a number, and `-e` is what the message handler makes of error `e`. `closed`, the number of a
variable and `raw` are history.

Left out: errors of hooks, the overflow paths (stack, close chain, inside a message handler),
`os.exit` and `coroutine.close` of the running coroutine (in `Coroutine`), protected calls made
by finalizers and by `require` and `load`, and where `lastErrorCallStack` points.

### Language

    tree --LuaPrinter--> tokens --Parser--> tree --Compiler--> prototype --Interpreter--> trace
      \------------------------------- LuaMeaning ---------------------------------------> trace

A program is a tree. `LuaPrinter` writes it with no more parentheses than the precedences ask for,
so that `Parser` has to find the tree again; `Parser` is the recursive descent of
`parser_statements.go` and `parser_expressions.go`, each operator returning the tree and what
is left of the tokens. `Compiler` and `FuncState` are the code generator: an operator per Go function,
from the state of the function being compiled to that state with its instructions appended.
`Interpreter` executes the prototypes: an action per group of instructions of `execute`, with
`stack`, `top`, `frames`, the open and closed upvalues and the to-be-closed list of the VM.
What the outside does is external: a host function is recorded in `trace` with its arguments and
answers with any of `Answers`; closing an object is recorded. So one program is as many behaviours
as its host has answers.

`LuaMeaning` has no registers, jumps or instructions: a variable is a location, a statement takes
a store to a store, and `break`, `goto` and `return` are signals that blocks pass on or stop.
`MeansItsSource` compares the two: same trace, same results, same failures, given the same answers.
`RejectsExactly` compares what the compiler refuses with the rules of the language, stated over the
tree. `FramesKeepRegisters` is what makes the registers safe while a program runs: `top` marks the frame's
end, and every open upvalue lies in a frame that is still there.

Left out: metamethods, coercions, floats, bitwise operators, line numbers and debug names, a
rebound `_ENV`, `global` declarations, named varargs, hooks, the continuation queue that stands for
recursion on long operator chains, every limit but `MaxRegs` and `StackSize`. An error ends the
program; what a protected call makes of it is in `Unwind`. `LuaMeaning` fixes the two orders Lua
leaves open as golua has them (stores of an assignment from right to left; reads of a variable an
expression also changes are not used).

### Library

The three parts share no state, and a behaviour of `Library` shows one of them.

*A file.* `disk` is what the file holds, `file` the `fullFile`: descriptor position, the `bufio.Reader`
and what it holds, the `bufio.Writer` and what it holds, modes. `handle` is the `fileHandle` and its
userdata; `input` and `output` are the defaults of the io table, `lines` the iterator of a loop. Opening in
every mode, read formats, write, seek, setvbuf, flush, close, closing by the collector, and the
functions of the io table are an action each. `result` records the call and its answer. The
refinement to `AbstractFile` maps the descriptor's position, less what the reader holds and plus
what the writer holds, to the one position of the abstract file, and the disk with the
unflushed bytes in it to its contents; every answer must be one the abstract file gives
to that call. `turn` is the rule of the C library the program keeps to, which is
golua's precondition as well: seek or flush between writing and reading.

*Sorting.* `LuaSort` is the quicksort of `sort`, cut at the calls of the comparator, since that is
what can fail or answer anything: `order` says whether it is the `<` of the elements,
arbitrary from call to call, or one that may raise. `SortExact`: at every step the list is a permutation of
the given one, no element outside the range is read, and the calls nest no deeper than the logarithm of
the length, whatever the comparator says and even if it raises; under `<` the sort is never found fault
with and ends with the list in order.

*Questions.* Functions without state are asked with every argument of a bounded set, each question an initial
state and its answer a step. `LuaPattern` is the backtracking matcher with its captures, match
depth and error cases; `PatternMeaning` the set of ways a pattern matches, of which the first in
the order of preference is the answer. `LibraryMeaning` gives the list functions, `sub`, `byte`, `rep` and
numerals as sets of positions in mathematical integers, while `LuaList` and `LuaString` compute in `MaxInteger`
with wrapping. `PackRoundTrip`: what is packed is unpacked, with `packsize` bytes, at every alignment.

Left out: standard streams, pipes, confinement to a directory, temporary files and errors of the device, two streams on one file, a
handle that becomes unreachable while its iterator runs; metamethods of lists other than `__len`; the
interrupts `table.move` polls for; a comparator that changes the list it sorts; `table.create`; the text of pack formats (a format is a list of
options here) and the bits of floats; `string.format` and `utf8`.

## 3. Runs

| run | instance | shows |
|---|---|---|
| `CoroutineSafety` | 2 coroutines, 2 contexts, 1 to-be-closed variable for each, close depth 2 | seven invariants of the scheduler |
| `CoroutineLive` | 2 coroutines, one of them with 2 to-be-closed variables, 1 context, depth 2 | `CloseReturns`, `CancelUnwinds` |
| `LuaChannel` | 1 host goroutine, 1 VM, an unbuffered channel and one of size 2, one send per goroutine | no send on a closed Go channel, exact WaitGroup; `AbstractChannel` is implemented; Close returns, close and cancellation release callers |
| `WeakTableSafety` | 2 objects on 2 addresses, 1 integer, modes k and v, 1 traversal | index, tombstones, reads and traversals |
| `WeakTableReclaim` | 2 objects with a field each, mode kv | what only the table names is reclaimed |
| `LuaTableStore` | 4 positive integer keys, a negative one and a string, 2 values, a constructor of at most 2 positional fields, room made for 3 | everything but traversals: the ordered keys are exact, an assignment changes its own key only, the length is a border where no sum has wrapped around |
| `LuaTableWalk` | 2 integer keys and a string, 1 value, 2 traversals | two traversals whose bodies assign, delete and add: nothing missed, repeated or refused |
| `LuaTableSkip` | a table of 4 keys | a disagreement between the code and its documentation, see 6 |
| `Unwind` | 2 variables, 3 errors, 4 frames, main program and coroutine, pcall, xpcall and callbacks | no variable is forgotten, closed twice or out of order; the catcher finds the VM as it left it; the last error is reported |
| `UnwindInner` | a close handler with 2 variables of its own, 1 pcall | a disagreement, see 6 |
| `Language` | 397 programs, three answers a host call may have, three calls | every program means its source, is rejected exactly when a rule is broken, keeps its registers, and ends |
| `Library` | a file of 3 characters behind buffers of 2; lists of up to 7 elements under three kinds of comparator; about 37,000 questions | `AbstractFile` is implemented; sorting, patterns, lists and packing answer as their closed forms |

Bounds: two coroutines give a resumer, a resumed one and one that closes or is closed, under a root
that is cancelled: the root VM is the third party. `MaxTbc` 1 lets a handler run while another VM
waits, and in `CoroutineLive` a handler follows a handler; `MaxCloseDepth` 2 meets both a nested close and the overflow; two contexts let the host
switch from one to the other while a family is nested. Channels: a buffer of 2 is full, half full and empty;
an unbuffered one meets; a host and a VM are a sender and a closer, or a sender and a receiver.
Weak tables: two objects are enough for one to take the other's address and for a key and a
value to die in either order; the integer key is one no collection removes, so that a
traversal has something to stand on. Tables: four integers are an array of the largest size
(`maxTableEntries` 4). A `maxInt` of 7 makes the sum of 3 and 6 or of 4 and 7 wrap around, so that
the search for the length looks at -3, which is a key, or at -2, which is none; no array of 4 comes near it. With thresholds of 2 (1 for the key index
in `LuaTableWalk`, where it must be built under a traversal) both indexes are built, used, kept and
dropped; a walk needs two integers (one that becomes covered, one that is covered already) and a key
that stays in the hash part. `NilFields` is FALSE in the passing runs: what a keyed field that is nil
does between two batches of a constructor is in section 6.
`Language`: the programs take every expression in four contexts (a temporary, a target that is an operand, a
condition, the last of a list), and every statement where the generator treats it differently: captured
variables in loops, jumps out of and back into scopes, open lists, tail calls, variables to be closed on
every way out, constants, and the forbidden neighbours of legal programs. `MaxRegs`
83 leaves some constructors 80 free registers and others fewer, so that both ways of storing their items are
taken; `StackSize` 44 is what the deepest call needs; a
host that is called more than `MaxAnswers` 3 times raises an error, so that loops over its answers end.
`Library`: buffers of 2 under a file of 3 are full, half full, refilled and bypassed;
`setvbuf` asks for 0 and for more than `MaxVBuf`. Lists of 7 take several partitions with both halves
postponed. Integers have 4 bits (`MaxInteger` 7), two bytes of two bits, so that lengths, positions and
packed values reach and wrap at both ends; a pattern may nest `MaxMatchCalls` 7 deep, just above what
the deepest pattern asked needs, so that a matcher whose depth grew with the subject would fail. The `VIEW` of `Library` drops
`result`, which no guard reads; the refinement is checked on every step as it is taken.
The compiler, the matcher and their meanings enter these two specifications as operator constants (`Load`,
`MeantBy`, `MatchAt`, `MeaningAt`), which the configurations set to `CompileText`, `SourceMeaning`, `LuaMatchAt` and
`MeantAt`: TLC's coverage statistics expand an operator at each of its uses, and these would not fit in memory.
`Unwind`: four frames (`MaxDepth`) are a protected call inside another one, with the close
handlers of both; in the handlers of a coroutine that is closed, which start on an empty call
stack, `ClosingDepth` 2 leaves one call; two variables are what an order needs, three errors
(`MaxErr`) are a body, its handler and the handler's handler, or a message handler that fails
until it is given up (`MaxTries` 1 stands for 200). The same holds with three variables and two
errors (7.1 million states). `InnerCloses` 1, `InnerAsked` 0, `InnerCaptures` and
`KillMidUnwind` FALSE keep out what section 6 lists: each of them, raised, breaks a property.
`CHECK_DEADLOCK FALSE` except in `Unwind` and `Language`, whose ends are a step of their own
(`Finished`): after VM.Close, or when every call has been made, the system stops. Coroutines, contexts,
keys, values and addresses are symmetric in the runs that have no temporal property.

Fairness. `Sched` and `Sweep` are weakly fair for each VM: Go runs a goroutine that can run.
`Unwind` is fair because polls sit at calls and loop back edges, and a VM that was
interrupted reaches one; `Timer` because timers fire. Nothing is fair about the Lua program:
it may loop for ever. `Collect` and `Sweep` of weak tables are fair because Go runs its
collector at least every two minutes and, for the sweep, on the assumption that some VM of
the process calls `collectgarbage()` now and then (nothing else sweeps). `Step` of the channels is fair: a goroutine Go has made ready goes on. In
`Language` a program that runs executes its next instruction; the host's answers end every loop. `LuaTable`, `Unwind` and `Library` have
no liveness property and assume no fairness: a program may abandon any loop.

`expired` remembers that a resume stopped waiting for a coroutine which did not reach a poll
within `coroutineStopGrace`. The comment at `coroutine.go:20-31` says that the guarantee ends
there, so the invariants about turns are stated under `~expired`; `VMOwnership`,
`CloseDepthBalanced` and `ParkedIsRegistered` hold without that excuse.

## 4. Proofs

Each theorem holds for every value of the constants that satisfies the assumptions named in the
modules (finite sets of coroutines, goroutines and keys, sizes that are naturals, lists of integers).
Every one goes the same way: an invariant that the initial states satisfy and every step keeps,
which TLC checked first on the instance of a run, and which implies the property.

* `CoroutineProofs`. `TypeCorrect`, one step per action. `DeadVMOwnership`: `VMOwnership` is
  inductive together with the types and with what is known of a VM that enters `pending`: it comes
  from `joindead` or from a select on `doneCh`; `doneCh` is never reset and `started` never raised
  again for a dead coroutine. `LifeCycle`: where a coroutine's goroutine is fixes its status, its
  mode, what its `doneCh` and its hooks are and whether the registry has it (`LifeInv`). From it
  `ParkedRegistered`, and with it `DepthBalanced`: `closeDepth` is the cardinality of the VMs between
  `EnterCloseChain` and `ExitCloseChain`, whatever was given up meanwhile.
  `TakeTurns` alone is not inductive: a step that passes the turn must know that
  the VM it passes it to is waited for by the one that passes it, and by no other. `TurnInv` says,
  until a wait has been given up (`expired`): at most one VM has the turn, and some VM can move; a
  coroutine is waited for by at most one VM, and only while it will answer; one that runs, or has an answer to
  give, is waited for (`Baton`); and what each channel,
  status and handler count can be where its coroutine is (`Shakes`). A step changes `Baton` in one of a few ways, each a lemma:
  the VM goes on, is answered, tells a coroutine to go on, stops, or steps aside. `TurnsTaken`, `HandshakesMet`
  and `ClosedIsDrained` follow, and so does `SomebodyMoves` until a
  wait has been given up. After that `TurnInv` is void: the VM that gave up goes on beside the
  coroutine, and any number may execute. What is left then is `LateInv`, until VM.Close is called: the VMs that
  wait for one another do so in an order (`Ranked`: somebody who is resumed or closed has to look
  suspended, and `Standing` says that one who does is not itself waiting), and a coroutine has at
  least as many answers to give, in its channels or by what it executes, as there are resumes that wait for it
  (`Numbered`, a count of VMs). If nobody had the turn, the least of those who wait would wait for
  a lesser one; that is `TurnNeverLost`, which is `SomebodyMoves`. The attempt to prove
  it refuted an earlier form of the property, which promised a turn during VM.Close, too: with four coroutines
  under four contexts and two expired waits (a trace of 89 steps, out of reach of the run's two
  coroutines) VM.Close waits for a coroutine, and it and the others for each other. VM.Close clears
  the registry (`coroutine.go:184`) through which a coroutine that wakes up marks itself as
  running; one that wakes up after that still looks suspended, and can be resumed again. VM.Close itself gives up when its grace is over; those coroutines stay.
* `LuaChannelProofs`: the inductive invariant is `Typed /\ Offered /\ SendersCounted /\
  CloseInOrder`: each goroutine's call is about the channel its `pc` needs, the WaitGroup is
  the cardinality of the goroutines in flight, and closing goes through closed, done, empty,
  ch closed in that order, by one goroutine. From it `NoSendOnClosed` (a channel is closed
  when the count is zero, and a count of zero leaves nobody in a send), `OneCloser`,
  `NoAddAfterClose`, and with `Queued` (the buffer is what has been accepted and not yet taken)
  the refinement of `AbstractChannel`, action by action.
* `WeakTableProofs`: the inductive invariant `IInv` says that the store's index and its alive
  entries are inverse to each other, that an entry's `indexKey` is the lookup key of its key,
  that no two objects in the heap share an address, and that an alive entry whose key is in
  the heap holds what was assigned last to that key or a value that no longer answers. The
  last part needs the collector: an entry may keep a dead key only as long as `keyRef` says
  so, and an object that takes the address over is told apart by that alone. `IndexIsExact`
  and `ReadsOwn` follow; the latter for tables without a host's own `LuaTable`
  (`Foreign = {}`), since those have no weak reference that could tell. `WInv` adds the count of
  tombstones and, for each traversal, where its key stands in the list and that what it still owes lies behind
  that place and inside the window; `DeadIsExact` and `TraversalsExact` follow.
* `UnwindProofs`. Whose message handler is set, and which error is reported, is decided by the Go stack, the
  handler and the error in flight alone, so the invariant is a predicate `Good(go, mh, panic)` of these three: which record may lie on which, that a
  handler which is set, put aside by a `pcall` or taken by a recovery is that of an `xpcall`
  further down with no `pcall` between, and which of `err`, `raw` and the error in flight agree at
  each stage of a recovery. A step pops, replaces or pushes at most four records, one lemma each, and
  `Good` holds in between. `StackIsGood`, `HandlersAreLive` and `ReportsTheLast` are proved
  under `~KillMidUnwind`, as in every run: a coroutine that is closed in the middle of the
  unwinding of its own error (section 6) leaves records on the model's stack whose fields name others by position.
  `FramesAreRestored` (under the same hypothesis) is the half of `StacksRestored` about `callStack` and `top`. Its invariant `Frames`
  says that the records have depths: how much of the call stack was there when the function got to run. The depths
  are not in the program, so they are a function that exists (`\E d`), extended by each push (`PutPlaced`). The call stack, and each of
  the two copies `callMsgHandler` has, keeps every Lua function's base at its depth (`Holds`); it ends exactly at
  the depth of the record on top where a Lua function runs, a recovery is past its cut or a loop goes on to
  its next handler, and may be longer while an error is in flight, in `body`, `running` or `asked` (`Framed`). Only `CloseAllTBC`
  never cuts it: its depth is 0, and the frames of its handlers lie on what earlier ones left.
* `LuaSortProofs`. The ranges the calls of `auxSort` have before them lie in the list, apart from each
  other; each is at most half of the one it was found in, which bounds the depth; the elements are in order
  except within those ranges (`OrderedBut`); and of the range in work the comparator has said what the partition
  needs (`Scanning`, `Compares`). The list keeps its elements because every assignment is an exchange. All but
  the order holds whatever the comparator says. `SortIsExact` is `SortExact`, for every list. An element is an
  integer, its rank in the order the comparator stands for (`ListsAssumption`).
* `LuaTableProofs`. What the operations keep is `Tidy(t, L)`, for a set `L` of
  live keys: no key has two slots, every key of `L` has one, `deadKeys` is the cardinality of the slots of other
  keys, the tombstone index lists exactly those, from its scan bound on, and the slot index names every
  slot. `L` is a parameter because the code stores a string before it finds its slot and any other key
  after: between the two calls the live keys are not yet, or already, those of the hash part. `Whole` adds
  that the table is of its type, that the array lies within its capacity, and that no integer lives in both parts.
  Each operation has a lemma that it keeps `Whole` and what it does to the contents: `Assigned` for `Table.Set`,
  `Listed` for `OP_SETLIST`, `Absorbed` for `EnsureArraySize`. The loops go by two lemmas of `LoopProofs`, `PassesRun` and `RunStays`: a run of
  passes exists, and what each pass keeps, or brings nearer, the run keeps or brings about. `LengthFound` is about
  the five ways the length is found: a binary search keeps its two ends apart, one in and one out, and that of the hash
  part does (`Closing`) until a sum wraps around, after which it has stopped (`Stopped`) at a position that holds a value and is negative
  or above a third of `maxInt`: the probe at most doubles, so no sum of its ends wraps before (`Apart`, `SumWraps`). `FirstAnswer` and
  `NextAnswer` say what `next` answers: no key outside the window, no refusal of a key that holds a value; and, while the
  window is all of the slice, the first of the keys ahead of the place it was asked from (`Ahead`), or the end when there is none.
  The invariant `IInv` is `Whole`, the types of the walks, that a constructor has its positional fields in the array and
  no traversal yet, that a fence is the window there is (`Window`), and for each traversal
  no key has been added under (`OnTrack`): what it owes is ahead of it, its place can be found, and what is ahead of it
  is owed, or it has strayed. `StorageTheorem`, `MapTheorem`, `BorderTheorem`, `FoundTheorem`, `TraversalTheorem` and
  `FenceTheorem` are the six properties of the two runs. Their hypothesis `~NilFields` is the condition of the runs: with
  keyed fields that may be nil the first of them is false (section 6). Keys, values, thresholds, `maxTableEntries`, `maxInt` and the
  number of traversals are any; `KeysAssumption` says that no string or object is an integer (`Set` normalises floats
  that are one), that every integer key is a Go int (from `-(maxInt + 1)` to `maxInt`), and that the positions of a constructor are among the integer keys.
* `LuaFileProofs`. `FilesImplementAbstract` maps every step to one of `AbstractFile` or to none. `Contents(w)` is what
  the file will hold once the writer is flushed, `Place(w)` where the program is in it. Writing is one relation, `Wrote(w, v, s)`:
  from `w` to `v` the string `s` has gone to the place, or to the end of a file that is appended to. Each way through
  `bufio.Writer` (it fits, it fills the buffer, it goes past it), each buffer mode and a list of strings is `Wrote`; that two of them in turn are
  one (`WroteBoth`) rests on `OverlaidTwice`, about holes and overlaps. Reading is the relation `Takes(w, v, n)`: `n` bytes have gone
  from what is ahead, and nothing else has changed. Taking bytes one at a time, looking ahead, reading past the buffer and reading to the end are
  each a `Takes`, by how far the descriptor moves in whole buffers (`WholeBuffers`); the formats are built
  from these and answer as `ReadOne` does (`Read1Is`), and the loop over them keeps the two sides in agreement (`ReadsIs`). The refinement alone is not inductive: where the
  descriptor is says where the program is only if the reader's buffer is the piece of the file that ends there, nothing is unwritten while it
  holds something, and nothing is unread while the writer does. This is `Inv`, which the rule of stdio
  (`turn`) keeps: `BuffersConsistent`. A handle may say that it is open after the file has been closed, by the loop that owned it,
  never the other way round. The modes, formats, strings, offsets and sizes of setvbuf are any; `BuffersHoldNumerals` says that
  a numeral's longest prefix fits the reader's buffer, as 200 does in 4096 bytes: with a smaller one `Peek` would
  stop short. `Char` is the set of bytes; `FileBytes` keeps the words that mark an answer out of it.
  `LoopsReadLines` says that an iterator made without formats reads a line.

What stays with TLC:

* liveness: the prover has no rule for fairness and no ENABLED;
* of `Unwind`, `PendingIsUnclosed`, `ClosedInOrder` and the half of `StacksRestored` about registers: they need what
  `InnerCloses`, `InnerAsked` and `InnerCaptures` exclude (section 6), and go through `SelectSeq`, a recursive definition
  about which the prover's library has no facts;
* the Language part and the rest of the Library: a parser, a code generator, a matcher and their meanings are
  recursive operators, which rule out proofs in `LuaSyntax`, `LuaPrinter`, `Parser`, `Compiler`, `Interpreter`,
  `LuaMeaning`, `LuaPattern`, `LuaString`, `LuaList`, `LuaPack`, `PatternMeaning`, `LibraryMeaning` and in
  `Library`, which uses them.

## 5. Not modelled, and why

* Instruction budget and limits: counters compared with a bound at each instruction or
  allocation. The bounds that decide behaviour are in the modules that hit them.
* Finalizers and `collectgarbage`: the queue is fed by callbacks of Go's collector, whose timing the
  weak tables and the file handles have for their own objects; the pump runs arbitrary handlers.
* Values and arithmetic, `math`, `bit32`: numeric code without state. The Language part has integers,
  strings and equality as far as its programs use them.
* Hooks and introspection: formatting over the call stack, without effect on it except for an error of a
  hook.
* The lexer: the Language part starts from tokens. Characters, numerals and escapes are left out.
* Lifecycle and providers: `VM.Close` is in `Coroutine`; the rest registers interfaces of the host.
* Base library, `load`, `package`: `pcall`, `xpcall` and `error` are in `Unwind`, `load` in
  `Interpreter` (`CompileText`), `next` and `pairs` in `LuaTable`; the rest checks arguments and
  calls the VM.
* Processes and `exec`, `os`, time, http, directives, `check`, glob and the command line: children,
  clocks and sockets of the operating system, or tools beside the interpreter.

Worth adding next: protected calls in `Interpreter`, which would join it with `Unwind`.

## 6. Findings

Each of these has a run in which TLC shows the behaviour (`PROJECT.json` quotes the lines):

* `LuaTableSkip`: a loop that clears what it visits resumes from the tombstone a former array
  index left in the ordered keys (`table.go:2086`), and skips the keys before it.
* `UnwindInner`: after a close handler has failed while an error is handled, `callCloseHandlers`
  closes the handler's own variables with `top` below their registers (`vm_upvalue.go:113`): the
  first handler called there overwrites the variable below, which is never closed.

Others the modules show when the named property is checked under the instance of a run
above. In `CoroutineSafety` and, for the temporal ones, with `FairSpec`:

* `DeadCanBeClosed`: a close handler that `coroutine.wrap` runs on a dead coroutine's VM and that
  resumes another coroutine leaves the dead one marked running (`coroutine.go:939`);
* `NoneLeftAfterClose`: a coroutine that a close handler creates during the sweep of `VM.Close`
  stays parked in a registry nobody sweeps (`coroutine.go:184`);
* `ExitIsNotCaught`: `os.exit` in a handler that `ClosePendingTBC` runs becomes an ordinary error
  (`vm.go:1206`);
* `TerminateUnwinds`: Terminate does not reach the coroutine the reaped one waits for;
* `AwaitedIsInterrupted`: a resume waits for a coroutine under another context,
  and so does a program whose close handlers run on such a coroutine's VM: `CancelUnwinds` speaks
  of families all of whose contexts are cancelled;
* `DeadVMHasOneOwner`: two closers of a dead VM on one stack.

In `WeakTableSafety` and `WeakTableReclaim`:

* `TraversalNeverFails`: `next` on a weak table refuses the key of a field the loop has just
  cleared, or that a sweep collected (`weak_store.go:254`);
* `ReadsLastAssignment`, mode k without traversals: an assignment under a new key is lost because a
  collected key had its address; with a non-empty `Foreign`, because a host's own `LuaTable` has no
  weak reference;
* `EventuallyReclaimed` in mode k (a value that refers to its own key keeps it: there are no
  ephemerons) and in mode v (the `indexKey` of a tombstone keeps a strong key).

In `LuaTableWalk`, `fence` is given up whenever another traversal starts or ends: without that
`FencedIn` fails, since a nested loop that finishes, and `dropAllDeadKeys`, clear the window of
the loop around them, which then visits the keys it adds. `finishTraversal`'s comment
(`table.go:2193-2195`) says that "the traversal that finishes first must not un-fence the ones
still walking"; it does when nothing has been added or deleted before it finishes.

In `LuaTableSkip` and `LuaTableStore`:

* `ConfinedToItsStart` in `LuaTableSkip`: a traversal that starts with no ordered keys opens a
  window of 0 slots, which reads as none (`table.go:2040`), so that the example of `table.go:2221-2226`
  does not end on `{1}`;
* `StorageExact` in `LuaTableStore` with `NilFields` TRUE and `MaxListed` 3: a constructor whose keyed fields
  shrink the array between two batches leaves a hash entry under an index the array covers
  (`vm_exec.go:2271`);
* `LengthAlwaysABorder` in `LuaTableStore` as it is: `(i + j) / 2` at `table.go:1870` wraps around once the probe
  is past a third of `maxInt`, and the search stops where it is, or at a negative key. The length of
  `{[2] = 1, [3] = 1, [6] = 1, ..., [3 << 61] = 1, [(3 << 61) + 1] = 1, 1}` is `3 << 61`, and TLC finds one that is -3,
  whereas the comment at `table.go:1777-1778` says that `Len` "returns a "border": an index n where t\[n\] is non-nil and
  t\[n+1\] is nil". `LengthIsABorder` is what remains true.

In `Unwind`, with one constant changed, and for the first and third `MaxVars` 3 and `MaxErr` 2:

* `PendingIsUnclosed` with `InnerAsked` 1: the message handler's frame takes the registers of even
  a single variable of the failed handler;
* `PendingIsUnclosed` with `KillMidUnwind` TRUE: a coroutine that is closed while a
  handler run by `callCloseHandlers` has yielded never runs the handlers still in that loop's list;
* `StacksRestored` with `InnerCaptures` TRUE: a captured local of the failed handler stays open
  above `top`, and the next frame shares its register;
* `XpcallReportsHandled` (`vm.go:644-647`, "the message handler is called AGAIN with the __close
  error, and that result replaces the original"): a callback of a library function uses up the
  handler, which then is not asked about a later error of a close handler.

Also noted while reading, and not in the model: a nested `xpcall` clears the handler of the one
around it (`globals.go:444`, `:492`), which is then only called by the fallback at `:468`, after
the close handlers; an error in a finalizer that runs inside `xpcall` uses up its handler
(`gc.go:173`).

In the Language part, a program the run leaves out because the code and its comment differ:
`isConstUpvalue` (`compiler.go:946-955`) goes through the enclosing functions without stopping
at a variable that is not constant, so that in

    local x <const> = f()
    local function P() local x = 1; local function g() x = 2 end end

the assignment is rejected, although the `x` it assigns to is not the constant (`compiler.go:945`).

In the io library:

* the iterators of `io.lines(name)` and `file:lines` (`io.go:542-629`, `:824-865`) do not keep the
  file's userdata reachable: a collection may close the file under the loop. The model's program keeps the
  handle while it loops;
* a numeral of exactly `maxNumLen` characters fails, where the comment claims the limit of the C
  implementation, which accepts it;
* `Close`, `Seek` and `SetVBuf` of `fullFile` drop the error of the flush they begin with (errors of
  the device are not modelled);
* `f:read(0)` on a file open for writing only answers nil instead of an error (the model has it so).

`table.concat` counts a separator behind the last element in its limit on the result (`LuaList` has it so).

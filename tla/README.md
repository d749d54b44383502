# Formal models of the programs of this repository

The repository holds the programs of a course on computer organisation: a cache
simulator in C (`cachesim/`), a linked queue in x86-64 assembly (`asmlab/`), a
program that converts text between UTF encodings, in C and in Rust (`recode/`),
a sheet of bit puzzles (`datalab/`), and the answers to a binary puzzle
(`bomblab/`). The programs share no code and no data. This directory models the
first four in TLA+, checks the models with TLC, and proves part of what is
checked with TLAPS, for every size.

Paths below are relative to the repository, so `cachesim.c:207` is line 207 of
`cachesim/cachesim.c`; "the README" is the repository's own.

Run a check with `tlc -config X.cfg M`, a proof with `tlapm M_proofs.tla`.
`PROJECT.json` lists the runs, the lines every definition stands for, the
hazards, the findings, and for each property of a passing run a fault in the
code that makes it fail. The faults are the operators of the modules whose
comment begins with "Fault:"; no specification uses them.

## 1. Inventory

### cachesim: the simulated cache

*State.* `cache_t`: `S` sets of `E` lines, each with tag, valid bit, dirty bit
and time of last use, and a clock that counts operations. `stats_t`: eight
counters.

*Operations.* `crear_cache`, `crear_stats`; `fetch_line`, which picks the line
an access works on (the hit, else the first invalid line, else the oldest);
`id_caso` (hit, clean miss, dirty miss); `cache_op`, which updates line, clock
and counters.

*What is hard.* Nothing is concurrent: the difficulty is in long sequences. A
stamp or a dirty bit wrong on one of six branches shows many operations later,
as a wrong eviction or a write-back counted twice. `fetch_line` decides three
things in one pass, with an early return and a sentinel, `MAX_TIME`.

*Correct when* a block is in one line at most, times of use are distinct and in
the past, lines fill in order, the summary adds up, and contents and counters
are what LRU with write-back says for the trace.

### cachesim: the program

*State.* The parsed arguments, the `cache_t`, the open file, what is allocated.

*Operations.* `main`: `parse_args`, `crear_cache`, `fopen`, a loop of
`getline`, `parse_trace`, `parse_address`, `cache_op` and, in range,
`print_verboso`; `print_stats`, `cache_destruir` and the other releases.

*What is hard.* Early returns that leave different things allocated; arithmetic
on `int` with sizes the user chooses; a struct filled only on one branch; a
verbose line whose fields are read before and after the access.

*Correct when* addresses name blocks consistently for every geometry, a verbose
line shows one coherent state, the whole range is shown, a bad command line is
rejected, and a success means a whole summary and nothing left allocated.

### asmlab: the linked queue

*State.* On the heap: a `struct cola` (head, tail) and a `struct nodo` (data,
next) per value.

*Operations.* `cola_crear`, `cola_esta_vacia`, `cola_ver_primero`,
`cola_encolar`, `cola_desencolar` (all in `cola_impl.S`), `cola_destruir`.

*What is hard.* Taking the last node leaves the tail dangling, so every other
operation must go by the head; blocks freed by one queue are handed to another;
`calloc` may fail.

*Correct when* no freed block is touched, every block belongs to one queue,
nothing leaks, each queue is first-in first-out whatever addresses are reused,
and `cola_destruir` ends.

### recode: the C program

*State.* `inbuf`, `codepoints` and `outbuf` on the stack of `main`; the number
of bytes left over from the last piece; the two encodings.

*Operations.* `main` reads a byte order mark, writes another, then reads,
decodes (`decode_input`, `read_codepoint`, `has_codepoint`), encodes
(`encode_output`, `write_codepoint`) and writes until `read()` returns 0.

*What is hard.* `read()` may cut the input at any byte; what is left over must
join the next piece; it may also fill the buffer and never be completed. The
limits of each encoding. `read()` and `write()` may do less than asked.

*Correct when* the output does not depend on how the input was cut, is complete
and is what the encodings' definition says; the three buffers suffice; the
program ends.

### recode: the Rust program

*State.* One buffer of 32 bytes, the two encodings, what is written so far.

*Operations.* `main` reads four bytes as a mark or fails, writes the mark asked
for, then reads, and for every piece converts one code point after the other
(`recode_encode`, `read_codepoint`, `write_codepoint`), each written as soon as
it is decoded; it leaves when nothing was read and nothing is left over.

*What is hard.* There is no `has_codepoint`: `read_codepoint` indexes the slice
it is given, which may be empty. The loop has two conditions to end.

*Correct when* it writes what the C program writes.

### datalab: bits.c

26 functions on one, two or three ints, without state: logic, arithmetic and
comparison made of bit operators, and floats taken apart as bit patterns. *What
is hard* are the ends: the least int, equal signs, shifts by 0, infinity, NaN,
denormalized floats. *Correct when* each equals its reference in `tests.c`.

### datalab: btest

*State.* The globals the options set, the entry of `test_set` being tested, the
lists of values made for its arguments, the score, and outside the program the
pending alarm and the saved jump.

*Operations.* `main` reads the options (`get_num_val` for `-1`, `-2`, `-3`),
`run_tests` goes over the table of `decl.c`, `test_function` makes values
(`gen_vals`), saves its frame (`sigsetjmp`), asks for a SIGALRM and compares
puzzle and reference on every combination; `timeout_handler` jumps back.

*What is hard.* The signal comes between any two steps, and the alarm is never
cancelled, so it may find another test, or no test, under way. Options in any
order share globals. Values fill arrays of fixed size.

*Correct when* each test counts once and the totals add up, a test runs under
its own alarm, the arguments used are the ones given, arrays are not overrun
and the program ends.

### The rest

* `datalab/fshow.c`, `ishow.c`: loops over the arguments around printing. How
  `fshow` takes a float apart is used in `BitsTests`; the rest is left out.
* `datalab/driver.pl` and its modules: a grading script around a compiler, an
  operator counter kept as a binary, and a server. Not modelled.
* `asmlab/pruebas_*.c`, `acutest.h`, `recode/test_recode.sh`: tests.
* `bomblab/`: two text files about a binary that is not here.

## 2. Plan

The order goes by how much depends on long or interleaved behaviour. Steps 1 to
7 are done.

1. **Cache**: `CacheLine` and `CacheOp` (lines, counters, the step), `Cache`
   (any trace), `LRU` (the abstract specification, and the refinement),
   `CacheHistory` (contents and counters as functions of the trace),
   `FetchLoop` (the scan as a loop). Proofs: every safety invariant of `Cache`
   and of `CacheHistory`, the loop, and the refinement of `LRU`.
2. **Program of the simulator**: `Cachesim` around `CacheOp`. Proofs: all its
   properties.
3. **Queue**: `Cola` on a heap, `ColaList` with the list each queue should be,
   `Fifo` (the abstract specification, and the refinement). Proofs: ownership,
   linking, memory safety, and the refinement of `Fifo`.
4. **recode in C**: `Codec`, `Recode`, `RecodeText` with `Unicode` as the
   reference. Proofs: the buffers suffice, the pieces do not show, a text comes
   out as it should.
5. **bits.c**: `Word` and `Bits`, the references in `BitsTests`. Proofs: the
   puzzles equal their references for words of any width.
6. **btest**: the table `Decl`, the values `GenVals`, the program `Btest`.
   Proofs: its own alarm, the arguments taken, the first test, the values fit,
   the totals add up.
7. **recode in Rust**: `RecodeRust`, and `RecodeBoth` next to the C program.
   Proofs: the same as of the C one, and that both convert alike.
8. **What could follow**: the queue's calling convention (registers and the
   alignment of the stack at every `call`) as a machine whose whole calls are
   `Cola`'s actions; the puzzles on floats and the two that compare numbers,
   whose references are sums over bits.

## 3. Modules

Which lines of the code each definition stands for is in `PROJECT.json`, "map".

### Cache

| module | what it is |
|---|---|
| `CacheLine` | The data of `cachesim.h` and the functions on it. `FetchLine` is the result of `fetch_line`, `IdCaso` of `id_caso`; `Updated` and `Charged` are what the branches of `cache_op` do to the line and to the counters. |
| `CacheOp` | The variables `sets`, `time`, `stats` and the step `DoCacheOp`: all of `cache_op` but the verbose line. |
| `Cache` | A cache of fixed geometry running any trace of up to `MaxOps` operations: `Access(op, i, tag)`. The invariants. |
| `CacheHistory` | `Cache` with the `trace` so far; `Cached`, `Modified`, `MissesAt` and `WriteBacksAt` are the definition of LRU with write-back on a trace, without lines or clocks. |
| `LRU` | The abstract cache: which blocks each set holds, which are dirty, the order of their uses. Actions `Hit`, `Load`, `Evict`. |
| `FetchLoop` | `fetch_line` one iteration at a time, with its three running candidates. |
| `Cachesim` | `main` from `argv` to `exit`, over `CacheOp`. Every call of `main` that can fail is an action; one line of the trace is one action, `Simulate`. |
| `CachesimDocs` | What the README says of the program and it does not do. |

`Cache` and `Cachesim` are two users of one step, `CacheOp!DoCacheOp`: the
first fixes the geometry and asks about long traces, the second takes the
geometry from the command line and asks about the program around. `FetchLoop`
justifies that `CacheOp` uses `FetchLine` as one operator.

A set is a function from line numbers to lines; `line_t.idx`, equal to the
position, is left out. A line never used has the tag `UINT_MAX`, which is what
assigning -1 to the unsigned field gives. `Cachesim` has `int` with its width,
`INT_BITS`: products wrap as the machine leaves them, division truncates
towards zero, a division by zero ends the process. What `atoi` and `sscanf`
make of a text is an input, not a model.

### Queue

| module | what it is |
|---|---|
| `Cola` | The heap as blocks of two words, which is what both structs are (`cola_asm.h`), and the six operations of `cola_impl.S`. `calloc` returns any block not in use, zeroed, or NULL; a block freed keeps its words, as the C library may leave them. A call is one action; `cola_destruir` takes a step per block (`Destruir`, `DestruirNodo`, `DestruirCola`). A load or store through NULL or through a freed block ends the run with a `fault`. |
| `ColaList` | `Cola` with a history variable, the list of nodes each queue should consist of. The invariants and the refinement mapping. |
| `Fifo` | The abstract queues: sequences of values, with the return value of every call. |

The client calls the operations on queues it created and has not destroyed, as
`cola.h` requires, and is one thread.

### recode

| module | what it is |
|---|---|
| `Codec` | `recode57_alu.c` and `BOM_SIZES` as operators on sequences of bytes. `ReadCodepoint` returns how many bytes were consumed and the code point; a code point is an integer, since a wrong surrogate pair makes the subtractions negative before they are cut into bytes. |
| `Recode` | `main`. The reads are actions (`ReadBom`, `ReadSome`, `ReadEnd`, `ReadFails`, and `ReadBomShort` for a mark read in part); so are one round of each loop (`Decode`, `DecodeEnd`, `Encode`) and the write (`WriteAll`, `WriteShort`). `inbuf` holds the bytes still to be decoded, so its length is `prevbytes` or `*nbytes` of the code. |
| `Unicode` | The five encodings by their definition: base-64 digits, surrogate pairs, byte orders. It is not a translation of the code. |
| `RecodeText` | `Recode` with the text its input was made from, and the properties of the output. |
| `RecodeRust` | `main.rs`. A read (`ReadBom`, `ReadSome`, `ReadNothing`, and the failing ones) is an action, and so is one round of `recode_encode` (`Recode`, `RecodeEnd`, `RecodePanics`, `WriteFails`). Its conversions are `Codec`'s, which they copy branch by branch, but for the missing `has_codepoint`. |
| `RecodeBoth` | A run of either program on the same file with the same argument; what the Rust one has to do with the C one. |

`DecodeEnd` is where `read_codepoint` returns 0 and still stores a 0 in
`destbuf[n]`. With `NBUF` code points that is outside the array; the step then
either changes nothing that matters or clears the first four bytes of `outbuf`,
which is where a build by the Makefile (gcc -O2) puts them. The ghost variable
`intact` becomes FALSE when a byte was made up (a short read of the mark),
overwritten (this store) or refused (a short write): of the output after that
nothing is claimed.

### datalab

| module | what it is |
|---|---|
| `Word` | Words as sets of bits, of a width `W` of four bytes of `BYTE` bits, and the operators of C on them. Sums wrap, `>>` keeps the sign, a shift count is taken modulo the width: what the build for x86 does. |
| `Bits` | The puzzles, expression by expression. A float has `EX` exponent and `FR` fraction bits. |
| `BitsTests` | The references of `tests.c`. Those that compute with the machine's floats are stated on mantissa and exponent as `fshow.c` takes them apart. |
| `Decl` | The table of `decl.c`: name, number of arguments, rating and ranges of each puzzle; `Same` is puzzle against reference. |
| `GenVals` | `gen_vals`: the values tried for an argument. |
| `Btest` | `btest.c` from the command line to the total. An option, a selected test, the values of an argument, `sigsetjmp`, `alarm`, each value of the first argument and the score are a step each; the signal is an action of its own. |

A command line is a sequence of options as `getopt_long` returns them; what
`strtof` and `strtoll` read in a text is an input. The random weights of
`gen_vals`, one a round, are a nondeterministic choice from `Weights`. The inner loops over
the second and third argument belong to the step of the first: the puzzles have
no state, so nothing can be seen between two of their calls but a signal, which
the steps around admit.

A signal that arrives while the frame `sigsetjmp` saved is there is `Timeout`.
When that frame has returned (`StrayTimeout`) C gives the jump no meaning; the
stack of the build still holds a frame of `test_function` in the same place, and
the model takes both outcomes: the process dies, or the last call of
`test_function` returns 1 once more. The ghost `wild` remembers it, and the
score is claimed only while it is FALSE.

## 4. Runs

| run | module | what it asks | bounds |
|---|---|---|---|
| `cache` | `MCCache` | The invariants of `Cache`; contents and counters are those of LRU on the trace; every step is a step of `LRU`. | 2 sets of 2 lines, 3 blocks a set, traces of 5 operations |
| `fetch_loop` | `MCFetchLoop` | The scan keeps its invariant, returns what `FetchLine` names, and returns. | sets of 3 lines, 2 tags, times 0 to 2 with `MAX_TIME` 2 |
| `cachesim` | `MCCachesim` | Addresses name blocks; verbose lines are coherent and complete; success means a whole summary and no leak. | 5-bit ints, 34 command lines (19 of them wrong in some way), 4 addresses, 3 lines of trace |
| `cola` | `MCColaList` | Ownership, linking, no use after free, implements `Fifo`, `cola_destruir` ends. | 4 blocks, values `v1` and NULL |
| `recode` | `MCRecodeBoth` | Of both programs: pieces do not show in the output, it is right, buffers suffice. The C one's is complete and it ends; the Rust one's is a beginning of it, with the rest still unconverted, both convert alike, and it ends unless stuck. | buffer of 8, see below |
| `btest` | `MCBtest` | Puzzles equal references; values fit; the score adds up; a test has its own alarm and its own arguments; the program ends. | words of 16 bits, 3706 command lines, 2 signals |
| `docs_victim` | `MCCache` | finding 1 below | `MAX_TIME` 2, one set |
| `docs_quiet`, `docs_bad_arguments` | `MCCachesimDocs` | findings 2, 3 | as `cachesim` |
| `docs_encolar` | `MCColaList` | finding 4 | as `cola` |
| `docs_destbuf` | `MCRecode` | finding 5 | as `recode` |
| `docs_rust_whole` | `MCRecodeBoth` | finding 6 | as `recode` |

Why the bounds are enough:

* *Cache.* Two lines and three blocks give hits, loads and evictions of clean
  and dirty blocks in each set, and a block can come back after its eviction.
  Five operations are the fewest that fill a set, dirty it, evict, and evict
  again with the other set in between. Sets do not interact except through the
  clock and the counters, for which two are enough. Any number of lines, sets,
  tags and operations is the matter of the proofs.
* *FetchLoop.* Three lines allow a candidate before and after the one chosen,
  and every set of them is an initial state, times at or above `MAX_TIME` and
  equal times included.
* *Cachesim.* With 5 bits an `int` ends at 15, so that `E * S` overflows and
  blocks of 0 bytes occur at sizes TLC can build. The geometries include one
  set, one line, blocks of one byte, and all three at once; the addresses
  include both ends of memory. Three operations are enough for a range to
  begin after the first and end before the last. No command line gives INT_MIN
  for `C`, `E` or `S` (`NoIntMin`): see section 6.
* *Queue.* Four blocks allow one queue of three nodes, two queues of one node,
  or four empty queues, and every address to be a queue, a node and free in
  turn. NULL is among the values since the code uses NULL as "nothing".
* *recode.* The buffer has 8 elements instead of 32: the shortest input that
  fills it, cuts a code point at its end and goes on is then 9 bytes. Texts are
  of two or three code points with a character on each side of every limit of
  an encoding (7F/80, 7FF/800, FFFF/10000, D7FF, E000, 3FFFF/40000, 10FFFF), and
  one of nine letters that fills `codepoints`; all of them in the five
  encodings, to the five encodings, with every way to cut them. Inputs that are
  no text: a byte no sequence begins with, a sequence cut short at the end,
  half a pair, a pair the wrong way round, a code point above the last one,
  files of 0, 2 and 4 bytes. `Garbage` is {0}: of runs after a short read of
  the mark only the bounds are claimed. `WriteShort` happens once in a run.
  The two programs run on the same inputs, one in each behaviour.
* *btest.* 16 bits are the fewest for which a byte has an even number of bits
  and the digits up to 39 hexadecimal are positive words; floats have 5 exponent
  and 10 fraction bits, enough for every int to have its exponent and for
  denormalized powers to exist outside the values btest makes. `TEST_RANGE` is
  8 instead of 500000, which leaves small ranges that are tried whole and large
  ones that are sampled. The command lines are the whole table with and without
  a limit and with `-g` and `-r`; every way of `get_num_val`; and each puzzle
  alone with fixed arguments from the ends of the ints, every power of two, and
  the corners of the floats. Two signals allow one left over from each of two
  tests, or one of a test and one stray.

Counters are unbounded integers in the models. In the program the cycle
counters overflow an `int` after some 10.6 million dirty misses.

Deadlock is checked in `btest`, whose ends are named steps; elsewhere it is not:
a trace ends, a program exits, a faulted process stops.

### What the properties say

* `Cache`: `UniqueTags` (a block is in one line), `UniqueTimes` (the order of
  use is total and past), `FilledInOrder`, `Accounting` (the identities of the
  summary), `BlocksConserved` (every block held or written back came in by a
  miss, every dirty one by a store), `ImplementsLRU`.
* `CacheHistory`: `ContentsFollowTrace` (a block is present, and dirty, exactly
  when the trace says), `StatisticsFollowTrace` (the miss counters are the
  misses of the trace).
* `FetchLoop`: `LoopInv`, `Correct`, `Returns`.
* `Cachesim`: `BlocksHaveOneName`, `VerboseConsistent` (case, tag, bits and time
  of a verbose line agree with each other), `VerboseComplete`, `SummaryCovers`.
* `ColaList`: `HeapOwned`, `Linked`, `NoUseAfterFree`, `ImplementsFifo`,
  `DestruirTermina`.
* `RecodeText`: `ChunksDoNotShow` (at every point, what was written, what waits
  in each buffer and what is still to be read add up to the conversion of the
  whole file), `OutputComplete`, `OutputFaithful` (the output is the text in the
  encoding asked for, by the definition of both), `CTerminates`; and in `TypeOK`
  the sizes of the three buffers.
* `RecodeBoth`: `RustChunksDoNotShow` says of the Rust program what
  `ChunksDoNotShow` says of the C one, with the bound of its buffer. The program
  may panic in the middle of a file (finding 6), so the other two do not say
  that the output is whole, but that it is right as far as it goes and that
  nothing is missing besides: `RustOutputFaithful` (what it has written is a
  beginning of the text in the encoding asked for, and what is in its buffer and
  in its input is exactly the rest), `SameOutput` (on any bytes, what it has
  written and what the functions of the C one make of the bytes it still has add
  up to the conversion of the whole file by the C one, unless the last unit of
  UTF-16 is one the C one drops). Both hold at every step, at a panic and at the
  end, where a text leaves nothing over. `RustEndsUnlessStuck` (the only endless
  loop is the one with bytes left that no code point begins with, or that end
  too early).
* `Btest`: `OnlyDenormalPowersFail` (a puzzle differs from its reference only
  outside the range its comment allows, or where `floatPower2` should give a
  denormalized float), `WithinArrays` (for the ranges `decl.c` has, see
  `RangesAssumption`), `ScoreAddsUp` (every selected test
  counted once; all points exactly when nothing failed; with `-g` a row each,
  which is what `driver.pl` reads), `RunsUnderOwnAlarm` (pending alarm and saved
  frame are those of the running test), `ArgumentsTaken` (the last value given
  for each argument is the one used, and a refusal has one of three reasons, a
  repeated option among them), `FirstTestFair` (no signal hits a test before
  some test has run), `Terminates`. That a test after the first may fail by the
  alarm of an earlier one contradicts none of these: it is in section 6.

### Fairness

* `FetchLoop`: `WF(Next)`. One thread runs the loop and nothing else.
* `Cola`: `WF` of the two steps of `cola_destruir` under way. A call that began
  goes on; no fairness is asked of the client, who may stop calling.
* `Recode`: `WF(Next)`. One thread, and `read()` and `write()` return, which
  holds for files and for a reader that takes the output. The choice of how
  much they transfer is left free.
* `RecodeBoth`: the same for each of the two programs.
* `Btest`: `Progress`, that infinitely often the program is at its end or takes
  a step of its own. It is weak fairness of `Step` with ENABLED written out:
  the deadlock check shows that nothing blocks, and outside the final states
  some step of the program is always possible. One thread runs it; signals are
  not fair, they may or may not come.
* `Cache` and `Cachesim` have no liveness property and no fairness.

## 5. Proofs

| module | theorem | what it says |
|---|---|---|
| `Cache_proofs` | `TypeCorrect`, `NoDuplicates`, `DistinctTimes`, `FillOrder`, `SummaryAddsUp` | the invariants of the run `cache`, for every geometry, set of tags and length |
| | `Conservation` | `BlocksConserved`, likewise |
| | `EvictsLeastRecent` | `VictimIsLeastRecent`, as long as `MaxOps <= MAX_TIME` |
| | `Refinement` | every behaviour of `Cache` is one of `LRU`, likewise |
| | `ContentsAreTheTrace`, `StatisticsAreTheTrace` | the properties of `CacheHistory`, likewise: contents and counters are a function of the trace |
| `Cachesim_proofs` | `TypeCorrect`, `OneNamePerBlock`, `VerboseLinesConsistent`, `SummaryIsWhole`, `RangeIsShown` | the five properties of the run `cachesim`, for every width of `int`, command line, set of addresses and length of trace |
| `ColaList_proofs` | `TypeCorrect`, `NoLeak`, `WellLinked`, `MemorySafe` | the safety invariants of the run `cola`, for every set of addresses and values |
| | `Refinement` | every behaviour of the queues on the heap is one of `Fifo`, likewise |
| `FetchLoop_proofs` | `TypeCorrect`, `LoopInvariant`, `ComputesFetchLine` | the loop of `fetch_line` computes `FetchLine`, for sets of any number of lines |
| `Bits_proofs` | `allOddBitsCorrect`, `byteSwapCorrect`, `isGreaterCorrect`, ... | sixteen puzzles equal their references, for words of every width |
| `Btest_proofs` | `TypeCorrect`, `OwnAlarm`, `ArgumentsAsGiven`, `FirstTestIsFair` | those properties of the run `btest`, for every command line, width, limit and number of signals |
| | `ValuesFit` | `WithinArrays`, for every `TEST_RANGE`, width, size of float and weights drawn |
| | `TotalsAddUp` | `ScoreAddsUp`, for every command line and number of signals |
| `Recode_proofs` | `BuffersSuffice` | what goes into `inbuf`, `codepoints` and `outbuf` fits, for every `NBUF > MAXBOM`, input and way to cut it |
| | `PiecesDoNotShow`, `AllIsWritten` | `ChunksDoNotShow` and `OutputComplete`, likewise |
| | `TextIsConverted` | `OutputFaithful`: a text of any length, from any encoding to any, comes out as the definition of the encodings says |
| | `RustPiecesDoNotShow` | `RustChunksDoNotShow`, likewise |
| | `RustTextIsConverted` | `RustOutputFaithful`: of a text of any length the Rust program has written a beginning and holds exactly the rest, at every step, a panic in mid-file included |
| | `ConvertedAlike` | `SameOutput`: neither program converts any bytes differently, but for a last unit above E000 |

`CacheLine_proofs` holds the lemmas on `fetch_line` and `cache_op` that the two
users of `CacheOp` and the loop share.

Assumptions are those of the modules (`CacheLineAssumption`, `CacheAssumption`,
`CachesimAssumption`, `ColaAssumption`, `RecodeAssumption`, `SourcesAssumption`,
`WordAssumption`, `BtestAssumption`): the types of the constants, at least one
line and one set, NULL not an address, marks of four bytes, words of four bytes
of an even number of bits, and that an input said to be made from a text is that
text's file. `PowersOfTwo` and `UnicodePowers` are facts of arithmetic, true of
every value of the constants, that the provers do not know. `RangesAssumption`
says that no range of `decl.c` spans exactly `MAX_TEST_VALS`; those of the code
span 0, 3, 31, 255, 2^32 - 2 and 2^32 - 1, and `MAX_TEST_VALS` is 6500000. Every
one is evaluated by TLC in a passing run. Four theorems of the cache,
`EvictsLeastRecent` and the three after it in the table, have a hypothesis
besides, `MaxOps <= MAX_TIME`: finding 1 is what happens without it.

*Cache.* The inductive invariant is `IInv == TypeOK /\ UniqueTags /\ UniqueTimes
/\ FilledInOrder /\ Accounting`. `AccessShape` says what an access does to the
sets, from the four cases of `FetchLine` (`FetchLineCases`): the line chosen
exists, and is the hit, else the first free one. Distinct times need `time` to
be above all of them, which is why the clock is part of `UniqueTimes`.
`Conservation` is an induction of its own on top of it, by what a case does to
the sets of valid and of dirty lines and their cardinalities. In `Refinement`
the three cases of `id_caso` map to `Hit`, `Load` and `Evict`; that the victim
precedes all the others in the abstract order is `EvictsLeastRecent`, and there
the hypothesis on `MAX_TIME` is used: without it the statement is false
(finding 1).

*The trace.* The invariant `HInv` of `CacheHistory` adds to `IInv` that every
line of a set carries the last use of its tag in the trace, and every valid tag
not resident was last used before all those that are (`Memory`), and that a tag
is dirty when the trace stored to it since it came in (`DirtyInv`). LRU by the
trace counts the other blocks used since; with the lines ordered by distinct
times that count is a cardinality of lines, below `E` exactly for those
resident. What the definitions say of an older prefix of the trace does not
change when it grows (`TraceGrows` and the lemmas after it).

*The program around it.* `IInv == Stages /\ Counters /\ Contents /\
VerboseConsistent /\ SummaryCovers`. `Stages` is what each early return of
`main` leaves allocated and which copy of the arguments is defined; `Contents`
carries the geometry, the lines and the conservation of blocks through the
sizes `crear_cache` accepts. It is needed because `SummaryCovers` speaks of the
end only: the eight counters and the blocks held must add up at every operation
before. `BlocksHaveOneName` is arithmetic: shifting by the logarithms of `B` and
`S` is dividing by them, and quotient and remainder name a number.

*Queue.* `IInv == TypeOK /\ HeapOwned /\ Linked /\ NoUseAfterFree`. None of the
four is inductive alone: a pointer is followed safely because the list says
which block it leads to (`Linked`) and that block is in use by that queue and by
no other (`HeapOwned`). There is a lemma per operation; `RemoveFirst` is shared
by `cola_desencolar` and by the loop of `cola_destruir`. The refinement reads a
queue as the values of the nodes of its list (`Data`); an operation leaves every
other queue's values as they are because nodes are never shared and never
queues (`OthersKept`), and appends to its own, or takes its head, by the shape
of the list. Releasing the nodes of a queue is a stutter of `Fifo`.

*fetch_line.* The invariant of the scan names the first invalid line and the
line of least time among those passed; that a nonempty set of numbers has a
least one comes from the well-foundedness of `<`. Returning early at a hit is
where `FetchLine` needs no more than what was passed.

*recode, the buffers.* `IInv == TypeOK /\ Filled`. `Filled` bounds what the
buffers hold together at each statement: what was decoded plus what waits to be
is at most `NBUF`, so that the code points fit; and each code point to come
needs at most four bytes of the room left in `outbuf`. It rests on `ReadBounds`
(a code point consumes between one byte and what there is) and `WriteBounds`
(and produces at most four bytes), by cases on the encodings.

*recode, the pieces.* `TextInv` adds to `IInv` that the input is the source
(`Origin`), that what is written and what waits add up to the conversion of the
whole (`AddsUp`), and what may wait between two reads (`Waiting`): nothing that
could be converted, but before the first. `AddsUp` is inductive because
conversion does not look beyond the code point it takes (`ReadCodepoint` of a
piece that yields one yields the same whatever follows); `OutputComplete` needs
`Waiting`, since at the end the conversion of what is left must be empty. The
Rust program has an invariant of the same form, `RustInv`, and `BInv` is both.

*recode, the texts.* `TextIsConverted` is two lemmas on every character and one
induction. Decoding the form of a character in an encoding gives the character
back, with whatever follows it, and writing a character gives its form; each is
arithmetic on digits in base 64, 256 or 1024, one lemma per encoding and
length.

`RustTextIsConverted` has an invariant of its own, `RustSplit`, since the program
may stop anywhere: `SplitAtMark` puts the cut between written and left at the
beginning of the text, and `SplitAtRecode` moves it by one character for each
round of `recode_encode`, which decodes the first character of the rest whatever
follows it (`BeginAndRest`). The other steps move no byte past the cut
(`RustSteps`).

`ConvertedAlike` has the invariant `SameEnd`: a round takes off the bytes left
what the C functions would, and writes the same for it; where the Rust round
decodes and `has_codepoint` would refuse, the bytes left are the last unit of
the exception (`SameEndOfMark`). The proof showed that the exception first
written, a last unit above E000, was too small: an odd byte may come after it,
and `LastUnitDropped` now says so.

*Induction.* `Convert`, `EncodeAll`, `Encoded` and `RustConvert` are recursive
functions on sequences. The library's induction theorems take an operator and
cannot be applied; `SizeInduction` and `LengthInduction` say the same of a set
(every number or sequence is in it), and `UnfoldingExists` builds the function
that satisfies the recursive equation, from approximations of bounded length,
so that each function is its own unfolding. `UpTo` and `StepsExist` of
`Btest_proofs` do so on an interval, for `FlattenSeq` and `PartialSums`.

*bits.c.* Words are sets of bits, so logic is set algebra, a shift is arithmetic
on the elements, and a sum is its carries: `Carry(x, y)` holds the positions
above a generated and propagated carry. `-x` keeps the lowest bit of `x` and
flips those above it, which needs the least element of a word (`SignOfEither`,
for `bang`, `isNonZero`); `isGreater` follows the highest bit where two words of
one sign differ.

*btest.* `IInv` adds to the three properties what `Pending` says: no alarm before
the first test; between tests only the alarm of a test gone over, the last one
at `i - 1` being a selected one; at `alarm()` the frame saved is the running
test's; and, in `Reading`, that the options hold what has been read of the
command line so far. A signal at any step takes the program to a state where
this still holds, also the stray one that goes back to the test before.

*btest, the values.* `IInv` keeps every list tried one that `gen_vals` makes of
a range of the table, or a value given (`Made`). A list of `n` pieces of at most
`m` values has at most `m * n` (`FlattenLength`): 12 a round and 4 special ones
for a float, where `TEST_RANGE >= 4` is needed; 5 a round for a sampled range;
and all of a range tried whole, where `max - MAX_TEST_VALS <= min` lets in one
value too many if the two are equal: hence `RangesAssumption`.

*btest, the totals.* `ScoreAddsUp` alone is not inductive: that the points stay
below the maximum after an error needs points never above it and ratings above
0, which is why `Tally` adds that `-r` leaves no negative rating behind but at
the end by `usage`. The tests `StartTest` passes over add 0 to the sum
(`PartialSumsFlat`) and nothing to the tests gone over; the one scored is a
selected one, by `Pending`.

*Only model-checked.* Of `Btest`, `OnlyDenormalPowersFail`: it is the table's 26
puzzles on the values made, of which sixteen have their own theorem; those on
floats, `fitsBits`, `addOK` and `isAsciiDigit` have numbers, sums over bits, for
references. The liveness properties `Returns`, `DestruirTermina`, `CTerminates`,
`RustEndsUnlessStuck` and `Terminates`, with those of `RecodeText` and
`RecodeRust` they rest on, need ENABLED.

## 6. Differences

### Found by a run

Each is the counterexample of a run that checks what a document or comment of
the repository says.

1. *`docs_victim`.* `fetch_line` looks for the least time starting from
   `MAX_TIME` = 999999 (`cachesim.c:222`). Once all the lines of a full set were
   last used at that operation or later, line 0 is evicted whichever it is.
   The README, line 273, says the least recently used one.
2. *`docs_quiet`.* Without `-v`, `n` and `m` are never set (`cachesim.c:54`),
   and are copied and tested all the same: lines may be shown.
3. *`docs_bad_arguments`.* Of the README's list of errors (lines 178 to 184),
   `C < E * S` is simulated with blocks of 0 bytes, `E * S` overflowing to 0
   ends the process with SIGFPE, and `n` and `m` are not compared.
4. *`docs_encolar`.* `cola_encolar` stores the value through the pointer
   `calloc` returned (`cola_impl.S:44`) before it tests it for NULL (line 56);
   `cola.h:18` says it returns false.
5. *`docs_destbuf`.* With `NBUF` ASCII bytes in `inbuf`, the last call of
   `read_codepoint` stores a 0 one element past `codepoints` (`recode57.c:55`,
   `recode57_alu.c:192`); the comment on `decode_input` says `nbytes` elements
   are enough. Built by the Makefile, a text of 32 ASCII bytes or more loses the
   byte order mark of its output.
6. *`docs_rust_whole`.* `read_codepoint` of the Rust program indexes the slice
   it is given without looking whether it is empty (`recode57_alu.rs:94`, `110`,
   `126`), so in UTF-8 and UTF-16 the program panics whenever a piece read ends
   where a code point does. At the end of a text nothing is lost by it; in the
   middle the rest is: of any ASCII file longer than the buffer of 32 bytes only
   the first pieces come out. The README in `src/`, lines 53 and 61, presents
   one utility in C and in Rust that reads its input, converts it and prints the
   result. `test_recode.sh` does not see it: its inputs are short, the program
   is in a pipe and its errors go to `/dev/null`.

### Seen while modelling

These have no run of their own. The models take these steps; the properties
that would be false of them say so in their statement.

* `cachesim`: the range of `-v` is tested after the clock moved, with `m`
  corrected and `n` not (`cachesim.c:207`), so operation `n - 1` is shown too,
  though the README, line 168, calls the range inclusive. `all_power2` lets
  INT_MIN through (line 94: its `x - 1` overflows, to INT_MAX in the build);
  with it for `E` or `S` the sizes given to `malloc` are those of a negative
  number, for `C` the blocks have a negative size. The model takes it for a
  power of two as well and no command line gives it (`NoIntMin`). The tag
  0xffffffff, possible when `S * B` is 1, is shown as -1
  (`cachesim.c:148` copies it into an `int`), which the README reserves for "no
  data". `bytes read` and `bytes written` are `int` products that may overflow
  (line 315): `SummaryCovers` asks only when they fit. Errors are printed to
  standard output, the README (line 178) says standard error. An empty trace
  divides 0 by 0 for the miss rate (line 314). With `m` = INT_MAX the test of
  the range overflows; the -O2 build compares as if it did not, and so does the
  model. No `malloc` is tested; running out of memory there is not modelled.
* `recode`, UTF-8: `write_codepoint` shifts by 24 where 18 is meant
  (`recode57_alu.c:277`), so code points from 40000 hexadecimal up come out
  wrong. Bytes from F8 up, which begin no sequence, stop the decoding for good:
  the buffer fills, `read()` is asked for 0 bytes, and the program ends without
  the rest.
* `recode`, UTF-16: E000 is taken for a surrogate (`recode57_alu.c:146`). A last
  character from E001 to FFFF is dropped, because `has_codepoint` accepts two
  bytes only below D800 (line 85). A UTF-16LE mark before a 0 is the mark of
  UTF-32LE.
* `recode`: `write_codepoint` returns 0 above 10FFFF, where `recode57.h:90` says
  between 1 and 4. Files of four bytes or less are read whole as a mark: nothing
  is written, not even the mark of the output. The results of `read()` of the
  mark and of `write()` are not tested (`recode57.c:122`, `153`). The `memcpy`
  of line 157 may overlap, which the library's copies of up to 32 bytes allow.
* `recode` in Rust: the same shift (`recode57_alu.rs:220`). With an
  incomplete code point at the end of the input, or with bytes that fill the
  buffer and begin no code point, the loop never ends (`main.rs:50-67`). It
  reads a last unit of UTF-16 from E001 to FFFF and converts files of four
  bytes, which the C program does not.
* `bits.c`: `floatPower2` returns 0 for every x up to -127, though its comment
  (line 530) asks for 0 only if the result is "too small to be represented as a
  denorm": the powers from -149 to -127 are denormalized floats. btest does not
  notice, since none of the values it makes for this puzzle is such a power;
  with `-1 -130` it does.
* `btest.c`: the alarm of a test that ends in time is never cancelled (line
  357). It may go off while a later test makes its values, and then that test is
  never run, or none is. `get_num_val` tests the value, `*valp`, where the
  place, `valp`, seems meant (line 496): an option repeated after a value other
  than 0 is refused, and 0 may be. Characters after an integer are accepted,
  after a float they are not. The status is 0 also when tests fail or an
  argument is bad. A range of `13 * TEST_RANGE + 1` values would be tried whole
  and written past its array (line 198). The loop of line 199 would not end for
  a range up to INT_MAX that is tried whole, and `char c` is compared with -1 at
  line 531; no puzzle and no x86 build meets either.

### Left out of the models

Text: what is printed and how, what `atoi`, `sscanf` and `getline` make of a
line, the miss rate (a float). Memory exhaustion other than the queue's
`calloc`. Registers and the stack in `asmlab` (step 8 of the plan). Undefined
behaviour beyond the cases named above. In `btest`, puzzles without arguments,
which the table does not have, and the messages. Concurrency: no program here
has threads; signals in `btest` are the one thing that interleaves.

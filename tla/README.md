# A TLA+ model of the Unikraft system call test suite

The repository is a test suite for the system calls of Unikraft: the LTP system
call tests (`original tests/`), a copy of them made free of LTP
(`independent tests/syscalls/`), and about 490 lines of Python and Docker that convert
the tests, run them in a container and report on them.  Modelled here are the scripts and
those test programs that have been ported so far that they build; the LTP originals and
the drafts made from them are the scripts' input.

## 1. Inventory

| Part | Source | State it keeps | Operations |
|---|---|---|---|
| brain | `independent tests/dockerfile_data/brain.py` | three lists of 361 counters, the collected logs, `/root/a.out`, `/root/log.txt`, `/root/out.txt`, `a.out` in a folder | walk over folders and files; `runTest`: compile, move, run, judge; write `out.txt` |
| runtest, first half | `independent tests/runtest` 8-81 | the image `test:latest`, `tmp.txt`, `./logs/*.log` | parse arguments, `docker build`, `docker run`, cut the output into log files, read three lines of numbers |
| runtest, second half | `independent tests/runtest` 83-199 | seven parallel lists, the figure | percentages, exchange sort, labels, six columns of bars, total |
| convert | `convert.py` 1-48, 65-116 | the tree `independent tests/syscalls` | walk over the originals, convert, write |
| rmcomment | `convert.py` 50-63 | a text | remove `/* */` comments, then `//` comments |
| count | `misc/count.py` | two parallel lists | list, exchange sort, report, total |
| reset | `misc/reset.py` | the tree | remove files without `.c` or `.h` in their name |
| overlap | `misc/overlap.py` | two lists of names | filter |
| image recipe | `Dockerfile.teststuff`, `kraft.yaml` | the image | install, copy, run `brain.py` at build time, `cat out.txt` at run time |
| ported tests | 80 of the files `independent tests/syscalls/*/*.c` build | their processes, each with buffered output and a flag | system calls, fork, wait, execve, exit, the verdict "test succeeded" |

How they interact:

    original tests --convert.py--> independent tests/syscalls --(by hand)--> ported tests
                                        |                 ^
                            docker build|                 | reset.py removes binaries
                                        v
                      brain.py in the image: out.txt = 3 rows of numbers DIVIDER logs
                                        |
                            docker run  v
                      runtest: tmp.txt -> ./logs/*.log, numbers
                                        |  + os.listdir on the host
                                        v
                      runtest -g: the plot

All communication is through files.  The row of a folder in `out.txt` is
identified only by its position in a listing of the container's file system; the
log of a test is identified only by where it stands between two `DIVIDER`s.

What is hard to get right, and hard to test:

- a test may fork and end before its child (`prctl08.c` does), and the child
  keeps a descriptor on the log file the next test is judged by;
- what a test prints is buffered until it exits: a fork copies it, an execve or a signal loses it,
  and a child that falls through to the verdict writes it once more;
- the verdict of a test depends on how its children end, on calls whose failure is only
  printed, and in places on values that were never set;
- `a.out`, `log.txt`, `tmp.txt` and the tag `test:latest` are single names used
  for a long series of things: each may be stale when it is used;
- exceptions: a bare `except` in `runTest`, none around the indexing of the lists;
  one around `docker build` and `docker run` that sees an interrupt but no failure of docker, since
  `subprocess.run` without `check` raises nothing for a return code, and leaves `tmp.txt` behind;
- hand-written exchanges on two and seven parallel lists, with a comparison that is not
  an order;
- lengths that must agree: 361 counters, 60 labels, six columns, `np.zeros(60)`;
- a negative slice bound in `rmcomment`;
- loops that wait for a system call to work (`mprotect02.c` 27-30);
- hours of waiting during which the tree on the host can be edited.

`PROJECT.json` lists these hazards one by one at their lines, with the
properties that catch them.

## 2. Modules

| Module | Models | Content |
|---|---|---|
| `Tally` | the promise of brain.py | abstract specification: every file counted once, in one category, in its folder; published complete or not at all |
| `Brain` | brain.py and its tests | see below |
| `BrainProofs` | | theorems about `Brain` |
| `RunTest` | runtest 8-81 | several invocations, the user's edits in between |
| `RunTestProofs` | | theorems about `RunTest` |
| `Plot` | runtest 83-199 | one run of the second half |
| `PlotProofs` | | theorems about `Plot` |
| `RmComment` | convert.py `rmcomment` | both loops on one text |
| `Convert` | convert.py, the walk | extends `RmComment`: several runs, each file through `rmcomment`, hand-porting in between |
| `Reset` | reset.py | extends `Convert`: the tree that convert.py made, compiled in and reset |
| `ResetProofs` | | theorems about `RmComment`, `Convert` and `Reset` together |
| `Count` | count.py | one run |
| `CountProofs` | | theorems about `Count` |
| `Steps` | | the vocabulary for test programs: calls, forks, waits, verdicts, and the idioms of the ported tests |
| `PortedTests` | 79 ported tests | one definition per file, named after it |
| `TestRun` | a ported test under brain.py | what the steps do: the process table, buffers, `log.txt` |
| `ScriptProofs` | | facts about steps, and what each of the 79 programs does |
| `TestRunProofs` | | theorems about `TestRun` |
| `TestEnv` | what `Brain` assumes of a test | abstract specification that `TestRun` implements |
| `InductionFacts` | | least elements and sums over finite sets, for the proofs |
| `MCBrain`, `MCPlot`, `MCReset`, `MCPorted` | | symmetry and input sets for TLC |

Operators commented "Slip:" are the mistakes the properties are tested
against (an `=` for `+=`, `cp` for `mv`, a missing `aux`...): each stands before the
operator it is a wrong form of, and no specification uses it.

### Brain

`tree` is what is in the folders when the image is built; `syscalls` is
the listing, in arbitrary order.  The program counter `pc` follows the main loop
(`folder`, `file`) and `runTest` (`compile`, `wait`).

| Action | Code |
|---|---|
| `SkipFolder` | lines 54-56: several files and no `incl.h`; IndexError past the last row |
| `EnterFolder`, `NextFile`, `LeaveFolder` | lines 53, 57-60 |
| `CompileFails` | lines 22-30: no `a.out` after gcc |
| `CompileAndStart(built)` | lines 22-34: gcc made an `a.out`, or an old one lies in the folder; `mv`; the shell truncates `log.txt` and starts the binary |
| `ReadLog` | lines 36-47: the verdict, the logs, the `except` |
| `Return` (part of the above) | lines 61-66: counting the verdict |
| `WriteOut` | lines 69-81 |
| `Write`, `Fork`, `ExitMain`, `ExitKid` | the test processes |

A log is a sequence of cells, one per write, of four kinds: `ok` (the text
"test succeeded"), `msg`, `bin` (not UTF-8) and `nul` (a hole).  `off[p]`
is the file offset that the processes started from binary `p` share after a fork; a
truncation by the shell does not reset the offset of a child left behind, which is
why holes exist.  A process is identified by its binary (`rootBin`): when a stale
`a.out` runs in place of a test, it is the stale program that writes.  `said` is a
history variable: who has written "test succeeded".

The names of files are abstract: `InclH` is `incl.h`, `OtherH` any other
name with `.h` in it, `Tests` the C files, `Strays` the `a.out`s of host builds.
A stray is both a file of its folder, handed to `runTest` in its turn, and the
`a.out` that `runTest` finds there.

### RunTest

`image` is what the tag `test:latest` names, with the revision of the tree it was
built from; `Build` either replaces it or leaves it, and the script goes on in
both cases.  An `out.txt` is the sequence of tests in the order they ran with their
verdicts; `Heads` and `TextIn` compute from it which names come first in a chunk
between two `DIVIDER`s and whose error text the chunk holds.  Files in `./logs`
outlive the invocation, and so does `tmp.txt` if it is interrupted: `Except` is the handler of lines 29-31,
`Interrupt` the end without one between there and the removal at line 46.  A missing `-t` is `None`, which is not `""`.

### Plot

A percentage is kept as a pair of naturals and compared by cross
multiplication.  `truth` is what brain.py found for each folder; the rows
`p`, `f`, `b` have it in the order of the container's listing, `syscalls` is the host's
listing.  `SameOrder` says whether the two orders agree; nothing in the
code makes them.  `DataLen`, `DataStart` are `np.array_split`, `LabelLen` the slices of
sixty, and `Fits` the lengths that `barh` and `left += res_count` accept with
`left = np.zeros(60)`: sixty, or one, which numpy spreads.

### Convert, RmComment, Reset

`Convert` keeps for each file of the target whether it is absent, freshly
imported, ported by hand or half-written.  `convertFile` takes the steps of `RmComment` (variables
`input`, `file`, `result`, `pc`) on a text that is chosen when it is called; what follows is abstracted to
how it ends.  A run may be broken off at any step (`BreakOff`): by hand, by an exception, or because the
text doubles with every turn of a loop that goes on.  The output file is opened (`OpenOutput`: it is empty) and
written (`WriteOutput`) in two steps, and a run that ends between them leaves a half-written
test; `cut` remembers for which.  `Reset` adds the `a.out`s (`bins`), their
compilation at any time that convert.py does not run, and reset.py: one listing of the folders, one of
each folder, the filter for ".c" or ".h" in the name, removals that fail.  The user ports and compiles also
while reset.py runs.  `RmComment` works on characters, of which `/`, `*` and the newline
matter, with Python's meaning of `file[:-1]`.

### Count

The exchange sort of two lists with its report.

### PortedTests, TestRun, TestEnv

A test program is a sequence of steps; a step that branches contains the steps of its
branches.  For example `mprotect03`, which expects a write to a protected page to kill
its child, is

    Needs(2) \o                                        open, mmap: or exit
    <<Call(<<Fork(<<Call(<<Die>>, <<End("other")>>)>>,  the child: SIGSEGV, or exit(1)
                  <<Wait(<< >>, <<Fail>>, << >>, << >>)>>, <<Exit>>)>>,
           <<Fail>>),                                   mprotect failed
      Verdict>>                                         if(ok) printf("test succeeded\n")

Kept are every call whose outcome the program looks at, what it then does, every
fork, wait, exec and exit, the flag, and the verdict.  Left out are arguments, other
output, calls whose outcome is ignored, and the clean-up after the verdict.  `Call` answers as
the program expects or not, whatever that means for the call: the error number of a
call that has to fail, the contents of a mapping, a return value.

`TestRun` runs one of the programs as brain.py does (no arguments, in `/root`, output to
`log.txt`).  `proc` is the process table with, for each process, the steps to do, the flag,
the number of verdicts in its buffer, its parent and its exit status.  A fork takes
the lowest free entry and copies the rest of the program and the buffer; an exit writes the
buffer, a signal or an execve loses it; orphans go to init or to a subreaper.
`bad` records that some call did not answer as expected.  `helper` says whether a program that
the test executes (`execve_child` ...) lies in `/root`: brain.py never puts it there, since it
names every binary `a.out`.  Values never set and undefined behaviour are choices (`Pick`).

| Action | Code |
|---|---|
| `Calls`, `Misses`, `Picks`, `Branches`, `Assigns` | the control flow of the test |
| `Says` | `printf` of a text with "test succeeded" |
| `Forks`, `Waits`, `Becomes`, `Ends`, `Returns` | fork, wait and waitpid, execve, exit and signals, return from main |
| `Opens`, `Closes`, `Reaps` | `execve04` (ETXTBSY) and `prctl03` (subreaper) |

`TestEnv` is the environment of `Brain` on its own: the steps `Write`, `Fork`, `ExitMain`, `ExitKid`,
with `Detached` and the fairness that `Brain` calls `TestsEnd`.  `TestRun` implements it
with `Detaching` for `Detached`, which closes the gap between the two: what `Brain` assumes of
its tests is shown of the tests that exist.

## 3. What the runs check

Twelve runs; a run with the expectation "violation" shows that the code does not do
what a document or comment of the repository says.

| Run | Instance | Shows |
|---|---|---|
| `brain` | 3 folders, 2 rows, 2 tests, both kinds of header, one stray, one test that may leave a child behind; folders symmetric; 5 million states | types (a test runs only while brain.py waits for it), `CountedOnce`, `RunsOwnBinary` |
| `brain_waiting` | 2 folders, 2 rows, no test leaves a child; fair | `NoFalsePass`, `SuccessCounted`, `ImplementsTally` (refinement), `Completes` |
| `brain_orphan` | two writes, no stray, one test may leave a child | **violation** of `NoFalsePass` |
| `plot` | 4 folders, 2 columns of 2, six kinds of numbers, the same order on both sides | `InStep`, `UnportedLast`, `BestFirst`, `AllDrawn`, `TotalRight`, `StopsOnlyIf` (an exception has one of two causes) |
| `plot_order` | different orders | **violation** of `LabelsTrue` |
| `runtest` | 3 tests, 2 invocations, 1 edit, interrupts | `NoErrorLost`, `FreshIfBuilt`, `ReadsOwnOutput` (a `tmp.txt` left behind is not taken for the next output) |
| `runtest_stale` | 2 tests | **violation** of `FreshReport`: a build that fails, and the container of an older image |
| `runtest_names` | 2 tests | **violation** of `LogsNamed` |
| `tree` | 2 folders with a file that may be missing or unreadable, 2 runs of convert.py, all 1365 texts of up to 5 characters, compilations and resets; folders symmetric | `NoPartialFile`, `Mirrors` (also after a reset), `ResultClean`, `ResetCleans` |
| `count` | 4 folders of 0 to 2 files | `Paired`, `ReportSorted`, `TotalCorrect` |
| `ported` | all 79 programs, with and without the helper, up to 6 processes; fair | types (what has ended holds nothing), `SuccessMeansWorks`, `WorksMeansSuccess`, `NoLateSuccess`, `AllEnd`, `ImplementsTestEnv` (refinement) |
| `ported_mprotect` | `mprotect02` | **violation** of `OutputsIfWorks` |

### The exceptions of `ported`

Five sets in `TestRun` name the programs for which a property does not hold.  They are
exact: every name in them was found by a counterexample, and without it the run fails.

- `Lenient` (20): success may be written although a call before it failed.  `close01`, `mmap18`, `munmap03` and
  `write05` write a verdict per case; `write06` sets its flag again; `execve05`, `execve06`, `prctl08` and
  `prctl10` do not ask how a child ended, or only whether; `prctl02` takes a wrong error
  number for success (its function returns what `printf` left); the others print a failure and go on.
- `Mute` (21): success may not be written although every call answered as expected.  `mprotect02` asks the
  wrong question; `execve01`, `execve02` and the five helpers, which brain.py runs as tests, have no verdict
  to give when run this way; `fcntl12`, `mmap01` and `read02` write "test passed", "test succeded" and "Test
  succeeded", which brain.py does not look for; `eventfd01` and `prctl07` are empty without a library;
  `faccessat01`, `fcntl06`, `prctl06` and `sched_setattr01` never write one; `mmap11`, `openat01`, `openat02` and
  `write06` depend on values never set or on writes through bad pointers.
- `Detaching` (8): may end before a child.  For `mmap10` this takes a failing fork or child.
- `Talkers` (3): `execve02`, `execve05` and `prctl08` may write success after they have ended.  These are
  the tests that can make the next one pass in `brain_orphan`.
- `Endless` (1): `mprotect02` subtracts what `write` returns from an unsigned number until it is zero (lines 27-30).
  When `open` or `write` fails, this adds one per turn, and the loop goes on practically for ever (`Spin`).  `AllEnd`
  and the fairness of `ImplementsTestEnv` are claimed for the other 78 programs.

`WorksMeansSuccess` says nothing of a program that cannot run without a failure: `execve04` needs luck,
`fcntl07` executes a program that is not there, and `prctl03` never sees an orphan, because the
child that should leave it waits for it.

### Bounds

- `MaxWrites` = 1 in `brain` and `brain_waiting`: a verdict depends only on which kinds of
  cell are in the log, and one write by a test and one by a child left behind, which
  may overwrite it, are enough to mix them.  Holes appear with two writes, as in `brain_orphan`;
  they decode, and no verdict depends on them.
- Three folders and two rows: a first and a second complete row and one
  row too many.  Two rows suffice for the refinement.
- Plot with four folders in two columns: an exchange sort has a first, a middle
  and a last position, and columns and labels have a boundary between them.  The six
  kinds of numbers are all passing, mixed, all failing, unported, partly broken, empty.
- RunTest needs three tests for a chunk that begins with the name of a passing
  test and is followed by another chunk.  `runtest` has the verdicts `pass` and `fail` only:
  `nobin` and `bin` leave the same traces in the logs as `pass`.  Two
  invocations and one edit make one stale image.
- RmComment: four characters hold a comment and a character before it that the
  loop removes ("/x/*" becomes "/*"), five hold two lines with a comment each, which are joined.  Two
  turns are enough for two openings in five characters; `ResultOpensNoComment` and `HeaderTrapped` are proved for every length.
- `tree`: two folders, so that a run breaks off between a folder done and one not begun, and a
  second run that may be the first complete one.  One C file and one other (a Makefile): convert.py leaves
  the second, and reset.py would remove it.  The two scripts are not run at the same time.
- `ported`: `MaxProcs` = 6 is never reached (with 5 there is still always a free entry).  `Many` = 2
  stands for the hundreds of equal rounds of three loops, `NChild` = 2 for the eight children
  of `execve05`, which do not interact.  Both, and `MaxProcs`, are constants: the theorems of
  `TestRunProofs` hold for every number of rounds, of children and of processes, so for those of the code.
- `MaxRuns` in Convert and RunTest, `MaxRev` in RunTest, `MaxInput` and `MaxTurns` in
  RmComment are bounds of the model, not of the code.

Deadlock checking is off: every one of these programs ends, or stays in a loop (`mprotect02`).

### Fairness

- `Brain!FairSpec`: brain.py goes on as long as it can (weak fairness of `BrainStep`).
  That tests and their children end is an assumption about the tests, stated as
  `TestsEnd`; the code does not enforce it, since `subprocess.run` is given no timeout.
  It is strong fairness for `ExitMain` because a test that forks again and again
  is able to end only now and then.
- `TestRun!FairSpec`: the kernel runs every process that can run (weak fairness per
  process); a process that waits for a child cannot, and one in an endless loop does nothing else.

`RunTest`, `Plot`, `Convert`, `Reset` and `Count` state no fairness: their properties are about what is so when a
step is reached.

## 4. What is proved

All theorems hold for every value of the constants that satisfies the `ASSUME` of
the module.  Each rests on an invariant that the steps keep (below, with the reason why
the property alone is not kept); types come first in every module.

**BrainProofs.**  `TypeCorrect`.

- `EveryTestCountedOnce` (`CountedOnce`) needs `Loop` (the tree is one of `Trees`; the files still to be
  looked at and the test under way belong to the current folder, which is not an unfinished one) and
  `Balance` (in the row of the current folder, what is counted and what is left make
  the countable files, and a row not reached is zero).
- `OwnBinary` (`RunsOwnBinary`) rests on `Binary`: in a folder without strays there is no `a.out` between
  two tests, because `mv` takes it away, so the binary found is the one just made.
- `NoFalsePassWhenWaiting` (`NoFalsePass`) assumes `Detached = {}`; `Waited` says that children exist only
  while their parent runs and that an `ok` in the log was written by the binary now running.  The run
  `brain_orphan` shows that the assumption cannot be dropped.
- `SuccessCountedWhenWaiting` (`SuccessCounted`) assumes the same.  `Pending` says that nothing still to come
  has been judged, `Heard` that the running test writes at the end of the log and nowhere else (`off` is
  the length of the log), so that what it said is still there when it is read.
- `BrainImplementsTally` (`ImplementsTally`): brain.py implements `Tally`.  The initial states map to initial
  states; a `Return` maps to the counting of one file, because by `Balance` and `Pending` exactly that file
  leaves what is not counted; `WriteOut` maps to the publication, and by `OutLast` there is only one;
  the IndexError maps to giving up; everything else, the tests' own steps included, is a stutter.

**PlotProofs.**  `TypeCorrect`, and `InStepAlways`, which follows from the fact that one `Exchange` is
applied to all lists.

- `UnportedComeLast`: the comparison `bp[i] > bp[j] or pp[i] < pp[j]` is neither antisymmetric nor
  transitive, so the usual argument for an exchange sort (position `i` holds the least of what was seen)
  is not available.  `UnportedInv` says only what concerns unported folders: if position `i` is
  unported, so is everything seen after it in this turn.  An exchange between an unported and another
  folder goes one way only, and that suffices.
- `BestComesFirst` (`BestFirst`): when every folder is either unported or without a broken test (`Unmixed`),
  an exchange never moves a smaller share of passing tests forward, and where none is made the larger is already in
  front (`OutOfOrderBetter`).  The usual argument is back: `BestInv`.
- `TotalIsRight` (`TotalRight`): an exchange is a permutation of the positions, so the sums of the rows
  stay what they were in the container's order, which are those of the folders (`SumsKept`).
- `EveryFolderDrawn` (`AllDrawn`): if every column fits, numpy's sections and the slices of the labels are
  the same (`PartsAgree`), and the bar at a given height of a given column shows one position, every
  position once (`PositionsShown`).  This needs no lower bound on `PerColumn` or `Columns`: the cases in which numpy
  spreads a single number over a column are among those proved.  The property speaks of
  equal orders (`SameOrder`), since `plot_order` shows what happens otherwise.
- `StopsOnlyForCause` (`StopsOnlyIf`): with the same folders on both sides, an exception comes only from a folder without
  countable files or from a number of folders other than `Columns * PerColumn`.  A row whose `tot` is zero is
  that of such a folder (`Stops`), and for the right number of folders every column fits.
- `ShownOnlyWhenExact` (`ShownExact`): if each side has the same folders and
  there is more than one column of more than two bars, a plot that is shown has
  `Columns * PerColumn` folders.  For the code: 360, and no other number.

**RunTestProofs.**  `TypeCorrect`.  `FreshWhenBuilt` (`FreshIfBuilt`) follows the revision from the image to `tmp.txt`
to the report (`Passed`).  `OwnOutputRead` (`ReadsOwnOutput`): whatever interrupted invocations have left in
`tmp.txt`, the redirection empties it, so what is read is the output of the image there is.  `NoErrorIsLost` (`NoErrorLost`): for any number of tests, the
error of a test is the text of the chunk that begins with the last head at or before the test (`ChunkOf`), and every
chunk with an error text is written, under whatever name.

**ResetProofs.**  About the tree that convert.py makes and reset.py cleans, for any number
of folders, files and runs.  `NoPartialFileEver` and `TreeMirrors` need `Progress`: only the file being written and those whose last write was broken off
are in parts, and the folders already left, and the files already done in the current one, are complete.  For
`Mirrors` it matters that it does not say that the folders not yet reached are empty: broken-off runs have been
there; and that reset.py removes no file with ".c" in its name.  `ResetAlwaysCleans` (`ResetCleans`) needs
`Clearing`: an `a.out` that was neither compiled since nor failed to be removed lies in what reset.py has still to
look at.  `HeaderTrapped`: a text of any length that begins with `/*` is,
after any number of turns, a text that begins with `/*`; so the first loop is never
left, which is not what the comment at `convert.py` 51 says of it.  `ResultOpensNoComment` (`ResultClean`): what is returned holds neither `/*` nor `//`.  The danger is in the
joints: rmcomment joins the beginnings of lines without a newline, so that a `/` at the end of one and a
`*` at the beginning of the next would open a comment.  `Cleaned` says that what is put
together never ends with a `/` (`Tidy`): it was cut before the first `//` of its line, and a `/` just before
that would have been found as a `//` one position earlier.

**CountProofs.**  `TypeCorrect`, `PairedAlways`, `ReportIsSorted`, with the usual
invariant of an exchange sort.  `TotalIsCorrect` (`TotalCorrect`): the list of names is a permutation of the
folders, so the sum of the other list is the number of files.

**TestRunProofs.**  Five theorems about the ported programs, for every set `Programs` of them, with or without
the helper, every number of processes, of rounds (`Many`) and of children (`NChild`), and every interleaving.

- `TypeCorrect` (`TypeOK`) needs to know what is nested in the steps a process still has.  `Program(t, ops)`
  says that the steps of `t` lie in a set which is closed under nesting and whose members are typed;
  every script is one (`ScriptsMade`), and what a step leaves is one again.  The invariant has `TableOK` as a part:
  the parent of a process is another one that runs, a zombie has somebody to wait for it, and (`MainStays`) the test's own entry is
  never freed.
- `SuccessIsTrue` (`SuccessMeansWorks`), `SuccessIsWritten` (`WorksMeansSuccess`) and `VerdictStands` (`NoLateSuccess`),
  with the exceptions `Lenient`, `Mute` and `Talkers` of section 3 and no others.  The invariant is `Course`.
- `KeepsToTestEnv`: the programs implement the safety part of `TestEnv` (`EnvSafety`), so that what `Brain` assumes of
  a test is proved of the 79.  A fork maps to `Fork`, the end of the main process to `ExitMain`, that of the last child to `ExitKid` and that of another
  to a `Write`; everything else, and an end or a fork that changes none of this, is a stutter.  Only for `Detaching` may `ExitMain` find a child running (`LeavesNone`).

Steps are first sorted into six kinds with a description of each field (`StepKinds`); nothing after that looks into
the actions.  `Course` has one part per way in which the processes of a program depend on each other:

- *Taking turns* (70 programs).  A process that has forked waits at once.  `Turns` says that the processes
  form a stack, each the child of the one below, of which only the top runs, and that the top does what is
  left of a *run*.  `Run(t, o, b, l, x, E)` (in `ScriptProofs`) is the judgement that steps `t`, taken by one process and
  those it forks and waits for, end only with an outcome in `E`, if they end; `o` is the flag, `b` whether its buffer and `l` whether the log
  has a verdict, `x` whether a call has failed.  It is the largest set of states closed under `Follows`, so that a loop or a
  repetition needs no induction over steps.  What each program does is derived with it from rules, one per kind of step and one for
  concatenation, repetition and fork-and-wait (`Judged`, `Does`, `Keeps`), from sets of states such as `Flagged` (the flag is set exactly if no call has failed).
  The result is `Promised`: each program has the outcomes its exceptions leave it.
- *Side by side* (`execve04`, `execve05`, `execve06`, `mmap10`, `prctl08`).  `Apart` judges main and children
  separately: whatever the children do, main says success if nothing fails (`Sure`); and the children of three of them
  never hold any output (`Hush`).
- *Wordless* (`execve01`, `fcntl12`): no step of them says "test succeeded", hence none is in a buffer or the log (`Dumb`).
- *`prctl03`*: `Phases` are the states of its three processes.  The grandchild is never an orphan, so it
  fails before it can speak.
- *`execve02` and `execve04`*: `Trail`.  Once the fork has succeeded exactly one of the two processes can come to a verdict (`Solo`), and the
  other is idle; or a call has failed and nobody speaks any more (`Doomed`).

**ScriptProofs.**  The lemmas for this: sequences, repetitions (`Rep`, by remainders) and chains, well-made programs, the two judgements and their
rules, and the judgement of every program by name (`StrictRuns`, `FlaggedRuns`, `SilentRuns`, `WaryRuns`, `LenientRuns`, `ExactForks`, ...).

**InductionFacts.**  The provers cannot use an induction theorem with a predicate as parameter.  Induction
over data is done here with least elements: a set of naturals that is not empty has a smallest
member (`SmallestOf`), a family of finite sets a minimal one (`MinimalSet`).  From these follow
that `MapThenSumSet`, which recurs over the subsets of a set, is well defined on a finite one, and what it does when a
member is removed or the members are enumerated in another order (`SumStep`, `SumRemove`, `SumEnumerated`, `SumColumn`), which is
what the two totals rest on.

Only model-checked:

- what depends on fairness: `Completes`, `AllEnd`, and of `ImplementsTestEnv`
  the fairness that `TestEnv` asks for (its safety part is `KeepsToTestEnv`);
- that the sets of exceptions are exact: a theorem shows that they are large enough, a counterexample
  of TLC for every name that they are not too large;
- the five violations, which are counterexamples.

## 5. Findings

1. `brain_orphan`: a child left behind, like that of `prctl08.c`, makes the next test pass.
2. `plot_order`: bars carry the names of other system calls when the container's file
   system lists the folders in another order than the host's.
3. `runtest_stale`: a failed build is reported as "Build successful" (the `except` sees only
   exceptions, and none is raised) and an older image is evaluated.
4. `runtest_names`: errors are filed under the name of an earlier, passing test.
5. `ported_mprotect`: `mprotect02` gives no verdict when mprotect works.

Met while modelling and visible in the modules, without a run of their own:
`rmcomment` does not terminate on a text that begins with a comment, as
304 of the 1191 originals do, although `convert.py` 51 says "remove multiple line comments first" (theorem `HeaderTrapped` proves
that such a text never leaves the loop), and drops every line without `//` (`NextLine`); without `-t`, `runtest` ends
in a TypeError (`Invoke`); `./logs` is not in the repository and is not created
(`WriteLogs`); a second run of `convert.py` overwrites hand-ported tests
(`Port`, then `OpenOutput`); `mprotect02` loops when its file cannot be written (`Endless`); any number of folders but 360 ends `runtest -g` with an
exception of `barh` (`ShownOnlyWhenExact` is proved), although README.md 18 says that the results
"should update"; the exceptions listed above under `ported`; folders of which a part is broken may be
sorted before ones without broken tests (hence the condition in `BestFirst`).

## 6. Not modelled

- The LTP originals (`original tests/`), which are third-party sources that nothing here runs.
- The more than a thousand drafts in `independent tests/syscalls` that do not compile: they still use LTP's
  macros and headers.  What happens to them is
  `Brain!CompileFails`; what they would do has no meaning until somebody ports them.  These two
  groups are nearly all of the repository's C code; the 79 programs modelled are what is left of it.
- `prctl04`: its children run under seccomp, where the outcome depends on which system
  calls the C library makes of its own.
- `misc/overlap.py`: a filter of one table by another, without state or a reader.
- Installation of packages and of kraft (`Dockerfile.teststuff` 1-36, `kraft.yaml`): they
  succeed or fail, as `Build` does.
- The text rewriting in `convertFile` and `verfunc` (`convert.py` 25-48, 67-99): its result
  is a draft to be edited by hand, about which the repository promises nothing.
- Colours, sizes and titles of the plot; the rounding of the total's percentages.
- gcc warnings in the logs: gcc writes them to stderr, which is not redirected.

## 7. Plan

Done: all parts of the inventory but overlap; the theorems above.

Every invariant and action property that a run checks is now a theorem, but for those that a violation
refutes; what is left to TLC is listed at the end of section 4.

Left, modelling: a composition in one state space of brain, runtest and plot (they are
joined now by what each assumes of the file it reads), and new tests as they are ported.

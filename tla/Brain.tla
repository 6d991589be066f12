------------------------------- MODULE Brain -------------------------------
(***************************************************************************)
(* dockerfile_data/brain.py: the program that, inside the container,       *)
(* compiles and runs every test of every system call folder, one after the *)
(* other, and writes the numbers of passing, failing and broken tests of   *)
(* each folder and the collected logs to /root/out.txt.                    *)
(*                                                                         *)
(* brain.py is sequential but its tests are not: a test may fork, and a    *)
(* child that outlives its parent keeps its descriptor on /root/log.txt.   *)
(* The shell truncates that file for the next test and does not replace    *)
(* it, so such a child then writes, at its own offset, into the log of a   *)
(* test it knows nothing about.  The log is a sequence of cells, one per   *)
(* write; a cell is "ok" (the text "test succeeded"), "msg" (other text),  *)
(* "bin" (bytes that are not UTF-8) or "nul" (a hole below an offset).     *)
(***************************************************************************)
EXTENDS Integers, Sequences, FiniteSets

CONSTANTS
  Syscalls,       \* the folders of /root/syscalls
  Tests,          \* the C files in them
  InclH, OtherH,  \* the headers: incl.h and any other
  Strays,         \* the a.out files host builds have left in the folders
  None,
  Capacity,       \* the length of pass_list, fail_list and brok_list (361)
  Detached,       \* the programs that may end while a child of theirs runs on
  MaxWrites       \* bound: writes of one program to its log

Headers  == {InclH, OtherH}
Programs == Tests \cup Strays      \* what runTest is called with
Files    == Programs \cup Headers
Cells    == {"ok", "msg", "bin", "nul"}

ASSUME BrainAssumption ==
  /\ IsFiniteSet(Syscalls) /\ IsFiniteSet(Tests) /\ IsFiniteSet(Strays)
  /\ Tests \cap Strays = {} /\ Programs \cap Headers = {}
  /\ None \notin Programs \cup Int
  /\ Capacity \in Nat /\ MaxWrites \in Nat

VARIABLES
  tree,       \* tree[f]: the files of folder f when the image was built
  syscalls,   \* os.listdir(rootPath)
  pc,         \* where brain.py is
  i,          \* loop variable: index of the current folder
  fcont,      \* the files of the current folder still to be looked at
  cur,        \* the argument of the call of runTest under way
  aout,       \* aout[f]: the program the a.out in folder f is, None if there is none
  rootBin,    \* the program /root/a.out is
  log,        \* contents of /root/log.txt
  off,        \* off[p]: offset of the descriptor that the processes of binary p share
  main,       \* is the process the shell waits for running
  kids,       \* the binaries that have a forked child running
  said,       \* the binaries that have written "test succeeded"
  judged,     \* judged[p]: what runTest returned for p (0, 1, -1), or None
  pass_list, fail_list, brok_list, logs,
  out         \* contents of /root/out.txt, None before it is written

imageVars == <<tree, syscalls>>
counts    == <<pass_list, fail_list, brok_list>>
diskVars  == <<aout, rootBin>>
procVars  == <<log, off, main, kids, said>>
brainVars == <<pc, i, fcont, cur, judged, counts, logs, out>>
vars      == <<imageVars, brainVars, diskVars, procVars>>

N    == Cardinality(Syscalls)
Idx  == 0 .. (N - 1)
Rows == 0 .. (Capacity - 1)

\* os.listdir returns the folders in arbitrary order.
Listings == {l \in [Idx -> Syscalls] : \A k, m \in Idx : l[k] = l[m] => k = m}

\* A program is in one folder, headers may be in any; a folder holds one a.out at most.
Trees ==
  {t \in [Syscalls -> SUBSET Files] :
     /\ \A f, g \in Syscalls : f # g => t[f] \cap t[g] \subseteq Headers
     /\ \A f \in Syscalls : \A a, b \in t[f] \cap Strays : a = b}

Zeros == [k \in Rows |-> 0]

Init ==
  /\ tree \in Trees /\ syscalls \in Listings
  /\ pc = "folder" /\ i = 0 /\ fcont = {} /\ cur = None
  /\ aout = [f \in Syscalls |-> IF tree[f] \cap Strays = {} THEN None
                                ELSE CHOOSE a \in tree[f] : a \in Strays]
  /\ rootBin = None
  /\ log = << >> /\ off = [p \in Programs |-> 0]
  /\ main = FALSE /\ kids = {} /\ said = {}
  /\ judged = [p \in Programs |-> None]
  /\ pass_list = Zeros /\ fail_list = Zeros /\ brok_list = Zeros
  /\ logs = << >> /\ out = None

-----------------------------------------------------------------------------
(* The main loop                                                           *)

Folder == syscalls[i]

\* A folder with several files and no incl.h is not ported yet: none of its tests runs.
Unfinished(f) == Cardinality(tree[f]) # 1 /\ InclH \notin tree[f]

\* Slip: `=' in place of `+='.
AddAssigns(list, n) == [list EXCEPT ![i] = n]

Add(list, n) == [list EXCEPT ![i] = @ + n]

\* `brok_list[i] += len(fcont)', an IndexError outside any try when i is too large.
SkipFolder ==
  /\ pc = "folder" /\ i < N /\ Unfinished(Folder)
  /\ IF i < Capacity
       THEN /\ brok_list' = Add(brok_list, Cardinality(tree[Folder]))
            /\ i' = i + 1 /\ pc' = pc
       ELSE pc' = "crashed" /\ UNCHANGED <<brok_list, i>>
  /\ UNCHANGED <<imageVars, fcont, cur, judged, pass_list, fail_list, logs, out, diskVars, procVars>>

EnterFolder ==
  /\ pc = "folder" /\ i < N /\ ~Unfinished(Folder)
  /\ fcont' = tree[Folder] /\ pc' = "file"
  /\ UNCHANGED <<imageVars, i, cur, judged, counts, logs, out, diskVars, procVars>>

\* Slip: the file looked at stays in the list.
RestAll(file) == fcont

Rest(file) == fcont \ {file}

\* The listing is in arbitrary order; headers are passed over.
NextFile(file) ==
  /\ pc = "file" /\ file \in fcont
  /\ fcont' = Rest(file)
  /\ IF file \in Headers THEN UNCHANGED <<cur, pc>>
                         ELSE cur' = file /\ pc' = "compile"
  /\ UNCHANGED <<imageVars, i, judged, counts, logs, out, diskVars, procVars>>

LeaveFolder ==
  /\ pc = "file" /\ fcont = {}
  /\ i' = i + 1 /\ pc' = "folder"
  /\ UNCHANGED <<imageVars, fcont, cur, judged, counts, logs, out, diskVars, procVars>>

\* The call of runTest returns res and the main loop counts it.
Return(res) ==
  /\ judged' = [judged EXCEPT ![cur] = res]
  /\ IF i < Capacity
       THEN /\ pass_list' = IF res = 1  THEN Add(pass_list, 1) ELSE pass_list
            /\ fail_list' = IF res = 0  THEN Add(fail_list, 1) ELSE fail_list
            /\ brok_list' = IF res = -1 THEN Add(brok_list, 1) ELSE brok_list
            /\ pc' = "file" /\ cur' = None
       ELSE pc' = "crashed" /\ UNCHANGED <<counts, cur>>

\* The three lines of numbers, up to the number of folders, and the logs.
WriteOut ==
  /\ pc = "folder" /\ i = N
  /\ IF N <= Capacity
       THEN /\ out' = [pass |-> [k \in Idx |-> pass_list[k]],
                       fail |-> [k \in Idx |-> fail_list[k]],
                       brok |-> [k \in Idx |-> brok_list[k]], logs |-> logs]
            /\ pc' = "done"
       ELSE out' = out /\ pc' = "crashed"
  /\ UNCHANGED <<imageVars, i, fcont, cur, judged, counts, logs, diskVars, procVars>>

-----------------------------------------------------------------------------
(* runTest                                                                 *)

NameToken(p) == [kind |-> "name", prog |-> p]
TextToken(p) == [kind |-> "text", prog |-> p]
Divider      == [kind |-> "divider", prog |-> None]

\* There is no a.out after gcc: it produced none, and none was lying in the folder or
\* the linker, failing, has unlinked it.
CompileFails ==
  /\ pc = "compile"
  /\ aout' = [aout EXCEPT ![Folder] = None]
  /\ logs' = Append(logs, NameToken(cur))
  /\ Return(0)
  /\ UNCHANGED <<imageVars, i, fcont, out, rootBin, procVars>>

\* Slip: cp in place of mv.
CopiedBinary == [aout EXCEPT ![Folder] = rootBin']

MovedBinary == [aout EXCEPT ![Folder] = None]

\* Slip: `>>' in place of `>'.
AppendedLog == log

\* log.txt as the shell opens it for the test.
OpenedLog == << >>

\* gcc and the look for a.out, mv to /root, and the shell's start of the binary.  When gcc
\* produces nothing an a.out that lies in the folder runs; gcc makes none from an a.out.
CompileAndStart(built) ==
  /\ pc = "compile"
  /\ IF built THEN cur \in Tests ELSE aout[Folder] # None
  /\ logs' = Append(logs, NameToken(cur))
  /\ rootBin' = IF built THEN cur ELSE aout[Folder]
  /\ aout' = MovedBinary
  /\ log' = OpenedLog /\ off' = [off EXCEPT ![rootBin'] = 0]
  /\ main' = TRUE /\ pc' = "wait"
  /\ UNCHANGED <<imageVars, i, fcont, cur, judged, counts, out, kids, said>>

Content == {log[n] : n \in DOMAIN log}

\* Slip: Popen in place of run.
NotWaitedFor == TRUE

\* subprocess.run returns when the shell's child has ended, whatever that has forked.
ShellReturned == ~main

\* Text that does not decode raises an exception, which runTest turns into -1.
ReadLog ==
  /\ pc = "wait" /\ ShellReturned
  /\ IF "bin" \in Content THEN Return(-1) /\ logs' = logs
     ELSE IF "ok" \in Content THEN Return(1) /\ logs' = logs
     ELSE Return(0) /\ logs' = logs \o <<TextToken(cur), Divider>>
  /\ UNCHANGED <<imageVars, i, fcont, out, diskVars, procVars>>

-----------------------------------------------------------------------------
(* The test processes: the environment of brain.py                         *)

Alive(p) == (main /\ p = rootBin) \/ p \in kids

WriteAt(s, o, c) ==
  [n \in 1 .. (IF Len(s) > o THEN Len(s) ELSE o + 1) |->
     IF n = o + 1 THEN c ELSE IF n <= Len(s) THEN s[n] ELSE "nul"]

Running == pc \notin {"done", "crashed"}

\* Any live process of p writes.
Write(p, c) ==
  /\ Running /\ Alive(p) /\ off[p] < MaxWrites
  /\ log' = WriteAt(log, off[p], c)
  /\ off' = [off EXCEPT ![p] = @ + 1]
  /\ said' = IF c = "ok" THEN said \cup {p} ELSE said
  /\ UNCHANGED <<imageVars, brainVars, diskVars, main, kids>>

Fork ==
  /\ main /\ rootBin \notin kids
  /\ kids' = kids \cup {rootBin}
  /\ UNCHANGED <<imageVars, brainVars, diskVars, log, off, main, said>>

\* The process the shell waits for ends; unless it is detached, after its children.
ExitMain ==
  /\ main /\ (rootBin \in kids => rootBin \in Detached)
  /\ main' = FALSE
  /\ UNCHANGED <<imageVars, brainVars, diskVars, log, off, kids, said>>

ExitKid(p) ==
  /\ Running /\ p \in kids
  /\ kids' = kids \ {p}
  /\ UNCHANGED <<imageVars, brainVars, diskVars, log, off, main, said>>

-----------------------------------------------------------------------------

BrainStep ==
  \/ SkipFolder \/ EnterFolder \/ LeaveFolder \/ WriteOut
  \/ \E file \in Files : NextFile(file)
  \/ CompileFails
  \/ \E built \in BOOLEAN : CompileAndStart(built)
  \/ ReadLog

TestStep ==
  \/ \E p \in Programs, c \in Cells \ {"nul"} : Write(p, c)
  \/ \E p \in Programs : ExitKid(p)
  \/ Fork \/ ExitMain

Next == BrainStep \/ TestStep

Spec == Init /\ [][Next]_vars

\* brain.py itself never stops; that a test and its children end is an assumption about
\* the tests (subprocess.run is given no timeout).
TestsEnd == SF_vars(ExitMain) /\ \A p \in Programs : WF_vars(ExitKid(p))

FairSpec == Spec /\ WF_vars(BrainStep) /\ TestsEnd
-----------------------------------------------------------------------------
(* Properties                                                              *)

\* Types, and what ties them together: runTest is under way exactly where cur is set, a
\* test is running only while brain.py waits for it, no folder is looked at past the last.
TypeOK ==
  /\ tree \in [Syscalls -> SUBSET Files]
  /\ syscalls \in [Idx -> Syscalls]
  /\ pc \in {"folder", "file", "compile", "wait", "done", "crashed"}
  /\ i \in 0 .. N
  /\ pc \in {"file", "compile", "wait"} => i < N
  /\ fcont \in SUBSET Files
  /\ cur \in Programs \cup {None}
  /\ pc \in {"compile", "wait"} => cur # None
  /\ pc \in {"folder", "file", "done"} => cur = None
  /\ aout \in [Syscalls -> Programs \cup {None}]
  /\ rootBin \in Programs \cup {None}
  /\ main => pc = "wait" /\ rootBin # None
  /\ log \in Seq(Cells) /\ off \in [Programs -> Nat]
  /\ main \in BOOLEAN /\ kids \in SUBSET Programs /\ said \in SUBSET Programs
  /\ judged \in [Programs -> {0, 1, -1, None}]
  /\ pass_list \in [Rows -> Nat] /\ fail_list \in [Rows -> Nat] /\ brok_list \in [Rows -> Nat]

Row(k) == pass_list[k] + fail_list[k] + brok_list[k]

\* What a folder contributes: every file of an unfinished one, else all but its headers.
Countable(f) == IF Unfinished(f) THEN tree[f] ELSE tree[f] \ Headers

\* No test is lost, counted twice or counted in another folder's row: the three numbers
\* of a folder that brain.py has left add up to its files, those of a later one to nothing.
CountedOnce ==
  \A k \in Rows \cap Idx :
    /\ k < i => Row(k) = Cardinality(Countable(syscalls[k]))
    /\ k > i => Row(k) = 0

Clean(f) == tree[f] \cap Strays = {}

\* In a folder without left-over binaries the binary that runs, and is judged, is the
\* one gcc made from this very test: a test that does not compile is never
\* represented by the a.out of the test before it (brain.py 28-34).
RunsOwnBinary == pc = "wait" /\ Clean(Folder) => rootBin = cur

\* README.md: a test outputs "test succeeded" if it works.  A test counted as passing
\* has itself written that text (brain.py 34-40).
NoFalsePass ==
  \A f \in Syscalls : Clean(f) => \A p \in tree[f] \cap Tests : judged[p] = 1 => p \in said

\* The converse: a test that has written "test succeeded" is not counted as failing.
SuccessCounted ==
  \A f \in Syscalls : Clean(f) => \A p \in tree[f] \cap said : judged[p] # 0

-----------------------------------------------------------------------------
(* Refinement: brain.py implements the abstract specification Tally        *)

Position(s) == CHOOSE k \in Idx : syscalls[k] = s

NotCounted(s) ==
  IF Position(s) < i THEN {}
  ELSE IF Position(s) > i \/ pc = "folder" \/ Unfinished(s) THEN Countable(s)
  ELSE (fcont \ Headers) \cup ({cur} \ {None})

\* The numbers of a folder: those of the lists, and of out.txt once that is written.
Numbers(s) ==
  LET k == Position(s) IN
  [c \in {"pass", "fail", "brok"} |->
     IF out # None THEN out[c][k]
     ELSE IF k >= Capacity THEN 0
     ELSE CASE c = "pass" -> pass_list[k]
            [] c = "fail" -> fail_list[k]
            [] c = "brok" -> brok_list[k]]

T == INSTANCE Tally WITH
       todo  <- [s \in Syscalls |-> NotCounted(s)],
       tally <- [s \in Syscalls |-> Numbers(s)],
       phase <- IF pc = "done" THEN "published"
                ELSE IF pc = "crashed" THEN "aborted" ELSE "counting"

\* Whatever the compiler and the tests do, brain.py counts as Tally allows: one file at
\* a time or one unfinished folder at a time, published once and complete, never partly.
ImplementsTally == T!TallySpec

\* With no more folders than the lists have rows, brain.py writes its results, provided
\* that every test ends.
Completes == N <= Capacity => <>(pc = "done")

=============================================================================

------------------------------ MODULE TestRun ------------------------------
(***************************************************************************)
(* One ported test program as brain.py runs it: "/root/a.out" with its     *)
(* standard output in /root/log.txt.  The processes of the program take    *)
(* the steps of PortedTests in any interleaving; every call may answer as  *)
(* the program expects or not.                                             *)
(*                                                                         *)
(* The standard output is a file, hence fully buffered: what a process     *)
(* prints is in its memory (buf) until it exits.  A fork copies the        *)
(* buffer, execve and death by a signal lose it.                           *)
(***************************************************************************)
EXTENDS PortedTests, FiniteSets

CONSTANTS Programs,     \* names of programs, of which one is run
          MaxProcs      \* bound on the processes alive at a time

ASSUME ProgramsAssumption == Programs \subseteq DOMAIN Script
ASSUME MaxProcsAssumption == MaxProcs \in Nat \ {0}

VARIABLES
  prog,       \* the program run
  helper,     \* whether the helper program it executes lies in /root
  proc,       \* its processes
  writers,    \* those that have the helper open for writing
  reaper,     \* whether the main process adopts orphans
  log,        \* how many times log.txt has "test succeeded"
  bad         \* history: some call did not answer as the program expects

vars == <<prog, helper, proc, writers, reaper, log, bad>>

Pids == 1 .. MaxProcs
Main == 1

Free == [state |-> "free", todo |-> << >>, ok |-> TRUE, buf |-> 0, parent |-> 0,
         status |-> "zero"]

Init ==
  /\ prog \in Programs
  /\ helper \in BOOLEAN
  /\ proc = [p \in Pids |-> IF p = Main THEN [Free EXCEPT !.state = "run",
                                                          !.todo = Script[prog]]
                                        ELSE Free]
  /\ writers = {}
  /\ reaper = FALSE
  /\ log = 0
  /\ bad = FALSE

-----------------------------------------------------------------------------

Running(p)  == proc[p].state = "run"
Children(p) == {c \in Pids : proc[c].state # "free" /\ proc[c].parent = p}
Zombies(p)  == {c \in Children(p) : proc[c].state = "zombie"}

\* p has a step of kind op before it.
At(p, op) == Running(p) /\ proc[p].todo # << >> /\ Head(proc[p].todo).op = op
Now(p)    == Head(proc[p].todo)

\* The process record of p after its step, going on with steps.
Then(p, steps) == [proc[p] EXCEPT !.todo = steps \o Tail(@)]
Goes(p, steps) == proc' = [proc EXCEPT ![p] = Then(p, steps)]

Calls(p) ==
  /\ At(p, "call")
  /\ \/ Goes(p, Now(p).good) /\ UNCHANGED bad
     \/ Goes(p, Now(p).bad) /\ bad' = TRUE
  /\ UNCHANGED <<prog, helper, writers, reaper, log>>

Misses(p) ==
  /\ At(p, "miss")
  /\ Goes(p, << >>)
  /\ bad' = TRUE
  /\ UNCHANGED <<prog, helper, writers, reaper, log>>

Picks(p) ==
  /\ At(p, "pick")
  /\ Goes(p, Now(p).good) \/ Goes(p, Now(p).bad)
  /\ UNCHANGED <<prog, helper, writers, reaper, log, bad>>

Holds(p, cond) ==
  CASE cond = "ok"      -> proc[p].ok
    [] cond = "helper"  -> helper
    [] cond = "busy"    -> writers # {}
    [] cond = "adopted" -> proc[p].parent = Main

Branches(p) ==
  /\ At(p, "if")
  /\ Goes(p, IF Holds(p, Now(p).cond) THEN Now(p).yes ELSE Now(p).no)
  /\ UNCHANGED <<prog, helper, writers, reaper, log, bad>>

Assigns(p) ==
  /\ At(p, "assign")
  /\ proc' = [proc EXCEPT ![p] = [Then(p, << >>) EXCEPT !.ok = Now(p).val]]
  /\ UNCHANGED <<prog, helper, writers, reaper, log, bad>>

Says(p) ==
  /\ At(p, "say")
  /\ proc' = [proc EXCEPT ![p] = [Then(p, << >>) EXCEPT !.buf = @ + 1]]
  /\ UNCHANGED <<prog, helper, writers, reaper, log, bad>>

\* open(TEST_APP, O_WRONLY), close and prctl(PR_SET_CHILD_SUBREAPER).
Opens(p) ==
  /\ At(p, "open")
  /\ Goes(p, << >>)
  /\ writers' = IF helper THEN writers \cup {p} ELSE writers
  /\ UNCHANGED <<prog, helper, reaper, log, bad>>

Closes(p) ==
  /\ At(p, "close")
  /\ Goes(p, << >>)
  /\ writers' = writers \ {p}
  /\ UNCHANGED <<prog, helper, reaper, log, bad>>

Reaps(p) ==
  /\ At(p, "subreaper")
  /\ Goes(p, << >>)
  /\ reaper' = TRUE
  /\ UNCHANGED <<prog, helper, writers, log, bad>>

-----------------------------------------------------------------------------
(* Processes                                                               *)

\* The child gets a copy of everything, the unwritten output included.
Child(p) ==
  [Then(p, Now(p).child) EXCEPT !.parent = p]

Forks(p) ==
  /\ At(p, "fork")
  /\ \/ \E c \in Pids :
          /\ proc[c].state = "free"
          /\ \A d \in 1 .. (c - 1) : proc[d].state # "free"
          /\ proc' = [proc EXCEPT ![p] = Then(p, Now(p).parent), ![c] = Child(p)]
          /\ UNCHANGED bad
     \/ Goes(p, Now(p).failed) /\ bad' = TRUE
  /\ UNCHANGED <<prog, helper, writers, reaper, log>>

\* What follows a wait for a child that ended with status s.
Answer(p, s) ==
  CASE s = "zero" -> Now(p).zero [] s = "other" -> Now(p).other [] s = "signal" -> Now(p).signal

\* Slip: a wait without children blocks.
WaitsForever(p) ==
  /\ At(p, "wait")
  /\ \E c \in Zombies(p) :
       proc' = [proc EXCEPT ![p] = Then(p, Answer(p, proc[c].status)), ![c] = Free]
  /\ UNCHANGED <<prog, helper, writers, reaper, log, bad>>

\* Any child will do: no program has two with different meanings.
Waits(p) ==
  /\ At(p, "wait")
  /\ \/ \E c \in Zombies(p) :
          proc' = [proc EXCEPT ![p] = Then(p, Answer(p, proc[c].status)), ![c] = Free]
     \/ Children(p) = {} /\ Goes(p, Now(p).none)
  /\ UNCHANGED <<prog, helper, writers, reaper, log, bad>>

Becomes(p) ==
  /\ At(p, "become")
  /\ proc' = [proc EXCEPT ![p] = [@ EXCEPT !.todo = Now(p).steps, !.ok = TRUE, !.buf = 0]]
  /\ UNCHANGED <<prog, helper, writers, reaper, log, bad>>

\* Who gets the children of p when it ends; a zombie that init gets is gone.
NewParent(p) == IF reaper /\ p # Main /\ Running(Main) THEN Main ELSE 0

Orphaned(p, c) ==
  IF NewParent(p) = 0 /\ proc[c].state = "zombie" THEN Free
  ELSE [proc[c] EXCEPT !.parent = NewParent(p)]

\* Slip: a zombie keeps the output it has written.
RemainsFull(p, s) ==
  IF p = Main \/ (proc[p].parent # 0 /\ Running(proc[p].parent))
  THEN [proc[p] EXCEPT !.state = "zombie", !.todo = << >>, !.ok = TRUE, !.status = s]
  ELSE Free

\* p remains as a zombie while its parent may wait for it.
Remains(p, s) ==
  IF p = Main \/ (proc[p].parent # 0 /\ Running(proc[p].parent))
  THEN [proc[p] EXCEPT !.state = "zombie", !.todo = << >>, !.ok = TRUE, !.buf = 0, !.status = s]
  ELSE Free

\* The end of p with status s, which writes its buffer unless a signal kills it.
Finish(p, s) ==
  /\ proc' = [q \in Pids |-> IF q = p THEN Remains(p, s)
                             ELSE IF q \in Children(p) THEN Orphaned(p, q)
                             ELSE proc[q]]
  /\ log' = IF s = "signal" THEN log ELSE log + proc[p].buf
  /\ writers' = writers \ {p}
  /\ UNCHANGED <<prog, helper, reaper, bad>>

Ends(p) == At(p, "end") /\ Finish(p, Now(p).status)

\* main returns; the status of a "void main" is whatever is in the register.
Returns(p) ==
  /\ Running(p) /\ proc[p].todo = << >>
  /\ Finish(p, "zero") \/ Finish(p, "other")

-----------------------------------------------------------------------------

\* There is none for Spin: a process in that loop neither ends nor changes anything.
Step(p) ==
  \/ Calls(p) \/ Misses(p) \/ Picks(p) \/ Branches(p) \/ Assigns(p) \/ Says(p)
  \/ Opens(p) \/ Closes(p) \/ Reaps(p)
  \/ Forks(p) \/ Waits(p) \/ Becomes(p) \/ Ends(p) \/ Returns(p)

Next == \E p \in Pids : Step(p)

Spec == Init /\ [][Next]_vars

\* The kernel runs every process that can run.
FairSpec == Spec /\ \A p \in Pids : WF_vars(Step(p))

-----------------------------------------------------------------------------
(* Properties                                                              *)

Ended == ~Running(Main)

\* Types, and what has ended holds nothing: neither steps nor unwritten output.
TypeOK ==
  /\ prog \in Programs /\ helper \in BOOLEAN /\ reaper \in BOOLEAN /\ bad \in BOOLEAN
  /\ log \in Nat
  /\ \A p \in Pids :
       /\ proc[p].state \in {"free", "run", "zombie"} /\ proc[p].ok \in BOOLEAN
       /\ proc[p].buf \in Nat /\ proc[p].status \in Statuses
       /\ proc[p].state # "run" => proc[p].todo = << >> /\ proc[p].buf = 0

\* Programs whose verdict is not about all they call: one verdict per case (close01, mmap18,
\* munmap03, write05), failures that are printed only, or found by a child whose status
\* nobody asks for (execve05, execve06, prctl08, prctl10).
Lenient ==
  {"close01", "execve05", "execve06", "mmap02", "mmap03", "mmap04", "mmap10", "mmap12",
   "mmap14", "mmap18", "mmap19", "munmap03", "openat03", "ppoll01", "prctl02",
   "prctl08", "prctl10", "sched_getaffinity01", "write05", "write06"}

\* Programs that may say nothing although every call answers as they expect: they never
\* print the text (helpers, drafts, misspelt texts), depend on undefined behaviour, or
\* take a child's SIGSEGV for an error (mprotect02).
Mute ==
  {"eventfd01", "execve01", "execve01_child", "execve02", "execve06_child", "execve_child",
   "faccessat01", "fcntl06", "fcntl12", "mmap01", "mmap11", "mprotect02", "openat01",
   "openat02", "openat02_child", "prctl06", "prctl06_execve", "prctl07", "read02",
   "sched_setattr01", "write06"}

\* Programs that may end before a child of theirs, and those whose child may then still
\* write "test succeeded".
Detaching ==
  {"execve01", "execve02", "execve04", "execve05", "execve06", "fcntl12", "mmap10", "prctl08"}
Talkers == {"execve02", "execve05", "prctl08"}

\* "test succeeded" in the log means that every call the program looked at before its verdict,
\* in all its processes, has answered as it expects: no failure is forgotten, and no
\* success comes out of a buffer that a fork has copied.
SuccessMeansWorks == Ended /\ log > 0 /\ prog \notin Lenient => ~bad

\* README.md: 'The test should output "test succeeded" if it works'.  Whatever the order in
\* which its processes run, die and are waited for, the text reaches the log before main ends.
WorksMeansSuccess == Ended /\ ~bad /\ prog \notin Mute => log > 0

\* Nothing is added to the verdict after main has ended, that is, after brain.py has
\* read the log and gone on to the next test.
NoLateSuccess == [][Ended /\ prog \notin Talkers => log' = log]_vars

\* The program with a loop that need not end (mprotect02.c:27-30).
Endless == {"mprotect02"}

\* Every process of every other program ends, whatever fails: no wait is for a child that
\* cannot end, and no child is left behind that does not.
AllEnd == prog \in Endless \/ <>(\A p \in Pids : ~Running(p))

\* What Brain assumes of a test holds of these programs, with Detaching for its Detached:
\* all others end after their children, and all but mprotect02 end.
Env == INSTANCE TestEnv WITH
         Detached <- Detaching,
         main <- Running(Main),
         kids <- \E p \in Pids \ {Main} : Running(p),
         said <- log > 0

ImplementsTestEnv == Env!EnvSafety /\ (prog \in Endless \/ Env!EnvFair)

\* The sentence of README.md without the exceptions.
OutputsIfWorks == Ended /\ ~bad => log > 0

=============================================================================

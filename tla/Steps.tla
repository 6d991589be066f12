------------------------------- MODULE Steps -------------------------------
(***************************************************************************)
(* The vocabulary in which PortedTests writes the test programs down.  A   *)
(* program is the sequence of the steps it still has to take; a step that  *)
(* branches holds the steps of its branches, and what follows the step is  *)
(* taken after either branch.  TestRun says what each step does.           *)
(*                                                                         *)
(* Kept: every system call whose outcome the program looks at, what it     *)
(* then does, every fork, wait, exec and exit, the flag the verdict hangs  *)
(* on and the text "test succeeded".  Left out: arguments, other output,   *)
(* calls whose outcome the program ignores, and those with which it cleans *)
(* up after its verdict.                                                   *)
(***************************************************************************)
EXTENDS Integers, Sequences

\* A call (or a test of what calls have done) that answers as the program expects or not.
Call(good, bad) == [op |-> "call", good |-> good, bad |-> bad]

\* A value the program never set, or undefined behaviour: either branch.
Pick(one, other) == [op |-> "pick", good |-> one, bad |-> other]

\* A branch on "ok" (the program's flag), "helper" (the program named in an exec exists),
\* "busy" (somebody has it open for writing), "adopted" (getppid is the main process).
If(cond, yes, no) == [op |-> "if", cond |-> cond, yes |-> yes, no |-> no]

Assign(v) == [op |-> "assign", val |-> v]       \* ok = v
Say  == [op |-> "say"]                          \* printf("... test succeeded ...")
Miss == [op |-> "miss"]                         \* a call that can only fail here
Spin == [op |-> "spin"]                         \* a loop without an end: no step follows

\* fork: what the child does, what the parent does, and what the caller does if it fails.
Fork(child, parent, failed) ==
  [op |-> "fork", child |-> child, parent |-> parent, failed |-> failed]

\* wait for any child: what follows an exit with 0, another exit, a death by signal, and
\* an error because there is no child.
Wait(zero, other, signal, none) ==
  [op |-> "wait", zero |-> zero, other |-> other, signal |-> signal, none |-> none]

Become(steps) == [op |-> "become", steps |-> steps]     \* an execve that succeeds

\* How a process ends: exit(0), exit with another status, death by a signal.
Statuses    == {"zero", "other", "signal"}
End(status) == [op |-> "end", status |-> status]

OpenHelper  == [op |-> "open"]                  \* open(TEST_APP, O_WRONLY)
CloseHelper == [op |-> "close"]
SubReaper   == [op |-> "subreaper"]             \* prctl(PR_SET_CHILD_SUBREAPER, 1)

-----------------------------------------------------------------------------
(* Idioms of the ported tests                                              *)

Exit == End("zero")
Die  == End("signal")
Fail == Assign(FALSE)

Need  == Call(<< >>, <<Exit>>)    \* a failure ends the program without a verdict
Check == Call(<< >>, <<Fail>>)    \* a failure clears the flag
Note  == Call(<< >>, << >>)       \* a failure is printed and forgotten
Touch == Call(<< >>, <<Die>>)     \* an access to mapped memory
Undefined == Pick(<< >>, <<Die>>) \* undefined behaviour that may crash

Verdict == If("ok", <<Say>>, << >>)

Rep(n, steps) ==
  [k \in 1 .. (n * Len(steps)) |-> steps[((k - 1) % Len(steps)) + 1]]

Needs(n) == Rep(n, <<Need>>)

\* n calls in a row, given up at the first that fails.
Chain(n, then, else) ==
  LET c[k \in 0 .. n] == IF k = 0 THEN then ELSE <<Call(c[k - 1], else)>> IN c[n]

\* One case of a table: n tests, any failure of which clears the flag.
Case(n) == Chain(n, << >>, <<Fail>>)

\* execve of a program that the repository builds next to the test, if somebody has.
Exec(steps, failed) ==
  If("helper", <<Call(<<Become(steps)>>, failed)>>, <<Miss>> \o failed)

=============================================================================

------------------------------- MODULE Tally -------------------------------
(***************************************************************************)
(* What brain.py promises to runtest, without compilers, processes or log  *)
(* files: every file of every folder is counted once, in one category, in  *)
(* its own folder; results are published only when nothing is left, and a  *)
(* run that breaks off publishes nothing.                                  *)
(***************************************************************************)
EXTENDS Integers, FiniteSets

CONSTANTS Syscalls, Files

VARIABLES
  todo,     \* todo[s]: the files of folder s not counted yet
  tally,    \* tally[s]: the numbers of folder s
  phase

tallyVars == <<todo, tally, phase>>

Categories == {"pass", "fail", "brok"}

NothingCounted == [c \in Categories |-> 0]

TallyInit ==
  /\ todo \in [Syscalls -> SUBSET Files]
  /\ tally = [s \in Syscalls |-> NothingCounted]
  /\ phase = "counting"

CountOne(s, x, c) ==
  /\ phase = "counting" /\ x \in todo[s]
  /\ todo' = [todo EXCEPT ![s] = @ \ {x}]
  /\ tally' = [tally EXCEPT ![s][c] = @ + 1]
  /\ UNCHANGED phase

\* A folder that is not ported: all of its files are broken.
CountFolder(s) ==
  /\ phase = "counting" /\ tally[s] = NothingCounted
  /\ tally' = [tally EXCEPT ![s]["brok"] = Cardinality(todo[s])]
  /\ todo' = [todo EXCEPT ![s] = {}]
  /\ UNCHANGED phase

Publish ==
  /\ phase = "counting" /\ \A s \in Syscalls : todo[s] = {}
  /\ phase' = "published"
  /\ UNCHANGED <<todo, tally>>

Abort ==
  /\ phase = "counting"
  /\ phase' = "aborted"
  /\ UNCHANGED <<todo, tally>>

TallyNext ==
  \/ \E s \in Syscalls, x \in Files, c \in Categories : CountOne(s, x, c)
  \/ \E s \in Syscalls : CountFolder(s)
  \/ Publish
  \/ Abort

TallySpec == TallyInit /\ [][TallyNext]_tallyVars

=============================================================================

------------------------------ MODULE RunTest ------------------------------
(***************************************************************************)
(* runtest 8-81 over several invocations: the token, docker build, docker  *)
(* run, the file tmp.txt between the container and runtest, the log files  *)
(* cut out of it, and the rows of numbers read for the plot.               *)
(*                                                                         *)
(* The image test:latest holds the out.txt of the revision of ./syscalls   *)
(* it was built from; brain.py has run during the build.  An out.txt is    *)
(* modelled by the tests in the order in which they ran, each with its     *)
(* verdict: "pass", "fail", "nobin" (no binary) or "bin" (a log that does  *)
(* not decode).  Each of them contributes its name to the logs; only       *)
(* "fail" adds the text of the test's log and a DIVIDER.                   *)
(*                                                                         *)
(* subprocess.run raises nothing when docker fails; an interrupt while it  *)
(* waits for docker does, and ends in the bare except of lines 29-31.      *)
(***************************************************************************)
EXTENDS Integers, FiniteSets

CONSTANTS
  Tests,      \* the tests; their names are distinct
  Verdicts,   \* a subset of the four verdicts
  None, Empty,
  MaxRev,     \* bound: edits of ./syscalls
  MaxRuns     \* bound: invocations of runtest

ASSUME RunTestAssumption ==
  /\ IsFiniteSet(Tests) /\ None \notin Tests /\ Empty # None
  /\ Verdicts \subseteq {"pass", "fail", "nobin", "bin"}
  /\ MaxRev \in Nat /\ MaxRuns \in Nat

VARIABLES
  rev,       \* revision of ./syscalls on the host
  image,     \* test:latest: [rev, ran], None if it was never built
  tmp,       \* tmp.txt: an image's output, Empty, or None if there is no file
  content,   \* what runtest has read from tmp.txt
  logsDir,   \* is there a directory ./logs
  logs,      \* logs[t]: [rev, of] if ./logs/t.log holds the text of test `of', else None
  graphs,    \* the option -g
  token,     \* the argument of -t: "given", "" or None
  wanted,    \* revision the last docker build was asked to build
  built,     \* did that build succeed
  reported,  \* revision of the last results runtest has worked through, -1 before
  outcome,   \* how the last invocation ended
  pc, runs

hostVars  == <<rev, image, logsDir>>
argVars   == <<graphs, token, runs>>
buildVars == <<wanted, built>>
vars      == <<hostVars, tmp, content, logs, argVars, buildVars, reported, outcome, pc>>

N == Cardinality(Tests)


\* What brain.py may print for a tree: all tests, in the order of its listings.
Orders  == {o \in [1 .. N -> Tests] : \A k, m \in 1 .. N : o[k] = o[m] => k = m}
Results == {[k \in 1 .. N |-> [test |-> o[k], verdict |-> v[o[k]]]] :
              o \in Orders, v \in [Tests -> Verdicts]}

Init ==
  /\ rev = 0 /\ image = None /\ logsDir \in BOOLEAN
  /\ tmp = None /\ content = None /\ logs = [t \in Tests |-> None]
  /\ graphs = FALSE /\ token = None /\ runs = 0
  /\ wanted = -1 /\ built = FALSE /\ reported = -1 /\ outcome = "none" /\ pc = "idle"

Exit(how) == pc' = "idle" /\ outcome' = how

-----------------------------------------------------------------------------
(* runtest                                                                 *)

\* Without -t the token is None, which is not "" and cannot be added to a string.
Invoke(t, g) ==
  /\ pc = "idle" /\ runs < MaxRuns
  /\ runs' = runs + 1 /\ graphs' = g /\ token' = t
  /\ IF t = "" THEN Exit("invalid token")
     ELSE IF t = None THEN Exit("TypeError")
     ELSE pc' = "build" /\ outcome' = "none"
  /\ UNCHANGED <<hostVars, tmp, content, logs, buildVars, reported>>

\* Slip: the context sent to docker is that of the image there is.
BuiltFromOld == IF image = None THEN rev ELSE image.rev

BuiltFrom == rev

\* docker build: test:latest is replaced when every step succeeds, brain.py's included.
\* The return code is not looked at.
Build(ran) ==
  /\ pc = "build"
  /\ \/ built' = TRUE /\ image' = [rev |-> BuiltFrom, ran |-> ran]
     \/ built' = FALSE /\ image' = image
  /\ wanted' = rev /\ pc' = "run"
  /\ UNCHANGED <<rev, logsDir, tmp, content, logs, argVars, reported, outcome>>

\* docker run -it: prints nothing when there is no image or no terminal.
Prints == {Empty, IF image = None THEN Empty ELSE image}

\* Slip: tmp.txt is written only if there is something to write.
RedirectedIfAny(out) == IF out = Empty /\ tmp # None THEN tmp ELSE out

\* Slip: no file is made of no output.
NoFileOfNothing(out) == IF out = Empty THEN None ELSE out

\* "> tmp.txt" makes the file, or empties the one that is there.
Redirected(out) == out

Run ==
  /\ pc = "run"
  /\ \E out \in Prints : tmp' = Redirected(out)
  /\ pc' = "read"
  /\ UNCHANGED <<hostVars, content, logs, argVars, buildVars, reported, outcome>>

\* An interrupt, or a shell that cannot be started, during docker build or docker run: the
\* except prints a message and exits.  It leaves the image as it is, and tmp.txt as it was
\* or with what had been printed.
Except ==
  /\ \/ pc = "build" /\ wanted' = rev /\ built' = FALSE /\ tmp' = tmp
     \/ pc = "run" /\ tmp' \in {tmp} \cup Prints /\ UNCHANGED buildVars
  /\ Exit("error")
  /\ UNCHANGED <<hostVars, content, logs, argVars, reported>>

\* An interrupt before line 46: no except, and tmp.txt stays.
Interrupt ==
  /\ pc = "read" /\ Exit("KeyboardInterrupt")
  /\ UNCHANGED <<hostVars, tmp, content, logs, argVars, buildVars, reported>>

ReadTmp ==
  /\ pc = "read"
  /\ content' = tmp /\ tmp' = None
  /\ pc' = "logs"
  /\ UNCHANGED <<hostVars, logs, argVars, buildVars, reported, outcome>>

Fails(ran) == {k \in DOMAIN ran : ran[k].verdict = "fail"}

\* Slip: the first chunk is taken for a part of the numbers.
HeadsTail(ran) == {k + 1 : k \in Fails(ran)} \cap DOMAIN ran

\* The tests whose name is the first line of a chunk.
Heads(ran) == ({1} \cup {k + 1 : k \in Fails(ran)}) \cap DOMAIN ran

\* The test whose text is in the chunk with head h: the first one from h on that fails.
TextIn(ran, h) ==
  IF \E k \in Fails(ran) : k >= h
    THEN ran[CHOOSE k \in Fails(ran) : k >= h /\ \A m \in Fails(ran) : m >= h => k <= m].test
    ELSE None

LogOf(t) ==
  IF \E h \in Heads(content.ran) : content.ran[h].test = t
    THEN [rev |-> content.rev,
          of  |-> TextIn(content.ran, CHOOSE h \in Heads(content.ran) : content.ran[h].test = t)]
    ELSE logs[t]

\* Every chunk goes to the file named after its first line; ./logs is never created.
WriteLogs ==
  /\ pc = "logs"
  /\ IF content = Empty THEN pc' = "numbers" /\ UNCHANGED <<logs, outcome>>
     ELSE IF ~logsDir /\ Heads(content.ran) # {}
       THEN Exit("FileNotFoundError") /\ logs' = logs
     ELSE /\ logs' = [t \in Tests |-> LogOf(t)]
          /\ pc' = "numbers" /\ outcome' = outcome
  /\ UNCHANGED <<hostVars, tmp, content, argVars, buildVars, reported>>

\* Without -g runtest ends here; else it reads three lines of numbers.
ReadNumbers ==
  /\ pc = "numbers"
  /\ IF content = Empty
       THEN reported' = reported /\ Exit(IF graphs THEN "IndexError" ELSE "done")
       ELSE reported' = content.rev /\ Exit("done")
  /\ UNCHANGED <<hostVars, tmp, content, logs, argVars, buildVars>>

-----------------------------------------------------------------------------
(* The user                                                                *)

Edit ==
  /\ rev < MaxRev
  /\ rev' = rev + 1
  /\ UNCHANGED <<image, logsDir, tmp, content, logs, argVars, buildVars, reported, outcome, pc>>

MakeLogsDir ==
  /\ ~logsDir /\ logsDir' = TRUE
  /\ UNCHANGED <<rev, image, tmp, content, logs, argVars, buildVars, reported, outcome, pc>>

-----------------------------------------------------------------------------

Script ==
  \/ \E ran \in Results : Build(ran)
  \/ Run \/ Except \/ Interrupt \/ ReadTmp \/ WriteLogs \/ ReadNumbers

User == Edit \/ MakeLogsDir \/ \E t \in {"given", "", None}, g \in BOOLEAN : Invoke(t, g)

Next == Script \/ User

Spec == Init /\ [][Next]_vars

-----------------------------------------------------------------------------
(* Properties                                                              *)

Outputs == [rev : 0 .. MaxRev, ran : Results]

\* Types; when runtest opens tmp.txt there is one, and what it works through was read.
TypeOK ==
  /\ rev \in 0 .. MaxRev /\ image \in Outputs \cup {None} /\ logsDir \in BOOLEAN
  /\ tmp \in Outputs \cup {Empty, None} /\ content \in Outputs \cup {Empty, None}
  /\ pc = "read" => tmp # None
  /\ pc \in {"logs", "numbers"} => content # None
  /\ logs \in [Tests -> [rev : 0 .. MaxRev, of : Tests \cup {None}] \cup {None}]
  /\ reported \in -1 .. MaxRev /\ wanted \in -1 .. MaxRev

\* Cutting the output at the dividers loses no error: the text of every failing test is
\* in a log file of the same revision, if not under its own name.
NoErrorLost ==
  pc = "numbers" /\ content # Empty =>
    \A k \in Fails(content.ran) :
      \E t \in Tests : logs[t] = [rev |-> content.rev, of |-> content.ran[k].test]

\* After a build that succeeded and a container that printed, the results are those of
\* the tree that was built, and of no older image.
FreshIfBuilt ==
  outcome = "done" /\ built /\ content # Empty => reported = wanted

\* The lines worked through are those the container of this invocation has printed: a
\* tmp.txt left behind by an invocation that was interrupted is not taken for its output.
ReadsOwnOutput ==
  pc \in {"logs", "numbers"} /\ content # Empty => content = image

\* runtest 33 prints "Build successful" before the results: those of the tree it was
\* asked to build.
FreshReport == outcome = "done" /\ content # Empty => reported = wanted

\* README.md 10: "Logs are found in the appropriately named folder, and contain any error
\* messages given by the tests".  The log of a failing test bears its name.
LogsNamed ==
  pc = "numbers" /\ content # Empty =>
    \A k \in Fails(content.ran) :
      logs[content.ran[k].test] = [rev |-> content.rev, of |-> content.ran[k].test]

=============================================================================

--------------------------- MODULE TestRunProofs ---------------------------
(***************************************************************************)
(* Proofs about the processes of a test, for every program, every number   *)
(* of processes and rounds and every interleaving: the fields keep their   *)
(* types, the verdict in log.txt is true, is written when it is due and    *)
(* stands when the test has ended, and a test does what TestEnv allows it. *)
(*                                                                         *)
(* The verdicts rest on one invariant, Course, which has a part for each   *)
(* way the processes of a program depend on each other: they take turns    *)
(* (Turns), run side by side (Sides), say nothing (Dumb), or are the few   *)
(* processes of prctl03 (Phases), execve02 and execve04 (Trail).           *)
(***************************************************************************)
EXTENDS TestRun, ScriptProofs

Fields == {"state", "todo", "ok", "buf", "parent", "status"}

\* A process record.
IsRecord(r) == r = [x \in Fields |-> r[x]]

\* The process table is a table of records.
Shape == proc = [p \in Pids |-> proc[p]] /\ \A p \in Pids : IsRecord(proc[p])

\* Main is nobody's child and never leaves its pid to another process; a free pid has no
\* parent.
MainStays ==
  /\ proc[Main].parent = 0 /\ proc[Main].state # "free"
  /\ \A p \in Pids : proc[p].state = "free" => proc[p].parent = 0

\* A parent is a process that runs, a zombie is one somebody can wait for (or main), and a
\* process that has ended keeps no file open.
TableOK ==
  /\ writers \subseteq {p \in Pids : Running(p)}
  /\ \A p \in Pids :
       /\ proc[p].parent # 0 => proc[p].parent \in Pids \ {p} /\ Running(proc[p].parent)
       /\ proc[p].state = "zombie" => p = Main \/ proc[p].parent # 0

IInv == Shape /\ MainStays /\ TableOK

\* Main is one of the pids, and 0 is not.
LEMMA PidFacts == Main \in Pids /\ 0 \notin Pids
  BY MaxProcsAssumption DEF Main, Pids

\* A free pid has the record Free.
LEMMA FreeRecord == IsRecord(Free) /\ Free.state = "free" /\ Free.parent = 0
  BY DEF Free, IsRecord, Fields

\* Going on with other steps changes neither the state nor the parent of a process.
LEMMA ThenRecord ==
  ASSUME Shape, NEW p \in Pids, NEW steps
  PROVE  /\ IsRecord(Then(p, steps))
         /\ Then(p, steps).state = proc[p].state /\ Then(p, steps).parent = proc[p].parent
  <1>1. IsRecord(proc[p])
    BY DEF Shape
  <1> QED BY <1>1 DEF Then, IsRecord, Fields

\* A step in which p only changes its own record, and stays what it is, keeps the table.
LEMMA OwnStep ==
  ASSUME IInv, NEW p \in Pids, Running(p), NEW r, IsRecord(r),
         r.state = "run", r.parent = proc[p].parent,
         proc' = [proc EXCEPT ![p] = r], writers' \subseteq writers \cup {p}
  PROVE  IInv'
  <1>1. \A q \in Pids : proc'[q] = IF q = p THEN r ELSE proc[q]
    BY DEF IInv, Shape
  <1>2. \A q \in Pids : /\ proc'[q].state = proc[q].state
                        /\ proc'[q].parent = proc[q].parent /\ IsRecord(proc'[q])
    BY <1>1 DEF Running, IInv, Shape
  <1>3. Shape'
    <2>1. proc' = [q \in Pids |-> proc'[q]]
      BY DEF IInv, Shape
    <2> QED BY <1>2, <2>1 DEF Shape, IsRecord
  <1>4. MainStays'
    BY <1>2, PidFacts DEF IInv, MainStays
  <1>5. TableOK'
    <2>1. writers' \subseteq {q \in Pids : proc'[q].state = "run"}
      BY <1>2 DEF IInv, TableOK, Running
    <2> QED BY <1>2, <2>1 DEF IInv, TableOK, Running
  <1> QED BY <1>3, <1>4, <1>5 DEF IInv

\* So does any step that goes on with the program.
LEMMA GoesKeeps ==
  ASSUME IInv, NEW p \in Pids, Running(p), NEW steps, Goes(p, steps),
         writers' \subseteq writers \cup {p}
  PROVE  IInv'
  <1>1. /\ IsRecord(Then(p, steps))
        /\ Then(p, steps).state = "run" /\ Then(p, steps).parent = proc[p].parent
    BY ThenRecord DEF IInv, Running
  <1> QED BY <1>1, OwnStep DEF Goes

\* A fork adds a child of p at a free pid.
LEMMA ForkKeeps ==
  ASSUME IInv, NEW p \in Pids, At(p, "fork"), NEW c \in Pids, proc[c].state = "free",
         proc' = [proc EXCEPT ![p] = Then(p, Now(p).parent), ![c] = Child(p)],
         writers' = writers
  PROVE  IInv'
  <1> DEFINE r == Then(p, Now(p).parent)
             s == Child(p)
  <1>1. Running(p) /\ c # p /\ c # Main
    BY DEF At, Running, IInv, MainStays
  <1>2. IsRecord(r) /\ r.state = "run" /\ r.parent = proc[p].parent
    BY <1>1, ThenRecord DEF IInv, Running
  <1>3. IsRecord(s) /\ s.state = "run" /\ s.parent = p
    <2>1. IsRecord(Then(p, Now(p).child)) /\ Then(p, Now(p).child).state = "run"
      BY <1>1, ThenRecord DEF IInv, Running
    <2> QED BY <2>1 DEF Child, IsRecord, Fields
  <1> HIDE DEF r, s
  <1>4. /\ proc' = [q \in Pids |-> proc'[q]]
        /\ \A q \in Pids : proc'[q] = IF q = c THEN s ELSE IF q = p THEN r ELSE proc[q]
    BY <1>1 DEF IInv, Shape, r, s
  <1>5. Shape'
    BY <1>2, <1>3, <1>4 DEF IInv, Shape, IsRecord
  <1>6. \A q \in Pids : IF q = c THEN proc'[q].state = "run" /\ proc'[q].parent = p
                        ELSE proc'[q].state = proc[q].state /\ proc'[q].parent = proc[q].parent
    BY <1>1, <1>2, <1>3, <1>4, ZenonT(60) DEF Running
  <1>7. MainStays'
    BY <1>1, <1>6, PidFacts DEF IInv, MainStays
  <1>8. \A q \in Pids : proc[q].state = "run" => proc'[q].state = "run"
    BY <1>6 DEF Running
  <1>9. TableOK'
    <2>1. writers' \subseteq {q \in Pids : proc'[q].state = "run"}
      BY <1>8 DEF IInv, TableOK, Running
    <2>2. ASSUME NEW q \in Pids
          PROVE  /\ proc'[q].parent # 0 => proc'[q].parent \in Pids \ {q} /\ proc'[proc'[q].parent].state = "run"
                 /\ proc'[q].state = "zombie" => q = Main \/ proc'[q].parent # 0
      <3>1. CASE q = c
        BY <1>1, <1>6, <1>8, <3>1 DEF Running
      <3>2. CASE q # c
        <4>1. proc'[q].state = proc[q].state /\ proc'[q].parent = proc[q].parent
          BY <1>6, <3>2
        <4> QED BY <1>8, <4>1, ZenonT(60) DEF IInv, TableOK, Running
      <3> QED BY <3>1, <3>2
    <2> QED BY <2>1, <2>2 DEF TableOK, Running
  <1> QED BY <1>5, <1>7, <1>9 DEF IInv

\* A wait frees the pid of a zombie, which is nobody's parent.
LEMMA WaitKeeps ==
  ASSUME IInv, NEW p \in Pids, Running(p), NEW c \in Zombies(p), NEW steps,
         proc' = [proc EXCEPT ![p] = Then(p, steps), ![c] = Free],
         writers' = writers
  PROVE  IInv'
  <1> DEFINE r == Then(p, steps)
  <1>1. c \in Pids /\ proc[c].state = "zombie" /\ proc[c].parent = p /\ c # p /\ c # Main
    BY PidFacts DEF Zombies, Children, Running, IInv, MainStays
  <1>2. IsRecord(r) /\ r.state = "run" /\ r.parent = proc[p].parent
    BY ThenRecord DEF IInv, Running
  <1> HIDE DEF r
  <1>3. /\ proc' = [q \in Pids |-> proc'[q]]
        /\ \A q \in Pids : proc'[q] = IF q = c THEN Free ELSE IF q = p THEN r ELSE proc[q]
    BY <1>1 DEF IInv, Shape, r
  <1>4. Shape'
    BY <1>2, <1>3, FreeRecord DEF IInv, Shape, IsRecord
  <1>5. \A q \in Pids : IF q = c THEN proc'[q].state = "free" /\ proc'[q].parent = 0
                        ELSE proc'[q].state = proc[q].state /\ proc'[q].parent = proc[q].parent
    BY <1>1, <1>2, <1>3, FreeRecord, ZenonT(60) DEF Running
  <1>6. MainStays'
    <2>1. proc'[Main].parent = 0 /\ proc'[Main].state # "free"
      BY <1>1, <1>5, PidFacts DEF IInv, MainStays
    <2>2. \A q \in Pids : proc'[q].state = "free" => proc'[q].parent = 0
      BY <1>5 DEF IInv, MainStays
    <2> QED BY <2>1, <2>2 DEF MainStays
  <1>7. \A q \in Pids : proc[q].state = "run" => proc'[q].state = "run"
    BY <1>1, <1>5 DEF Running
  <1>8. TableOK'
    <2>1. writers' \subseteq {q \in Pids : proc'[q].state = "run"}
      BY <1>7 DEF IInv, TableOK, Running
    <2>2. ASSUME NEW q \in Pids
          PROVE  /\ proc'[q].parent # 0 => proc'[q].parent \in Pids \ {q} /\ proc'[proc'[q].parent].state = "run"
                 /\ proc'[q].state = "zombie" => q = Main \/ proc'[q].parent # 0
      <3>1. CASE q = c
        BY <1>5, <3>1
      <3>2. CASE q # c
        <4>1. proc'[q].state = proc[q].state /\ proc'[q].parent = proc[q].parent
          BY <1>5, <3>2
        <4> QED BY <1>7, <4>1 DEF IInv, TableOK, Running
      <3> QED BY <3>1, <3>2
    <2> QED BY <2>1, <2>2 DEF TableOK, Running
  <1> QED BY <1>4, <1>6, <1>8 DEF IInv

\* The end of a process gives its children to another that runs, or to init.
LEMMA FinishKeeps ==
  ASSUME IInv, NEW p \in Pids, Running(p), NEW s, Finish(p, s)
  PROVE  IInv'
  <1> DEFINE n == NewParent(p)
             stays == p = Main \/ proc[p].parent # 0
  <1>1. n = 0 \/ (n = Main /\ n # p /\ Running(Main))
    BY DEF NewParent
  <1>2. \A q \in Pids : IsRecord(proc[q])
    BY DEF IInv, Shape
  <1>3. \A q \in Children(p) : q \in Pids /\ q # p /\ q # Main /\ proc[q].parent = p
    BY PidFacts DEF Children, IInv, MainStays, TableOK
  <1>4. /\ IsRecord(Remains(p, s))
        /\ Remains(p, s).state = IF stays THEN "zombie" ELSE "free"
        /\ Remains(p, s).parent = IF stays THEN proc[p].parent ELSE 0
    <2>1. p = Main \/ (proc[p].parent # 0 /\ Running(proc[p].parent)) <=> stays
      BY DEF IInv, TableOK
    <2>2. CASE stays
      BY <1>2, <2>1, <2>2 DEF Remains, IsRecord, Fields
    <2>3. CASE ~stays
      BY <2>1, <2>3, FreeRecord DEF Remains
    <2> QED BY <2>2, <2>3
  <1>5. \A q \in Children(p) :
          /\ IsRecord(Orphaned(p, q))
          /\ Orphaned(p, q).state = IF n = 0 /\ proc[q].state = "zombie" THEN "free" ELSE proc[q].state
          /\ Orphaned(p, q).parent = n
    <2> SUFFICES ASSUME NEW q \in Children(p)
                 PROVE  /\ IsRecord(Orphaned(p, q))
                        /\ Orphaned(p, q).state =
                             IF n = 0 /\ proc[q].state = "zombie" THEN "free" ELSE proc[q].state
                        /\ Orphaned(p, q).parent = n
      OBVIOUS
    <2>1. IsRecord(proc[q])
      BY <1>2, <1>3
    <2>2. CASE n = 0 /\ proc[q].state = "zombie"
      BY <2>2, FreeRecord DEF Orphaned
    <2>3. CASE ~(n = 0 /\ proc[q].state = "zombie")
      <3> HIDE DEF n
      <3>1. Orphaned(p, q) = [proc[q] EXCEPT !.parent = n]
        BY <2>3 DEF Orphaned, n
      <3> QED BY <2>1, <2>3, <3>1 DEF IsRecord, Fields
    <2> QED BY <2>2, <2>3
  <1> HIDE DEF n
  <1>6. /\ proc' = [q \in Pids |-> proc'[q]]
        /\ \A q \in Pids : proc'[q] = IF q = p THEN Remains(p, s)
                                      ELSE IF q \in Children(p) THEN Orphaned(p, q)
                                      ELSE proc[q]
        /\ writers' = writers \ {p}
    BY DEF Finish
  <1>7. Shape'
    BY <1>2, <1>4, <1>5, <1>6 DEF Shape, IsRecord
  <1>8. proc'[p].state # "run" /\ proc'[p].parent = IF stays THEN proc[p].parent ELSE 0
    BY <1>4, <1>6
  <1>9. \A q \in Pids : q # p => (proc'[q].state = "run" <=> proc[q].state = "run")
    BY <1>5, <1>6 DEF Running
  <1>10. MainStays'
    <2>1. proc'[Main].parent = 0 /\ proc'[Main].state # "free"
      BY <1>3, <1>4, <1>6, PidFacts DEF IInv, MainStays
    <2>2. ASSUME NEW q \in Pids, proc'[q].state = "free" PROVE proc'[q].parent = 0
      <3>1. CASE q = p
        BY <1>4, <1>6, <2>2, <3>1
      <3>2. CASE q # p /\ q \in Children(p)
        <4>1. proc[q].state # "free"
          BY <3>2 DEF Children
        <4> QED BY <1>5, <1>6, <2>2, <3>2, <4>1
      <3>3. CASE q # p /\ q \notin Children(p)
        BY <1>6, <2>2, <3>3 DEF IInv, MainStays
      <3> QED BY <3>1, <3>2, <3>3
    <2> QED BY <2>1, <2>2 DEF MainStays
  <1>11. TableOK'
    <2>1. writers' \subseteq {q \in Pids : proc'[q].state = "run"}
      BY <1>6, <1>9 DEF IInv, TableOK, Running
    <2>2. ASSUME NEW q \in Pids
          PROVE  /\ proc'[q].parent # 0 => proc'[q].parent \in Pids \ {q} /\ proc'[proc'[q].parent].state = "run"
                 /\ proc'[q].state = "zombie" => q = Main \/ proc'[q].parent # 0
      <3>0. /\ proc[q].parent # 0 => proc[q].parent \in Pids \ {q} /\ proc[proc[q].parent].state = "run"
            /\ proc[q].state = "zombie" => q = Main \/ proc[q].parent # 0
        BY DEF IInv, TableOK, Running
      <3>1. CASE q = p
        BY <1>4, <1>6, <1>9, <3>0, <3>1
      <3>2. CASE q # p /\ q \in Children(p)
        <4>1. proc'[q].parent = n /\ q # Main
          BY <1>3, <1>5, <1>6, <3>2
        <4>2. n # 0 => n \in Pids \ {q} /\ proc'[n].state = "run"
          BY <1>1, <1>9, <4>1, PidFacts DEF Running
        <4>3. proc'[q].state = "zombie" => n # 0
          BY <1>5, <1>6, <3>2
        <4> QED BY <4>1, <4>2, <4>3
      <3>3. CASE q # p /\ q \notin Children(p)
        <4>1. proc'[q] = proc[q]
          BY <1>6, <3>3
        <4>2. proc[q].parent # p
          BY <3>3, PidFacts DEF Children, IInv, MainStays
        <4> QED BY <1>9, <3>0, <4>1, <4>2
      <3> QED BY <3>1, <3>2, <3>3
    <2> QED BY <2>1, <2>2 DEF TableOK, Running
  <1> QED BY <1>7, <1>10, <1>11 DEF IInv

\* Every step of every process keeps the table.
LEMMA NextIInv == IInv /\ [Next]_vars => IInv'
  <1> SUFFICES ASSUME IInv, [Next]_vars PROVE IInv'
    OBVIOUS
  <1>1. CASE UNCHANGED vars
    BY <1>1 DEF vars, IInv, Shape, MainStays, TableOK, IsRecord, Running
  <1>2. ASSUME NEW p \in Pids, Step(p) PROVE IInv'
    <2>1. CASE Calls(p) \/ Misses(p) \/ Picks(p) \/ Branches(p) \/ Reaps(p)
      <3>1. Running(p) /\ writers' = writers /\ \E steps : Goes(p, steps)
        BY <2>1 DEF Calls, Misses, Picks, Branches, Reaps, At
      <3> QED BY <3>1, GoesKeeps
    <2>2. CASE Opens(p) \/ Closes(p)
      <3>1. Running(p) /\ writers' \subseteq writers \cup {p} /\ Goes(p, << >>)
        BY <2>2 DEF Opens, Closes, At
      <3> QED BY <3>1, GoesKeeps
    <2>3. CASE Assigns(p) \/ Says(p)
      <3> DEFINE t == Then(p, << >>)
      <3>1. Running(p) /\ writers' = writers
        BY <2>3 DEF Assigns, Says, At
      <3>2. IsRecord(t) /\ t.state = "run" /\ t.parent = proc[p].parent
        BY <3>1, ThenRecord DEF IInv, Running
      <3>3. \E v : \/ proc' = [proc EXCEPT ![p] = [t EXCEPT !.ok = v]]
                  \/ proc' = [proc EXCEPT ![p] = [t EXCEPT !.buf = v]]
        BY <2>3 DEF Assigns, Says
      <3> HIDE DEF t
      <3>4. ASSUME NEW v
            PROVE  /\ IsRecord([t EXCEPT !.ok = v]) /\ [t EXCEPT !.ok = v].state = "run"
                   /\ [t EXCEPT !.ok = v].parent = proc[p].parent
                   /\ IsRecord([t EXCEPT !.buf = v]) /\ [t EXCEPT !.buf = v].state = "run"
                   /\ [t EXCEPT !.buf = v].parent = proc[p].parent
        BY <3>2 DEF IsRecord, Fields
      <3> QED BY <3>1, <3>3, <3>4, OwnStep
    <2>4. CASE Becomes(p)
      <3> DEFINE t == [proc[p] EXCEPT !.todo = Now(p).steps, !.ok = TRUE, !.buf = 0]
      <3>1. Running(p) /\ writers' = writers /\ proc' = [proc EXCEPT ![p] = t]
        BY <2>4 DEF Becomes, At
      <3>2. IsRecord(t) /\ t.state = "run" /\ t.parent = proc[p].parent
        BY <3>1 DEF IInv, Shape, IsRecord, Fields, Running
      <3> HIDE DEF t
      <3> QED BY <3>1, <3>2, OwnStep
    <2>5. CASE Forks(p)
      <3>1. Running(p) /\ writers' = writers /\ At(p, "fork")
        BY <2>5 DEF Forks, At
      <3>2. CASE Goes(p, Now(p).failed)
        BY <3>1, <3>2, GoesKeeps
      <3>3. CASE \E c \in Pids :
                   /\ proc[c].state = "free"
                   /\ proc' = [proc EXCEPT ![p] = Then(p, Now(p).parent), ![c] = Child(p)]
        BY <3>1, <3>3, ForkKeeps
      <3> QED BY <2>5, <3>2, <3>3 DEF Forks
    <2>6. CASE Waits(p)
      <3>1. Running(p) /\ writers' = writers
        BY <2>6 DEF Waits, At
      <3>2. CASE Goes(p, Now(p).none)
        BY <3>1, <3>2, GoesKeeps
      <3>3. CASE \E c \in Zombies(p) :
                   proc' = [proc EXCEPT ![p] = Then(p, Answer(p, proc[c].status)), ![c] = Free]
        BY <3>1, <3>3, WaitKeeps
      <3> QED BY <2>6, <3>2, <3>3 DEF Waits
    <2>7. CASE Ends(p) \/ Returns(p)
      <3>1. Running(p) /\ \E s : Finish(p, s)
        BY <2>7 DEF Ends, Returns, At
      <3> QED BY <3>1, FinishKeeps
    <2> QED BY <1>2, <2>1, <2>2, <2>3, <2>4, <2>5, <2>6, <2>7 DEF Step
  <1> QED BY <1>1, <1>2 DEF Next

\* The first table is sound.
LEMMA InitIInv == Init => IInv
  <1> SUFFICES ASSUME Init PROVE IInv
    OBVIOUS
  <1> DEFINE m == [Free EXCEPT !.state = "run", !.todo = Script[prog]]
  <1>1. /\ proc = [p \in Pids |-> IF p = Main THEN m ELSE Free]
        /\ writers = {}
    BY DEF Init
  <1>2. IsRecord(m) /\ m.state = "run" /\ m.parent = 0
    BY FreeRecord DEF IsRecord, Fields
  <1> HIDE DEF m
  <1>3. \A p \in Pids : /\ IsRecord(proc[p]) /\ proc[p].parent = 0
                        /\ proc[p].state = IF p = Main THEN "run" ELSE "free"
    BY <1>1, <1>2, FreeRecord
  <1>4. Shape
    BY <1>1, <1>3 DEF Shape
  <1>5. MainStays
    BY <1>3, PidFacts DEF MainStays
  <1>6. TableOK
    BY <1>1, <1>3 DEF TableOK
  <1> QED BY <1>4, <1>5, <1>6 DEF IInv

-----------------------------------------------------------------------------
(* The kinds of steps, field by field                                      *)

Unmoved(Q) == \A q \in Pids \ Q : proc'[q] = proc[q]

\* p goes on with the steps t; its record changes in nothing else.
Resumes(p, t) ==
  /\ proc'[p].todo = t \o Tail(proc[p].todo)
  /\ proc'[p].state = "run" /\ proc'[p].ok = proc[p].ok /\ proc'[p].buf = proc[p].buf
  /\ proc'[p].parent = proc[p].parent /\ proc'[p].status = proc[p].status

\* A step that concerns p alone.
Lone(p) ==
  /\ Running(p) /\ proc[p].todo # << >> /\ Unmoved({p}) /\ log' = log
  /\ proc'[p].state = "run" /\ proc'[p].parent = proc[p].parent
  /\ proc'[p].status = proc[p].status /\ proc'[p].buf \in Nat
  /\ <<proc'[p].todo, proc'[p].ok, proc'[p].buf > 0, bad'>> \in
       Moves(proc[p].todo, proc[p].ok, proc[p].buf > 0, bad)

ForkFails(p) ==
  At(p, "fork") /\ Unmoved({p}) /\ Resumes(p, Now(p).failed) /\ bad' = TRUE /\ log' = log

\* A fork with the new process c, the first that is free.
Forked(p, c) ==
  /\ At(p, "fork") /\ c # p /\ c # Main /\ Unmoved({p, c}) /\ Resumes(p, Now(p).parent)
  /\ proc[c].state = "free" /\ \A d \in 1 .. (c - 1) : proc[d].state # "free"
  /\ proc'[c].todo = Now(p).child \o Tail(proc[p].todo)
  /\ proc'[c].state = "run" /\ proc'[c].ok = proc[p].ok /\ proc'[c].buf = proc[p].buf
  /\ proc'[c].parent = p /\ proc'[c].status = proc[p].status
  /\ bad' = bad /\ log' = log

WaitFails(p) ==
  /\ At(p, "wait") /\ Children(p) = {} /\ Unmoved({p}) /\ Resumes(p, Now(p).none)
  /\ bad' = bad /\ log' = log

\* A wait that finds the zombie c.
Waited(p, c) ==
  /\ At(p, "wait") /\ c \in Zombies(p) /\ c # p /\ c # Main /\ Unmoved({p, c})
  /\ Resumes(p, Answer(p, proc[c].status)) /\ proc'[c] = Free
  /\ bad' = bad /\ log' = log

\* The end of p with status s.
Over(p, s) ==
  /\ Running(p)
  /\ \/ At(p, "end") /\ s = Now(p).status
     \/ proc[p].todo = << >> /\ s \in {"zero", "other"}
  /\ Finish(p, s)
  /\ proc'[p] = Remains(p, s)
  /\ \A q \in Pids \ {p} : proc'[q] = IF q \in Children(p) THEN Orphaned(p, q) ELSE proc[q]

\* The fields of a record that goes on.
LEMMA ThenFields ==
  ASSUME Shape, NEW p \in Pids, NEW t
  PROVE  /\ Then(p, t).todo = t \o Tail(proc[p].todo) /\ IsRecord(Then(p, t))
         /\ Then(p, t).state = proc[p].state /\ Then(p, t).ok = proc[p].ok
         /\ Then(p, t).buf = proc[p].buf /\ Then(p, t).parent = proc[p].parent
         /\ Then(p, t).status = proc[p].status
  <1>1. IsRecord(proc[p])
    BY DEF Shape
  <1> QED BY <1>1 DEF Then, IsRecord, Fields

\* A process that goes on with t changes nothing but its own steps.
LEMMA GoesFields ==
  ASSUME IInv, NEW p \in Pids, Running(p), NEW t, Goes(p, t)
  PROVE  Unmoved({p}) /\ Resumes(p, t)
  <1>1. \A q \in Pids : proc'[q] = IF q = p THEN Then(p, t) ELSE proc[q]
    BY DEF IInv, Shape, Goes
  <1>2. Unmoved({p})
    BY <1>1 DEF Unmoved
  <1>3. proc'[p] = Then(p, t)
    BY <1>1
  <1>4. Shape /\ proc[p].state = "run"
    BY DEF IInv, Running
  <1>5. /\ Then(p, t).todo = t \o Tail(proc[p].todo)
        /\ Then(p, t).state = "run" /\ Then(p, t).ok = proc[p].ok
        /\ Then(p, t).buf = proc[p].buf /\ Then(p, t).parent = proc[p].parent
        /\ Then(p, t).status = proc[p].status
    BY <1>4, ThenFields
  <1>6. Resumes(p, t)
    BY <1>3, <1>5 DEF Resumes
  <1> QED BY <1>2, <1>6

\* The kinds together.
Kind(p) ==
  \/ Lone(p)
  \/ ForkFails(p)
  \/ \E c \in Pids : Forked(p, c)
  \/ WaitFails(p)
  \/ \E c \in Pids : Waited(p, c)
  \/ \E s : Over(p, s)

\* Every step of a process is of one of these kinds.
LEMMA StepKinds ==
  ASSUME IInv, NEW p \in Pids, proc[p].buf \in Nat, IsSeq(proc[p].todo), Step(p)
  PROVE  prog' = prog /\ helper' = helper /\ Kind(p)
  <1> DEFINE M == Moves(proc[p].todo, proc[p].ok, proc[p].buf > 0, bad)
  <1>0. prog' = prog /\ helper' = helper
    BY DEF Step, Calls, Misses, Picks, Branches, Assigns, Says, Opens, Closes, Reaps, Forks, Waits,
           Becomes, Ends, Returns, Finish
  <1>1. ASSUME NEW t, Running(p), proc[p].todo # << >>, Goes(p, t), log' = log,
               <<t \o Tail(proc[p].todo), proc[p].ok, proc[p].buf > 0, bad'>> \in M
        PROVE  Lone(p)
    <2>1. Unmoved({p}) /\ Resumes(p, t)
      BY <1>1, GoesFields
    <2> HIDE DEF M
    <2>2. <<proc'[p].todo, proc'[p].ok, proc'[p].buf > 0, bad'>> \in M
      BY <1>1, <2>1 DEF Resumes
    <2> QED BY <1>1, <2>1, <2>2 DEF Lone, Resumes, M
  <1>11. ASSUME proc[p].todo # << >> PROVE << >> \o Tail(proc[p].todo) = Tail(proc[p].todo)
    BY <1>11, HeadTail, Cat, Tuples
  <1>10. ASSUME Running(p), proc[p].todo # << >>, Goes(p, << >>), log' = log,
                <<Tail(proc[p].todo), proc[p].ok, proc[p].buf > 0, bad'>> \in M
         PROVE  Lone(p)
    <2>1. << >> \o Tail(proc[p].todo) = Tail(proc[p].todo)
      BY <1>10, <1>11
    <2> HIDE DEF M
    <2> QED BY <1>1, <1>10, <2>1
  <1>2. CASE Calls(p)
    <2>1. /\ Running(p) /\ proc[p].todo # << >> /\ Head(proc[p].todo).op = "call" /\ log' = log
          /\ (Goes(p, Now(p).good) /\ bad' = bad) \/ (Goes(p, Now(p).bad) /\ bad' = TRUE)
      BY <1>2 DEF Calls, At
    <2>2. <<Now(p).good \o Tail(proc[p].todo), proc[p].ok, proc[p].buf > 0, bad>> \in M
      BY <2>1 DEF Moves, Now
    <2>3. <<Now(p).bad \o Tail(proc[p].todo), proc[p].ok, proc[p].buf > 0, TRUE>> \in M
      BY <2>1 DEF Moves, Now
    <2> HIDE DEF M
    <2>4. CASE Goes(p, Now(p).good) /\ bad' = bad
      <3>1. <<Now(p).good \o Tail(proc[p].todo), proc[p].ok, proc[p].buf > 0, bad'>> \in M
        BY <2>2, <2>4
      <3> QED BY <1>0, <1>1, <2>1, <2>4, <3>1 DEF Kind
    <2>5. CASE Goes(p, Now(p).bad) /\ bad' = TRUE
      <3>1. <<Now(p).bad \o Tail(proc[p].todo), proc[p].ok, proc[p].buf > 0, bad'>> \in M
        BY <2>3, <2>5
      <3> QED BY <1>0, <1>1, <2>1, <2>5, <3>1 DEF Kind
    <2> QED BY <1>0, <2>1, <2>4, <2>5 DEF Kind
  <1>3. CASE Picks(p)
    <2>1. /\ Running(p) /\ proc[p].todo # << >> /\ Head(proc[p].todo).op = "pick" /\ log' = log
          /\ (Goes(p, Now(p).good) /\ bad' = bad) \/ (Goes(p, Now(p).bad) /\ bad' = bad)
      BY <1>3 DEF Picks, At
    <2>2. <<Now(p).good \o Tail(proc[p].todo), proc[p].ok, proc[p].buf > 0, bad>> \in M
      BY <2>1 DEF Moves, Now
    <2>3. <<Now(p).bad \o Tail(proc[p].todo), proc[p].ok, proc[p].buf > 0, bad>> \in M
      BY <2>1 DEF Moves, Now
    <2> HIDE DEF M
    <2>4. CASE Goes(p, Now(p).good) /\ bad' = bad
      <3>1. <<Now(p).good \o Tail(proc[p].todo), proc[p].ok, proc[p].buf > 0, bad'>> \in M
        BY <2>2, <2>4
      <3> QED BY <1>0, <1>1, <2>1, <2>4, <3>1 DEF Kind
    <2>5. CASE Goes(p, Now(p).bad) /\ bad' = bad
      <3>1. <<Now(p).bad \o Tail(proc[p].todo), proc[p].ok, proc[p].buf > 0, bad'>> \in M
        BY <2>3, <2>5
      <3> QED BY <1>0, <1>1, <2>1, <2>5, <3>1 DEF Kind
    <2> QED BY <1>0, <2>1, <2>4, <2>5 DEF Kind
  <1>4. CASE Misses(p)
    <2>1. /\ Running(p) /\ proc[p].todo # << >> /\ Head(proc[p].todo).op = "miss" /\ log' = log
          /\ Goes(p, << >>) /\ bad' = TRUE
      BY <1>4 DEF Misses, At
    <2>2. <<Tail(proc[p].todo), proc[p].ok, proc[p].buf > 0, TRUE>> \in M
      BY <2>1 DEF Moves
    <2> HIDE DEF M
    <2>3. <<Tail(proc[p].todo), proc[p].ok, proc[p].buf > 0, bad'>> \in M
      BY <2>1, <2>2
    <2> QED BY <1>0, <1>10, <2>1, <2>3 DEF Kind
  <1>5. CASE Opens(p) \/ Closes(p) \/ Reaps(p)
    <2>1. /\ Running(p) /\ proc[p].todo # << >> /\ log' = log
          /\ Head(proc[p].todo).op \in {"open", "close", "subreaper"}
          /\ Goes(p, << >>) /\ bad' = bad
      BY <1>5 DEF Opens, Closes, Reaps, At
    <2>2. <<Tail(proc[p].todo), proc[p].ok, proc[p].buf > 0, bad>> \in M
      BY <2>1 DEF Moves
    <2> HIDE DEF M
    <2>3. <<Tail(proc[p].todo), proc[p].ok, proc[p].buf > 0, bad'>> \in M
      BY <2>1, <2>2
    <2> QED BY <1>0, <1>10, <2>1, <2>3 DEF Kind
  <1>6. CASE Branches(p)
    <2> DEFINE t == IF Holds(p, Now(p).cond) THEN Now(p).yes ELSE Now(p).no
    <2>1. /\ Running(p) /\ proc[p].todo # << >> /\ Head(proc[p].todo).op = "if" /\ log' = log
          /\ Goes(p, t) /\ bad' = bad
      BY <1>6 DEF Branches, At
    <2>2. Now(p).cond = "ok" => t = IF proc[p].ok THEN Now(p).yes ELSE Now(p).no
      BY DEF Holds
    <2>3. t = Now(p).yes \/ t = Now(p).no
      OBVIOUS
    <2> HIDE DEF t
    <2>4. <<t \o Tail(proc[p].todo), proc[p].ok, proc[p].buf > 0, bad>> \in M
      <3>1. CASE Now(p).cond = "ok"
        BY <2>1, <2>2, <3>1 DEF Moves, Now
      <3>2. CASE Now(p).cond # "ok"
        BY <2>1, <2>3, <3>2 DEF Moves, Now
      <3> QED BY <3>1, <3>2
    <2> HIDE DEF M
    <2>5. <<t \o Tail(proc[p].todo), proc[p].ok, proc[p].buf > 0, bad'>> \in M
      BY <2>1, <2>4
    <2> QED BY <1>0, <1>1, <2>1, <2>5 DEF Kind
  <1>7. CASE Assigns(p) \/ Says(p) \/ Becomes(p)
    <2>1. Running(p) /\ proc[p].todo # << >> /\ log' = log /\ bad' = bad
      BY <1>7 DEF Assigns, Says, Becomes, At
    <2>2. PICK r : /\ proc' = [proc EXCEPT ![p] = r] /\ r.state = "run"
                   /\ r.parent = proc[p].parent /\ r.status = proc[p].status /\ r.buf \in Nat
                   /\ <<r.todo, r.ok, r.buf > 0, bad>> \in M
      <3>0. /\ Then(p, << >>).todo = Tail(proc[p].todo) /\ IsRecord(Then(p, << >>))
            /\ Then(p, << >>).state = "run" /\ Then(p, << >>).ok = proc[p].ok
            /\ Then(p, << >>).buf = proc[p].buf /\ Then(p, << >>).parent = proc[p].parent
            /\ Then(p, << >>).status = proc[p].status
        BY <1>11, <2>1, ThenFields DEF IInv, Running
      <3> DEFINE s == Then(p, << >>)
      <3> HIDE DEF s
      <3>1. CASE Assigns(p)
        <4> DEFINE r == [s EXCEPT !.ok = Now(p).val]
        <4>1. proc' = [proc EXCEPT ![p] = r] /\ Head(proc[p].todo).op = "assign"
          BY <3>1 DEF Assigns, At, s
        <4>2. /\ r.state = "run" /\ r.parent = proc[p].parent /\ r.status = proc[p].status
              /\ r.buf = proc[p].buf /\ r.todo = Tail(proc[p].todo) /\ r.ok = Now(p).val
          BY <3>0 DEF s, IsRecord, Fields
        <4>3. <<Tail(proc[p].todo), Now(p).val, proc[p].buf > 0, bad>> \in M
          BY <4>1 DEF Moves, Now
        <4> HIDE DEF r, M
        <4>4. <<r.todo, r.ok, r.buf > 0, bad>> \in M
          BY <4>2, <4>3
        <4> QED BY <4>1, <4>2, <4>4
      <3>2. CASE Says(p)
        <4> DEFINE r == [s EXCEPT !.buf = @ + 1]
        <4>1. proc' = [proc EXCEPT ![p] = r] /\ Head(proc[p].todo).op = "say"
          BY <3>2 DEF Says, At, s
        <4>2. /\ r.state = "run" /\ r.parent = proc[p].parent /\ r.status = proc[p].status
              /\ r.buf = proc[p].buf + 1 /\ r.todo = Tail(proc[p].todo) /\ r.ok = proc[p].ok
          BY <3>0 DEF s, IsRecord, Fields
        <4>3. <<Tail(proc[p].todo), proc[p].ok, TRUE, bad>> \in M
          BY <4>1 DEF Moves, Now
        <4> HIDE DEF r, M
        <4>4. r.buf \in Nat /\ (r.buf > 0) = TRUE
          BY <4>2
        <4>5. <<r.todo, r.ok, r.buf > 0, bad>> \in M
          BY <4>2, <4>3, <4>4
        <4> QED BY <4>1, <4>2, <4>4, <4>5
      <3>3. CASE Becomes(p)
        <4> DEFINE r == [proc[p] EXCEPT !.todo = Now(p).steps, !.ok = TRUE, !.buf = 0]
        <4>1. proc' = [proc EXCEPT ![p] = r] /\ Head(proc[p].todo).op = "become"
          BY <3>3 DEF Becomes, At
        <4>2. /\ r.state = "run" /\ r.parent = proc[p].parent /\ r.status = proc[p].status
              /\ r.buf = 0 /\ r.todo = Now(p).steps /\ r.ok = TRUE
          BY <2>1 DEF IInv, Shape, IsRecord, Fields, Running
        <4>3. <<Now(p).steps, TRUE, FALSE, bad>> \in M
          BY <4>1 DEF Moves, Now
        <4> HIDE DEF r, M
        <4>4. r.buf \in Nat /\ (r.buf > 0) = FALSE
          BY <4>2
        <4>5. <<r.todo, r.ok, r.buf > 0, bad>> \in M
          BY <4>2, <4>3, <4>4
        <4> QED BY <4>1, <4>2, <4>4, <4>5
      <3> QED BY <1>7, <3>1, <3>2, <3>3
    <2>3. proc'[p] = r /\ Unmoved({p})
      BY <2>2 DEF IInv, Shape, Unmoved
    <2> HIDE DEF M
    <2>4. <<proc'[p].todo, proc'[p].ok, proc'[p].buf > 0, bad'>> \in M
      BY <2>1, <2>2, <2>3
    <2>5. Lone(p)
      BY <2>1, <2>2, <2>3, <2>4 DEF Lone, M
    <2> QED BY <1>0, <2>5 DEF Kind
  <1>8. CASE Forks(p) \/ Waits(p)
    <2>1. Running(p) /\ log' = log
      BY <1>8 DEF Forks, Waits, At
    <2>2. CASE Forks(p) /\ Goes(p, Now(p).failed) /\ bad' = TRUE
      <3>1. ForkFails(p)
        BY <2>1, <2>2, GoesFields DEF ForkFails, Forks
      <3> QED BY <1>0, <3>1 DEF Kind
    <2>3. CASE Forks(p) /\ bad' = bad /\ \E c \in Pids :
                /\ proc[c].state = "free"
                /\ \A d \in 1 .. (c - 1) : proc[d].state # "free"
                /\ proc' = [proc EXCEPT ![p] = Then(p, Now(p).parent), ![c] = Child(p)]
      <3>1. PICK c \in Pids :
              /\ proc[c].state = "free"
              /\ \A d \in 1 .. (c - 1) : proc[d].state # "free"
              /\ proc' = [proc EXCEPT ![p] = Then(p, Now(p).parent), ![c] = Child(p)]
        BY <2>3
      <3>2. c # p /\ c # Main /\ At(p, "fork") /\ proc[p].state = "run" /\ Shape
        BY <2>1, <2>3, <3>1 DEF Running, IInv, MainStays, Forks
      <3> DEFINE r == Then(p, Now(p).parent)
                 s == Then(p, Now(p).child)
                 k == Child(p)
      <3>3. /\ r.todo = Now(p).parent \o Tail(proc[p].todo)
            /\ r.state = "run" /\ r.ok = proc[p].ok /\ r.buf = proc[p].buf
            /\ r.parent = proc[p].parent /\ r.status = proc[p].status
        BY <3>2, ThenFields
      <3>4. /\ s.todo = Now(p).child \o Tail(proc[p].todo) /\ IsRecord(s)
            /\ s.state = "run" /\ s.ok = proc[p].ok /\ s.buf = proc[p].buf
            /\ s.status = proc[p].status
        BY <3>2, ThenFields
      <3>5. k = [s EXCEPT !.parent = p]
        BY DEF Child
      <3> HIDE DEF r, s, k
      <3>6. /\ k.todo = Now(p).child \o Tail(proc[p].todo)
            /\ k.state = "run" /\ k.ok = proc[p].ok /\ k.buf = proc[p].buf
            /\ k.parent = p /\ k.status = proc[p].status
        BY <3>4, <3>5 DEF IsRecord, Fields
      <3>7. proc'[p] = r /\ proc'[c] = k /\ Unmoved({p, c})
        BY <3>1, <3>2 DEF Shape, Unmoved, r, k
      <3>8. Resumes(p, Now(p).parent)
        BY <3>3, <3>7 DEF Resumes
      <3>9. Forked(p, c)
        BY <2>1, <2>3, <3>1, <3>2, <3>6, <3>7, <3>8 DEF Forked
      <3> QED BY <1>0, <3>9 DEF Kind
    <2>4. CASE Waits(p) /\ Children(p) = {} /\ Goes(p, Now(p).none)
      <3>1. WaitFails(p)
        BY <2>1, <2>4, GoesFields DEF WaitFails, Waits
      <3> QED BY <1>0, <3>1 DEF Kind
    <2>5. CASE Waits(p) /\ \E c \in Zombies(p) :
                proc' = [proc EXCEPT ![p] = Then(p, Answer(p, proc[c].status)), ![c] = Free]
      <3>1. PICK c \in Zombies(p) :
              proc' = [proc EXCEPT ![p] = Then(p, Answer(p, proc[c].status)), ![c] = Free]
        BY <2>5
      <3>2. c \in Pids /\ c # p /\ c # Main /\ At(p, "wait") /\ proc[p].state = "run" /\ Shape /\ bad' = bad
        BY <2>1, <2>5, <3>1, PidFacts DEF Zombies, Children, Running, IInv, MainStays, Waits
      <3> DEFINE r == Then(p, Answer(p, proc[c].status))
      <3>3. /\ r.todo = Answer(p, proc[c].status) \o Tail(proc[p].todo)
            /\ r.state = "run" /\ r.ok = proc[p].ok /\ r.buf = proc[p].buf
            /\ r.parent = proc[p].parent /\ r.status = proc[p].status
        BY <3>2, ThenFields
      <3> HIDE DEF r
      <3>4. proc'[p] = r /\ proc'[c] = Free /\ Unmoved({p, c})
        BY <3>1, <3>2 DEF Shape, Unmoved, r
      <3>5. Resumes(p, Answer(p, proc[c].status))
        BY <3>3, <3>4 DEF Resumes
      <3>6. Waited(p, c)
        BY <2>1, <3>2, <3>4, <3>5 DEF Waited
      <3> QED BY <1>0, <3>2, <3>6 DEF Kind
    <2> QED BY <1>8, <2>2, <2>3, <2>4, <2>5 DEF Forks, Waits
  <1>9. CASE Ends(p) \/ Returns(p)
    <2>1. PICK s : /\ Running(p) /\ Finish(p, s)
                   /\ \/ At(p, "end") /\ s = Now(p).status
                      \/ proc[p].todo = << >> /\ s \in {"zero", "other"}
      BY <1>9 DEF Ends, Returns, At
    <2>2. Over(p, s)
      BY <2>1 DEF Over, Finish
    <2> QED BY <1>0, <2>2 DEF Kind
  <1> QED BY <1>2, <1>3, <1>4, <1>5, <1>6, <1>7, <1>8, <1>9 DEF Step

-----------------------------------------------------------------------------
(* Types                                                                   *)

\* What every process still has to do is a program of the operations in ops.
Made(ops) == \A p \in Pids : Program(proc[p].todo, ops)

\* The fields of a free pid.
LEMMA FreeFields ==
  /\ Free.state = "free" /\ Free.todo = << >> /\ Free.ok \in BOOLEAN /\ Free.buf = 0
  /\ Free.parent = 0 /\ Free.status = "zero"
  BY DEF Free

\* The types of a process record.
Fit(r) ==
  /\ r.state \in {"free", "run", "zombie"} /\ r.ok \in BOOLEAN
  /\ r.buf \in Nat /\ r.status \in Statuses
  /\ r.state # "run" => r.todo = << >> /\ r.buf = 0

\* TypeOK, process by process.
LEMMA FitType ==
  TypeOK <=> /\ prog \in Programs /\ helper \in BOOLEAN /\ reaper \in BOOLEAN /\ bad \in BOOLEAN
             /\ log \in Nat
             /\ \A p \in Pids : Fit(proc[p])
  BY DEF TypeOK, Fit

\* A free pid has the type of a process, and no steps.
LEMMA FitFree == Fit(Free) /\ \A ops : Program(Free.todo, ops)
  <1>1. \A ops : Program(<< >>, ops)
    BY ProgramTuples
  <1>2. Fit(Free)
    BY FreeFields DEF Fit, Statuses
  <1>3. \A ops : Program(Free.todo, ops)
    BY <1>1, FreeFields
  <1> QED BY <1>2, <1>3

\* The record that remains of a process and those of its children.
LEMMA FinishFit ==
  ASSUME IInv, TypeOK, NEW ops, Made(ops), NEW p \in Pids, NEW s \in Statuses
  PROVE  /\ Fit(Remains(p, s)) /\ Program(Remains(p, s).todo, ops)
         /\ \A q \in Children(p) : Fit(Orphaned(p, q)) /\ Program(Orphaned(p, q).todo, ops)
  <1>0. Program(<< >>, ops)
    BY ProgramTuples
  <1>1. Fit(Remains(p, s)) /\ Program(Remains(p, s).todo, ops)
    <2>1. CASE Remains(p, s) = Free
      BY <2>1, FitFree
    <2>2. CASE Remains(p, s) = [proc[p] EXCEPT !.state = "zombie", !.todo = << >>, !.ok = TRUE,
                                               !.buf = 0, !.status = s]
      <3>1. IsRecord(proc[p])
        BY DEF IInv, Shape
      <3>2. /\ Remains(p, s).state = "zombie" /\ Remains(p, s).todo = << >>
            /\ Remains(p, s).ok \in BOOLEAN /\ Remains(p, s).buf = 0 /\ Remains(p, s).status = s
        BY <2>2, <3>1 DEF IsRecord, Fields
      <3>3. Fit(Remains(p, s))
        BY <3>2 DEF Fit
      <3>4. Program(Remains(p, s).todo, ops)
        BY <1>0, <3>2
      <3> QED BY <3>3, <3>4
    <2> QED BY <2>1, <2>2 DEF Remains
  <1>2. ASSUME NEW q \in Children(p)
        PROVE  Fit(Orphaned(p, q)) /\ Program(Orphaned(p, q).todo, ops)
    <2>0. q \in Pids /\ Fit(proc[q]) /\ Program(proc[q].todo, ops)
      BY FitType DEF Children, Made
    <2>1. CASE Orphaned(p, q) = Free
      BY <2>1, FitFree
    <2>2. CASE Orphaned(p, q) = [proc[q] EXCEPT !.parent = NewParent(p)]
      <3>1. IsRecord(proc[q])
        BY <2>0 DEF IInv, Shape
      <3>2. /\ Orphaned(p, q).state = proc[q].state /\ Orphaned(p, q).todo = proc[q].todo
            /\ Orphaned(p, q).ok = proc[q].ok /\ Orphaned(p, q).buf = proc[q].buf
            /\ Orphaned(p, q).status = proc[q].status
        BY <2>2, <3>1 DEF IsRecord, Fields
      <3> QED BY <2>0, <3>2 DEF Fit
    <2> QED BY <2>1, <2>2 DEF Orphaned
  <1> QED BY <1>1, <1>2

\* Every step keeps the types and the programs.
LEMMA StepFit ==
  ASSUME IInv, TypeOK, NEW ops, Made(ops), NEW p \in Pids, Step(p)
  PROVE  TypeOK' /\ Made(ops)'
  <1> DEFINE G(r) == Fit(r) /\ Program(r.todo, ops)
  <1>0. /\ Fit(proc[p]) /\ Program(proc[p].todo, ops) /\ IsSeq(proc[p].todo)
        /\ \A q \in Pids : G(proc[q])
    BY FitType DEF Made, Program
  <1>1. prog' = prog /\ helper' = helper /\ Kind(p)
    BY <1>0, StepKinds DEF Fit
  <1>2. reaper' \in BOOLEAN
    BY FitType DEF Step, Calls, Misses, Picks, Branches, Assigns, Says, Opens, Closes, Reaps, Forks,
           Waits, Becomes, Ends, Returns, Finish
  <1>3. SUFFICES bad' \in BOOLEAN /\ log' \in Nat /\ \A q \in Pids : G(proc'[q])
    BY <1>1, <1>2, FitType DEF TypeOK, Fit, Made
  <1>4. ASSUME NEW y \in {"failed", "parent", "none"}, Running(p), proc[p].todo # << >>,
               y \in Parts(Now(p).op), Resumes(p, Now(p)[y])
        PROVE  G(proc'[p])
    <2>1. Program(Now(p)[y] \o Tail(proc[p].todo), ops)
      BY <1>0, <1>4, BranchMade DEF Now
    <2> QED BY <1>0, <1>4, <2>1 DEF Resumes, Fit
  <1>5. CASE Lone(p)
    <2> DEFINE m == <<proc'[p].todo, proc'[p].ok, proc'[p].buf > 0, bad'>>
    <2>1. m \in Moves(proc[p].todo, proc[p].ok, proc[p].buf > 0, bad)
      BY <1>5 DEF Lone
    <2>2. Program(m[1], ops) /\ m[2] \in BOOLEAN /\ m[4] \in BOOLEAN
      <3> HIDE DEF m
      <3>1. proc[p].todo # << >> /\ proc[p].ok \in BOOLEAN /\ bad \in BOOLEAN
        BY <1>0, <1>5, FitType DEF Fit, Lone
      <3> QED BY <1>0, <2>1, <3>1, MovesMade
    <2>3. G(proc'[p]) /\ bad' \in BOOLEAN
      BY <1>0, <1>5, <2>2 DEF Lone, Fit
    <2> QED BY <1>0, <1>5, <2>3, FitType DEF Lone, Unmoved
  <1>6. CASE ForkFails(p)
    <2>1. G(proc'[p])
      BY <1>4, <1>6 DEF ForkFails, At, Now, Parts
    <2> QED BY <1>0, <1>6, <2>1, FitType DEF ForkFails, Unmoved
  <1>7. CASE \E c \in Pids : Forked(p, c)
    <2>1. PICK c \in Pids : Forked(p, c)
      BY <1>7
    <2>2. G(proc'[p])
      BY <1>4, <2>1 DEF Forked, At, Now, Parts
    <2>3. Program(Now(p).child \o Tail(proc[p].todo), ops)
      BY <1>0, <2>1, BranchMade DEF Forked, At, Now, Parts
    <2>4. G(proc'[c])
      BY <1>0, <2>1, <2>3 DEF Forked, Fit
    <2> QED BY <1>0, <2>1, <2>2, <2>4, FitType DEF Forked, Unmoved
  <1>8. CASE WaitFails(p)
    <2>1. G(proc'[p])
      BY <1>4, <1>8 DEF WaitFails, At, Now, Parts
    <2> QED BY <1>0, <1>8, <2>1, FitType DEF WaitFails, Unmoved
  <1>9. CASE \E c \in Pids : Waited(p, c)
    <2>1. PICK c \in Pids : Waited(p, c)
      BY <1>9
    <2>2. proc[c].status \in Statuses
      BY FitType DEF Fit
    <2>3. \E y \in {"zero", "other", "signal"} : Answer(p, proc[c].status) = Now(p)[y]
      BY <2>2 DEF Answer, Statuses
    <2>4. Program(Answer(p, proc[c].status) \o Tail(proc[p].todo), ops)
      BY <1>0, <2>1, <2>3, BranchMade DEF Waited, At, Now, Parts
    <2>5. G(proc'[p])
      BY <1>0, <2>1, <2>4 DEF Waited, Resumes, Fit
    <2>6. G(proc'[c])
      BY <2>1, FitFree DEF Waited
    <2> QED BY <1>0, <2>1, <2>5, <2>6, FitType DEF Waited, Unmoved
  <1>10. CASE \E s : Over(p, s)
    <2>1. PICK s : Over(p, s)
      BY <1>10
    <2>2. s \in Statuses
      <3>1. CASE At(p, "end") /\ s = Now(p).status
        <4>1. WellMade(Now(p), ops) /\ Now(p).op = "end"
          BY <1>0, <3>1, ProgramTail DEF At, Now
        <4> QED BY <3>1, <4>1, MadeIff DEF Typed
      <3> QED BY <2>1, <3>1 DEF Over, Statuses
    <2>3. /\ G(Remains(p, s)) /\ \A q \in Children(p) : G(Orphaned(p, q))
      BY <2>2, FinishFit
    <2>4. \A q \in Pids : G(proc'[q])
      BY <1>0, <2>1, <2>3 DEF Over
    <2>5. bad' = bad /\ (log' = log \/ log' = log + proc[p].buf)
      BY <2>1 DEF Over, Finish
    <2> QED BY <1>0, <2>4, <2>5, FitType DEF Fit
  <1> QED BY <1>1, <1>5, <1>6, <1>7, <1>8, <1>9, <1>10 DEF Kind

\* The first state.
LEMMA InitFit == Init => IInv /\ TypeOK /\ \A ops : Program(Script[prog], ops) => Made(ops)
  <1> SUFFICES ASSUME Init
               PROVE  IInv /\ TypeOK /\ \A ops : Program(Script[prog], ops) => Made(ops)
    OBVIOUS
  <1>1. IInv
    BY InitIInv
  <1> DEFINE m == [Free EXCEPT !.state = "run", !.todo = Script[prog]]
  <1>2. /\ proc = [p \in Pids |-> IF p = Main THEN m ELSE Free]
        /\ prog \in Programs /\ helper \in BOOLEAN /\ reaper = FALSE /\ bad = FALSE /\ log = 0
    BY DEF Init
  <1>3. m.state = "run" /\ m.todo = Script[prog] /\ m.ok \in BOOLEAN /\ m.buf = 0 /\ m.status = "zero"
    BY DEF Free
  <1> HIDE DEF m
  <1>4. \A p \in Pids : proc[p] = m \/ proc[p] = Free
    BY <1>2
  <1>5. Fit(m)
    BY <1>3 DEF Fit, Statuses
  <1>6. TypeOK
    BY <1>2, <1>4, <1>5, FitFree, FitType
  <1>7. ASSUME NEW ops, Program(Script[prog], ops) PROVE Made(ops)
    BY <1>3, <1>4, <1>7, FitFree DEF Made
  <1> QED BY <1>1, <1>6, <1>7

\* Whatever a program does, every field keeps its type, statuses are statuses of processes,
\* and a process that has ended has neither steps nor output left.
THEOREM TypeCorrect == Spec => []TypeOK
  <1> DEFINE Inv == IInv /\ TypeOK /\ Made(Ops)
  <1>1. Init => Inv
    <2>1. ASSUME Init PROVE Program(Script[prog], Ops)
      BY <2>1, ScriptsMade, ProgramsAssumption DEF Init
    <2> QED BY <2>1, InitFit
  <1>2. Inv /\ [Next]_vars => Inv'
    <2> SUFFICES ASSUME Inv, [Next]_vars PROVE Inv'
      OBVIOUS
    <2>1. IInv'
      BY NextIInv
    <2>2. CASE UNCHANGED vars
      BY <2>1, <2>2 DEF vars, TypeOK, Made
    <2>3. CASE Next
      BY <2>1, <2>3, StepFit DEF Next
    <2> QED BY <2>2, <2>3
  <1> QED BY <1>1, <1>2, PTL DEF Spec

-----------------------------------------------------------------------------
(* The programs whose processes take turns                                 *)

\* The programs whose processes do not take turns.  All others wait for a child as soon as
\* they have forked it.
Loose ==
  {"execve01", "execve02", "execve04", "execve05", "execve06", "fcntl12", "mmap10", "prctl03",
   "prctl08"}

\* The outcomes that the exceptions Lenient and Mute leave to a program.
Promise(y) == Verdicts(y \in Lenient, y \in Mute)

\* Every run of the others ends with an outcome it promises, if it ends.
LEMMA Promised ==
  \A y \in DOMAIN Script \ Loose : Run(Script[y], TRUE, FALSE, FALSE, FALSE, Promise(y))
  <1> DEFINE R(t, E) == Run(t, TRUE, FALSE, FALSE, FALSE, E)
  <1> DEFINE A == {"brk01", "brk02", "close02", "fcntl01", "fcntl03", "fcntl04",
                    "fcntl05", "fcntl08", "mmap001", "mmap05", "mmap06", "mmap07",
                    "mmap08", "mmap13", "mmap15", "mmap17", "munmap01", "munmap02", "openat04",
                    "prctl01", "read01", "read03", "read04", "write02", "write04",
                    "sigprocmask01", "set_tid_address01", "execve03", "fcntl02",
                    "fcntl09", "fcntl10", "mmap09", "mprotect01", "prctl05", "write01",
                    "fcntl07", "mprotect03"}
  <1> DEFINE B == {"eventfd01", "faccessat01", "execve01_child", "execve_child",
                    "execve06_child", "fcntl06", "mmap01", "openat02_child", "prctl06",
                    "prctl07", "read02", "sched_setattr01", "mmap11", "mprotect02",
                    "openat01", "openat02", "prctl06_execve"}
  <1> DEFINE C == {"close01", "mmap02", "mmap03", "mmap04", "mmap12", "mmap14",
                    "mmap19", "munmap03", "openat03", "ppoll01", "prctl02",
                    "write05", "sched_getaffinity01", "mmap18", "prctl10"}
  <1> DEFINE D == {"write06"}
  <1>0. /\ TRUE \in BOOLEAN /\ FALSE \in BOOLEAN
        /\ <<TRUE, FALSE, FALSE, FALSE>> \in Flags
    BY DEF Flags
  <1>1. \A t, E : /\ Judged(t, Start, E) => R(t, E)
                  /\ Judged(t, Flagged, E) => R(t, E)
                  /\ Judged(t, Wary, E) => R(t, E)
                  /\ Judged(t, Silent, E) => R(t, E)
                  /\ Judged(t, Fine, E) => R(t, E)
                  /\ Judged(t, Flags, E) => R(t, E)
    <2>1. /\ <<TRUE, FALSE, FALSE, FALSE>> \in Start /\ <<TRUE, FALSE, FALSE, FALSE>> \in Flagged
          /\ <<TRUE, FALSE, FALSE, FALSE>> \in Wary /\ <<TRUE, FALSE, FALSE, FALSE>> \in Silent
          /\ <<TRUE, FALSE, FALSE, FALSE>> \in Fine
      BY <1>0, FlagFacts
    <2> QED BY <1>0, <2>1 DEF Judged
  <1>2. /\ R(brk01, Exact) /\ R(brk02, Exact) /\ R(close02, Exact)
        /\ R(fcntl01, Exact) /\ R(fcntl03, Exact) /\ R(fcntl04, Exact)
        /\ R(fcntl05, Exact) /\ R(fcntl08, Exact) /\ R(mmap001, Exact)
        /\ R(mmap05, Exact) /\ R(mmap06, Exact) /\ R(mmap07, Exact)
        /\ R(mmap08, Exact) /\ R(mmap13, Exact) /\ R(mmap15, Exact)
        /\ R(mmap17, Exact) /\ R(munmap01, Exact) /\ R(munmap02, Exact) /\ R(openat04, Exact)
        /\ R(prctl01, Exact) /\ R(read01, Exact) /\ R(read03, Exact)
        /\ R(read04, Exact) /\ R(write02, Exact) /\ R(write04, Exact)
        /\ R(sigprocmask01, Exact) /\ R(set_tid_address01, Exact)
        /\ R(execve03, Exact) /\ R(fcntl02, Exact) /\ R(fcntl09, Exact)
        /\ R(fcntl10, Exact) /\ R(mmap09, Exact) /\ R(mprotect01, Exact)
        /\ R(prctl05, Exact) /\ R(write01, Exact)
        /\ R(fcntl07, Exact)
        /\ R(mprotect03, Exact)
    BY <1>1, ExactForks, FlaggedRuns, StrictRuns
  <1>3. /\ R(eventfd01, NoLie) /\ R(faccessat01, NoLie) /\ R(execve01_child, NoLie)
        /\ R(execve_child, NoLie) /\ R(execve06_child, NoLie) /\ R(fcntl06, NoLie)
        /\ R(mmap01, NoLie) /\ R(openat02_child, NoLie) /\ R(prctl06, NoLie)
        /\ R(prctl07, NoLie) /\ R(read02, NoLie) /\ R(sched_setattr01, NoLie)
        /\ R(mmap11, NoLie)
        /\ R(mprotect02, NoLie)
        /\ R(openat01, NoLie) /\ R(openat02, NoLie)
        /\ R(prctl06_execve, NoLie)
    BY <1>1, ExactForks, SilentRuns, WaryRuns
  <1>4. /\ R(close01, NoMiss) /\ R(mmap02, NoMiss) /\ R(mmap03, NoMiss)
        /\ R(mmap04, NoMiss) /\ R(mmap12, NoMiss) /\ R(mmap14, NoMiss)
        /\ R(mmap19, NoMiss) /\ R(munmap03, NoMiss)
        /\ R(openat03, NoMiss) /\ R(ppoll01, NoMiss) /\ R(prctl02, NoMiss)
        /\ R(write05, NoMiss) /\ R(sched_getaffinity01, NoMiss)
        /\ R(mmap18, NoMiss)
        /\ R(prctl10, NoMiss)
    BY <1>1, LenientRuns, Mmap18Runs, Prctl10Runs
  <1>5. /\ R(write06, Verdicts(TRUE, TRUE))
    BY <1>1, FreeRuns
  <1> HIDE DEF R
  <1>6. \A y \in A : R(Script[y], Exact)
    BY <1>2 DEF Script
  <1>7. \A y \in B : R(Script[y], NoLie)
    BY <1>3 DEF Script
  <1>8. \A y \in C : R(Script[y], NoMiss)
    BY <1>4 DEF Script
  <1>9. \A y \in D : R(Script[y], Verdicts(TRUE, TRUE))
    <2>1. \A y \in D : Script[y] = write06
      BY DEF Script
    <2> QED BY <1>5, <2>1
  <1>10. /\ \A y \in A : y \notin Lenient /\ y \notin Mute
         /\ \A y \in B : y \notin Lenient /\ y \in Mute
         /\ \A y \in C : y \in Lenient /\ y \notin Mute
         /\ \A y \in D : y \in Lenient /\ y \in Mute
    BY DEF Lenient, Mute
  <1>11. \A y \in DOMAIN Script \ Loose : y \in A \/ y \in B \/ y \in C \/ y \in D
    BY DEF Script, Loose
  <1> HIDE DEF A, B, C, D
  <1>12. \A y : /\ y \in A => Promise(y) = Exact
                /\ y \in B => Promise(y) = NoLie
                /\ y \in C => Promise(y) = NoMiss
                /\ y \in D => Promise(y) = Verdicts(TRUE, TRUE)
    BY <1>10 DEF Promise, Verdicts, Exact, NoLie, NoMiss
  <1>13. \A y \in DOMAIN Script \ Loose : R(Script[y], Promise(y))
    BY <1>6, <1>7, <1>8, <1>9, <1>11, <1>12
  <1> QED BY <1>13 DEF R

\* The process p has an outcome in E before it; it waits for a child with one in F; it has
\* ended with one in E.
Active(p, E) ==
  Running(p) /\ Run(proc[p].todo, proc[p].ok, proc[p].buf > 0, log > 0, bad, E)

Waiting(p, F, E) ==
  At(p, "wait") /\ Back(Now(p), Tail(proc[p].todo), proc[p].ok, proc[p].buf > 0, F, E)

Finished(p, E) ==
  /\ proc[p].state = "zombie"
  /\ \E d, m \in BOOLEAN : /\ log > 0 <=> Wrote(proc[p].status, d, m)
                           /\ <<proc[p].status, d, m, bad>> \in E

\* The processes are 1 .. n, each the child of the one below it; all but the last wait.  EE
\* has the outcomes of each.
Stack(n, EE) ==
  /\ n \in Pids /\ EE[Main] = Promise(prog)
  /\ \A p \in Pids : p > n => proc[p].state = "free"
  /\ \A p \in Pids : p <= n /\ p # Main => proc[p].parent = p - 1
  /\ \A p \in Pids : p < n => Waiting(p, EE[p + 1], EE[p])
  /\ Active(n, EE[n]) \/ Finished(n, EE[n])

Turns == \E n, EE : Stack(n, EE)

\* The children in a stack.
LEMMA StackChildren ==
  ASSUME IInv, NEW n, NEW EE, Stack(n, EE), NEW p \in Pids
  PROVE  /\ \A q \in Children(p) : q = p + 1 /\ p < n
         /\ p < n => p + 1 \in Pids /\ p + 1 <= n /\ p + 1 \in Children(p)
         /\ \A q \in Pids : q <= n => proc[q].state # "free"
  <1>0. n \in Int /\ Main = 1 /\ p \in Int /\ \A q \in Pids : q \in Int /\ 1 <= q
    BY MaxProcsAssumption DEF Stack, Pids, Main
  <1>1. \A q \in Pids : q <= n => proc[q].state # "free"
    BY <1>0 DEF Stack, Waiting, At, Running, Active, Finished
  <1>2. ASSUME NEW q \in Children(p) PROVE q = p + 1 /\ p < n
    <2>1. q \in Pids /\ proc[q].state # "free" /\ proc[q].parent = p
      BY DEF Children
    <2>2. q <= n
      <3>1. \A r \in Pids : r > n => proc[r].state = "free"
        BY DEF Stack
      <3>2. ~(q > n) /\ q \in Int
        BY <1>0, <2>1, <3>1
      <3> QED BY <1>0, <3>2
    <2>3. q # Main
      BY <2>1, PidFacts DEF IInv, MainStays
    <2>4. proc[q].parent = q - 1
      BY <2>1, <2>2, <2>3 DEF Stack
    <2>5. q \in Int /\ p = q - 1
      BY <1>0, <2>1, <2>4
    <2> HIDE DEF Children, Pids
    <2> QED BY <1>0, <2>2, <2>5
  <1>3. ASSUME p < n PROVE p + 1 \in Pids /\ p + 1 <= n /\ p + 1 \in Children(p)
    <2>1. p + 1 \in Pids /\ p + 1 <= n /\ p + 1 # Main
      BY <1>0, <1>3, MaxProcsAssumption DEF Stack, Pids
    <2>2. proc[p + 1].parent = (p + 1) - 1 /\ proc[p + 1].state # "free"
      BY <1>1, <2>1 DEF Stack
    <2> QED BY <1>0, <2>1, <2>2 DEF Children
  <1> QED BY <1>1, <1>2, <1>3

\* A step of the last process after which it is active or has ended.
LEMMA TopStep ==
  ASSUME NEW n, NEW EE, Stack(n, EE), Unmoved({n}), prog' = prog,
         proc'[n].parent = proc[n].parent,
         Active(n, EE[n])' \/ Finished(n, EE[n])'
  PROVE  Stack(n, EE)'
  <1>0. n \in Int /\ n \in Pids /\ \A q \in Pids : q \in Int
    BY DEF Stack, Pids
  <1>1. \A q \in Pids : q # n => proc'[q] = proc[q]
    BY DEF Unmoved
  <1>2. \A q \in Pids : q > n => proc'[q].state = "free"
    BY <1>0, <1>1 DEF Stack
  <1>3. \A q \in Pids : q <= n /\ q # Main => proc'[q].parent = q - 1
    BY <1>0, <1>1 DEF Stack
  <1>4. ASSUME NEW q \in Pids, q < n PROVE Waiting(q, EE[q + 1], EE[q])'
    <2>1. Waiting(q, EE[q + 1], EE[q])
      BY <1>4 DEF Stack
    <2>2. proc'[q] = proc[q]
      BY <1>0, <1>1, <1>4
    <2> QED BY <2>1, <2>2 DEF Waiting, At, Running, Now
  <1>5. EE[Main] = Promise(prog)'
    BY DEF Stack, Promise
  <1> QED BY <1>0, <1>2, <1>3, <1>4, <1>5 DEF Stack

\* Every step keeps the stack.
LEMMA StackStep ==
  ASSUME IInv, TypeOK, Made(Ops), NEW n, NEW EE, Stack(n, EE), NEW p \in Pids, Step(p)
  PROVE  Turns'
  <1>0. /\ n \in Int /\ n \in Pids /\ Main = 1 /\ p \in Int /\ \A q \in Pids : q \in Int /\ 1 <= q
        /\ log \in Nat /\ bad \in BOOLEAN /\ proc[p].buf \in Nat /\ proc[p].ok \in BOOLEAN
        /\ IsSeq(proc[p].todo) /\ Fit(proc[p])
    BY MaxProcsAssumption, FitType DEF Stack, Pids, Main, Made, Program, Fit
  <1>1. prog' = prog /\ Kind(p)
    BY <1>0, StepKinds
  <1>2. Running(p) /\ p <= n
    <2>1. Running(p)
      BY <1>1 DEF Kind, Lone, ForkFails, Forked, WaitFails, Waited, Over, At
    <2> QED BY <1>0, <2>1 DEF Stack, Running
  <1>3. CASE p < n
    <2>1. Waiting(p, EE[p + 1], EE[p])
      BY <1>3 DEF Stack
    <2>2. proc[p].todo # << >> /\ Head(proc[p].todo).op = "wait"
      BY <2>1 DEF Waiting, At
    <2>3. p + 1 \in Children(p) /\ p + 1 \in Pids
      BY <1>3, StackChildren
    <2>4. PICK c \in Pids : Waited(p, c)
      <3>1. ~Lone(p)
        BY <2>2 DEF Lone, Moves
      <3>2. ~ForkFails(p) /\ ~WaitFails(p) /\ \A c \in Pids : ~Forked(p, c)
        BY <2>2, <2>3 DEF ForkFails, Forked, WaitFails, At
      <3>3. \A s : ~Over(p, s)
        BY <2>2 DEF Over, At
      <3> QED BY <1>1, <3>1, <3>2, <3>3 DEF Kind
    <2>5. c = p + 1 /\ proc[c].state = "zombie"
      BY <2>4, StackChildren DEF Waited, Zombies
    <2>6. c = n
      <3>1. c <= n
        BY <1>3, <2>5, StackChildren
      <3>2. ASSUME c < n PROVE FALSE
        <4>1. Running(c)
          BY <3>2 DEF Stack, Waiting, At
        <4> QED BY <2>5, <4>1 DEF Running
      <3> QED BY <1>0, <3>1, <3>2
    <2>7. Finished(n, EE[n])
      BY <2>5, <2>6 DEF Stack, Active, Running
    <2>8. PICK d, m \in BOOLEAN : /\ log > 0 <=> Wrote(proc[c].status, d, m)
                                  /\ <<proc[c].status, d, m, bad>> \in EE[p + 1]
      BY <2>5, <2>6, <2>7 DEF Finished
    <2>9. proc[c].status \in Statuses
      BY FitType DEF Fit
    <2>10. Run(Reply(Now(p), proc[c].status) \o Tail(proc[p].todo), proc[p].ok, proc[p].buf > 0, log > 0, bad, EE[p])
      <3>1. (log > 0) \in BOOLEAN
        BY <1>0
      <3> QED BY <1>0, <2>1, <2>8, <2>9, <3>1 DEF Waiting, Back
    <2>11. Active(p, EE[p])'
      <3>1. /\ proc'[p].todo = Answer(p, proc[c].status) \o Tail(proc[p].todo) /\ proc'[p].state = "run"
            /\ proc'[p].ok = proc[p].ok /\ proc'[p].buf = proc[p].buf /\ log' = log /\ bad' = bad
        BY <2>4 DEF Waited, Resumes
      <3>2. Answer(p, proc[c].status) = Reply(Now(p), proc[c].status)
        BY <2>9 DEF Answer, Reply, Statuses
      <3> QED BY <2>10, <3>1, <3>2 DEF Active, Running
    <2>12. Stack(p, EE)'
      <3>1. \A q \in Pids : q # p /\ q # c => proc'[q] = proc[q]
        BY <2>4 DEF Waited, Unmoved
      <3>2. \A q \in Pids : q > p => proc'[q].state = "free"
        <4>1. proc'[c].state = "free"
          BY <2>4, FreeFields DEF Waited
        <4> QED BY <1>0, <2>5, <2>6, <3>1, <4>1 DEF Stack
      <3>3. \A q \in Pids : q <= p /\ q # Main => proc'[q].parent = q - 1
        <4>1. proc'[p].parent = proc[p].parent
          BY <2>4 DEF Waited, Resumes
        <4> SUFFICES ASSUME NEW q \in Pids, q <= p, q # Main PROVE proc'[q].parent = q - 1
          OBVIOUS
        <4>2. q <= n /\ q # c
          BY <1>0, <1>3, <2>5
        <4>3. proc[q].parent = q - 1
          BY <4>2 DEF Stack
        <4>4. proc'[q].parent = proc[q].parent
          BY <3>1, <4>1, <4>2
        <4> QED BY <4>3, <4>4
      <3>4. ASSUME NEW q \in Pids, q < p PROVE Waiting(q, EE[q + 1], EE[q])'
        <4>0. q < n /\ q # p /\ q # c
          BY <1>0, <1>3, <2>5, <3>4
        <4>1. Waiting(q, EE[q + 1], EE[q])
          BY <4>0 DEF Stack
        <4>2. proc'[q] = proc[q]
          BY <3>1, <4>0
        <4> QED BY <4>1, <4>2 DEF Waiting, At, Running, Now
      <3>5. EE[Main] = Promise(prog)'
        BY <1>1 DEF Stack, Promise
      <3> QED BY <2>11, <3>2, <3>3, <3>4, <3>5 DEF Stack
    <2> QED BY <2>12 DEF Turns
  <1>4. CASE p = n
    <2> DEFINE t == proc[n].todo
               o == proc[n].ok
               b == proc[n].buf > 0
               l == log > 0
    <2>1. Run(t, o, b, l, bad, EE[n])
      BY <1>2, <1>4 DEF Stack, Active, Finished, Running
    <2>2. Children(n) = {}
      BY <1>0, StackChildren
    <2>3. ASSUME Unmoved({n}), proc'[n].parent = proc[n].parent, Active(n, EE[n])' \/ Finished(n, EE[n])'
          PROVE  Turns'
      <3>1. Stack(n, EE)'
        BY <1>1, <2>3, TopStep
      <3> QED BY <3>1 DEF Turns
    <2>4. ASSUME NEW q, Unmoved({n}), Resumes(n, q), log' = log,
                 Run(q \o Tail(t), o, b, l, bad', EE[n])
          PROVE  Turns'
      <3>1. Active(n, EE[n])' /\ proc'[n].parent = proc[n].parent
        BY <2>4 DEF Active, Running, Resumes
      <3> QED BY <2>3, <2>4, <3>1
    <2>5. CASE Lone(n)
      <3>1. t # << >> /\ <<proc'[n].todo, proc'[n].ok, proc'[n].buf > 0, bad'>> \in Moves(t, o, b, bad)
        BY <2>5 DEF Lone
      <3>2. Head(t).op \notin {"end", "wait", "fork"}
        BY <3>1 DEF Moves
      <3>3. \A m \in Moves(t, o, b, bad) : Run(m[1], m[2], m[3], l, m[4], EE[n])
        BY <2>1, <3>1, <3>2, RunFollows
      <3>4. Run(proc'[n].todo, proc'[n].ok, proc'[n].buf > 0, l, bad', EE[n])
        <4> DEFINE m == <<proc'[n].todo, proc'[n].ok, proc'[n].buf > 0, bad'>>
        <4>1. m \in Moves(t, o, b, bad)
          BY <3>1
        <4>2. m[1] = proc'[n].todo /\ m[2] = proc'[n].ok /\ m[3] = (proc'[n].buf > 0) /\ m[4] = bad'
          OBVIOUS
        <4> HIDE DEF m
        <4> QED BY <3>3, <4>1, <4>2
      <3>5. Active(n, EE[n])' /\ proc'[n].parent = proc[n].parent /\ Unmoved({n})
        BY <2>5, <3>4 DEF Active, Running, Lone
      <3> QED BY <2>3, <3>5
    <2>6. CASE ForkFails(n)
      <3>1. Run(Head(t).failed \o Tail(t), o, b, l, TRUE, EE[n])
        BY <2>1, <2>6, RunForks DEF ForkFails, At
      <3>2. Unmoved({n}) /\ Resumes(n, Head(t).failed) /\ log' = log /\ bad' = TRUE
        BY <2>6 DEF ForkFails, Now
      <3>3. Run(Head(t).failed \o Tail(t), o, b, l, bad', EE[n])
        BY <3>1, <3>2
      <3> QED BY <2>4, <3>2, <3>3
    <2>7. CASE WaitFails(n)
      <3>1. Run(Head(t).none \o Tail(t), o, b, l, bad, EE[n])
        BY <2>1, <2>7, RunFollows DEF WaitFails, At
      <3>2. Unmoved({n}) /\ Resumes(n, Head(t).none) /\ log' = log /\ bad' = bad
        BY <2>7 DEF WaitFails, Now
      <3> QED BY <2>4, <3>1, <3>2
    <2>8. CASE \E c \in Pids : Waited(n, c)
      BY <2>2, <2>8 DEF Waited, Zombies
    <2>9. CASE \E s : Over(n, s)
      <3>1. PICK s : Over(n, s)
        BY <2>9
      <3>2. <<s, b, l, bad>> \in EE[n] /\ s \in Statuses
        <4>1. CASE At(n, "end") /\ s = Now(n).status
          <5>1. WellMade(Now(n), Ops) /\ Now(n).op = "end"
            BY <1>0, <1>4, <4>1, ProgramTail DEF At, Now, Made
          <5>2. s \in Statuses
            BY <4>1, <5>1, MadeIff DEF Typed
          <5> QED BY <2>1, <4>1, <5>2, RunFollows DEF At, Now
        <4>2. CASE proc[n].todo = << >> /\ s \in {"zero", "other"}
          BY <2>1, <4>2, RunFollows DEF Statuses
        <4> QED BY <3>1, <4>1, <4>2 DEF Over
      <3>3. Unmoved({n})
        BY <2>2, <3>1 DEF Over, Unmoved
      <3>4. proc'[n] = [proc[n] EXCEPT !.state = "zombie", !.todo = << >>, !.ok = TRUE, !.buf = 0, !.status = s]
        <4>1. ASSUME n # Main PROVE proc[n].parent # 0 /\ Running(proc[n].parent)
          <5>1. proc[n].parent = n - 1 /\ n - 1 \in Pids /\ n - 1 < n /\ n - 1 # 0
            BY <1>0, <4>1, MaxProcsAssumption DEF Stack, Pids
          <5>2. Waiting(n - 1, EE[(n - 1) + 1], EE[n - 1])
            BY <5>1 DEF Stack
          <5>3. Running(n - 1)
            BY <5>2 DEF Waiting, At
          <5> QED BY <5>1, <5>3
        <4>2. proc'[n] = Remains(n, s)
          BY <3>1 DEF Over
        <4> QED BY <4>1, <4>2 DEF Remains
      <3>5. proc'[n].state = "zombie" /\ proc'[n].status = s /\ proc'[n].parent = proc[n].parent
        <4>1. IsRecord(proc[n])
          BY <1>0 DEF IInv, Shape
        <4> QED BY <3>4, <4>1 DEF IsRecord, Fields
      <3>6. bad' = bad /\ log' = IF s = "signal" THEN log ELSE log + proc[n].buf
        BY <3>1 DEF Over, Finish
      <3>7. log' > 0 <=> Wrote(s, b, l)
        BY <1>0, <1>4, <3>6 DEF Wrote
      <3>8. b \in BOOLEAN /\ l \in BOOLEAN
        BY <1>0, <1>4
      <3> HIDE DEF b, l
      <3>9. Finished(n, EE[n])'
        BY <3>2, <3>5, <3>6, <3>7, <3>8 DEF Finished
      <3> QED BY <2>3, <3>3, <3>5, <3>9
    <2>10. CASE \E c \in Pids : Forked(n, c)
      <3>1. PICK c \in Pids : Forked(n, c)
        BY <2>10
      <3>2. c = n + 1
        <4>1. c > n
          BY <1>0, <3>1, StackChildren DEF Forked
        <4>2. ASSUME c # n + 1 PROVE FALSE
          <5>1. n + 1 \in Pids /\ n + 1 \in 1 .. (c - 1)
            BY <1>0, <4>1, <4>2, MaxProcsAssumption DEF Pids
          <5>2. proc[n + 1].state = "free"
            BY <1>0, <5>1 DEF Stack
          <5> QED BY <3>1, <5>1, <5>2 DEF Forked
        <4> QED BY <4>2
      <3> DEFINE s == Head(t)
                 v == s.parent \o Tail(t)
      <3>3. PICK F : Run(s.child \o Tail(t), o, b, l, bad, F) /\ Back(Head(v), Tail(v), o, b, F, EE[n])
        BY <2>1, <3>1, RunForks DEF Forked, At
      <3>4. v # << >> /\ Head(v).op = "wait"
        BY <2>1, <3>1, RunForks DEF Forked, At
      <3>5. /\ proc'[n].todo = v /\ proc'[n].state = "run" /\ proc'[n].ok = o
            /\ proc'[n].buf = proc[n].buf /\ proc'[n].parent = proc[n].parent
        BY <3>1 DEF Forked, Resumes, Now
      <3>6. /\ proc'[c].todo = s.child \o Tail(t) /\ proc'[c].state = "run" /\ proc'[c].ok = o
            /\ proc'[c].buf = proc[n].buf /\ proc'[c].parent = n /\ log' = log /\ bad' = bad
        BY <3>1 DEF Forked, Now
      <3>7. \A q \in Pids : q # n /\ q # c => proc'[q] = proc[q]
        BY <3>1 DEF Forked, Unmoved
      <3> DEFINE FF == [q \in Pids |-> IF q = c THEN F ELSE EE[q]]
      <3>8. FF[c] = F /\ \A q \in Pids : q # c => FF[q] = EE[q]
        OBVIOUS
      <3> HIDE DEF FF, s, v
      <3>9. Waiting(n, FF[n + 1], FF[n])'
        <4>1. FF[n + 1] = F /\ FF[n] = EE[n]
          BY <1>0, <3>2, <3>8
        <4> QED BY <3>3, <3>4, <3>5, <4>1 DEF Waiting, At, Running, Now
      <3>10. Active(c, FF[c])'
        BY <3>3, <3>6, <3>8 DEF Active, Running, s
      <3>11. ASSUME NEW q \in Pids, q < c PROVE Waiting(q, FF[q + 1], FF[q])'
        <4>1. CASE q = n
          BY <3>9, <4>1
        <4>2. CASE q # n
          <5>1. q < n /\ q + 1 \in Pids /\ q + 1 # c /\ q # c
            BY <1>0, <3>2, <3>11, <4>2, MaxProcsAssumption DEF Pids
          <5>2. Waiting(q, EE[q + 1], EE[q])
            BY <5>1 DEF Stack
          <5>3. proc'[q] = proc[q] /\ FF[q + 1] = EE[q + 1] /\ FF[q] = EE[q]
            BY <3>7, <3>8, <4>2, <5>1
          <5> QED BY <5>2, <5>3 DEF Waiting, At, Running, Now
        <4> QED BY <4>1, <4>2
      <3>12. \A q \in Pids : q > c => proc'[q].state = "free"
        BY <1>0, <3>2, <3>7 DEF Stack
      <3>13. \A q \in Pids : q <= c /\ q # Main => proc'[q].parent = q - 1
        BY <1>0, <3>2, <3>5, <3>6, <3>7 DEF Stack
      <3>14. FF[Main] = Promise(prog)'
        <4>1. Main \in Pids /\ Main # c
          BY <1>0, <3>2, PidFacts
        <4> QED BY <1>1, <3>8, <4>1 DEF Stack, Promise
      <3>15. Stack(c, FF)'
        BY <3>10, <3>11, <3>12, <3>13, <3>14 DEF Stack
      <3> QED BY <3>15 DEF Turns
    <2> QED BY <1>1, <1>4, <2>5, <2>6, <2>7, <2>8, <2>9, <2>10 DEF Kind
  <1> QED BY <1>0, <1>2, <1>3, <1>4

\* The first state of a program that is not one of the loose ones.
LEMMA StackInit ==
  ASSUME Init, prog \notin Loose
  PROVE  Turns
  <1> DEFINE EE == [p \in Pids |-> Promise(prog)]
             m == [Free EXCEPT !.state = "run", !.todo = Script[prog]]
  <1>0. /\ Main \in Pids /\ Main = 1 /\ \A p \in Pids : p \in Int /\ 1 <= p
    BY PidFacts DEF Main, Pids
  <1>1. /\ proc = [p \in Pids |-> IF p = Main THEN m ELSE Free]
        /\ prog \in DOMAIN Script /\ bad = FALSE /\ log = 0
    BY ProgramsAssumption DEF Init
  <1>2. m.state = "run" /\ m.todo = Script[prog] /\ m.ok = TRUE /\ m.buf = 0
    BY DEF Free
  <1> HIDE DEF m
  <1>3. proc[Main] = m /\ \A p \in Pids : p # Main => proc[p] = Free
    BY <1>0, <1>1
  <1>4. Run(Script[prog], TRUE, FALSE, FALSE, FALSE, Promise(prog))
    BY <1>1, Promised
  <1>5. Active(Main, EE[Main])
    <2>1. (proc[Main].buf > 0) = FALSE /\ (log > 0) = FALSE
      BY <1>1, <1>2, <1>3
    <2>2. EE[Main] = Promise(prog) /\ proc[Main].ok = TRUE /\ bad = FALSE
      BY <1>0, <1>1, <1>2, <1>3
    <2>3. Running(Main) /\ proc[Main].todo = Script[prog]
      BY <1>2, <1>3 DEF Running
    <2> HIDE DEF EE
    <2> QED BY <1>4, <2>1, <2>2, <2>3 DEF Active
  <1>6. EE[Main] = Promise(prog)
    BY <1>0
  <1>7. \A p \in Pids : p > Main => proc[p].state = "free"
    BY <1>0, <1>3, FreeFields
  <1>8. \A p \in Pids : ~(p < Main) /\ ~(p <= Main /\ p # Main)
    BY <1>0
  <1> HIDE DEF EE
  <1>9. Stack(Main, EE)
    BY <1>0, <1>5, <1>6, <1>7, <1>8 DEF Stack
  <1> QED BY <1>9 DEF Turns

\* When the main process has ended, it is alone and its outcome is one it promises.
LEMMA StackEnd ==
  ASSUME IInv, TypeOK, Turns, Ended
  PROVE  /\ \A p \in Pids : p # Main => proc[p].state = "free"
         /\ prog \notin Lenient /\ log > 0 => ~bad
         /\ prog \notin Mute /\ ~bad => log > 0
  <1>0. /\ Main \in Pids /\ Main = 1 /\ \A p \in Pids : p \in Int /\ 1 <= p
        /\ bad \in BOOLEAN
    BY PidFacts, FitType DEF Main, Pids
  <1>1. PICK n, EE : Stack(n, EE)
    BY DEF Turns
  <1>2. ASSUME Main < n PROVE FALSE
    <2>1. Waiting(Main, EE[Main + 1], EE[Main])
      BY <1>0, <1>1, <1>2 DEF Stack
    <2> QED BY <2>1 DEF Waiting, At, Ended
  <1>3. n = Main
    BY <1>0, <1>1, <1>2 DEF Stack
  <1>4. \A p \in Pids : p # Main => proc[p].state = "free"
    BY <1>0, <1>1, <1>3 DEF Stack
  <1>5. Finished(Main, Promise(prog))
    BY <1>1, <1>3 DEF Stack, Active, Ended
  <1>6. PICK d, m \in BOOLEAN : /\ log > 0 <=> Wrote(proc[Main].status, d, m)
                                /\ <<proc[Main].status, d, m, bad>> \in Promise(prog)
    BY <1>5 DEF Finished
  <1>7. proc[Main].status \in Statuses
    BY <1>0, FitType DEF Fit
  <1>8. /\ (prog \in Lenient) \/ (Wrote(proc[Main].status, d, m) => ~bad)
        /\ (prog \in Mute) \/ (~bad => Wrote(proc[Main].status, d, m))
    <2>1. ASSUME NEW a \in BOOLEAN, NEW c \in BOOLEAN,
                 <<proc[Main].status, d, m, bad>> \in Verdicts(a, c)
          PROVE  /\ a \/ (Wrote(proc[Main].status, d, m) => ~bad)
                 /\ c \/ (~bad => Wrote(proc[Main].status, d, m))
      <3>1. proc[Main].status \in Statuses /\ bad \in BOOLEAN
        BY <1>0, <1>7
      <3>2. ASSUME NEW z \in Statuses, NEW y \in BOOLEAN, <<z, d, m, y>> \in Verdicts(a, c)
            PROVE  /\ a \/ (Wrote(z, d, m) => ~y)
                   /\ c \/ (~y => Wrote(z, d, m))
        BY <3>2, VerdictFacts, ZenonT(60)
      <3> QED BY <2>1, <3>1, <3>2
    <2>2. (prog \in Lenient) \in BOOLEAN /\ (prog \in Mute) \in BOOLEAN
      OBVIOUS
    <2>3. <<proc[Main].status, d, m, bad>> \in Verdicts(prog \in Lenient, prog \in Mute)
      BY <1>6 DEF Promise
    <2> QED BY <2>1, <2>2, <2>3
  <1> QED BY <1>4, <1>6, <1>8

\* A process that is free, or has ended, takes no step.
LEMMA StepRuns ==
  ASSUME IInv, TypeOK, Made(Ops), NEW p \in Pids, Step(p)
  PROVE  Running(p)
  BY DEF Step, Calls, Misses, Picks, Branches, Assigns, Says, Opens, Closes, Reaps, Forks, Waits,
         Becomes, Ends, Returns, At
-----------------------------------------------------------------------------
(* The programs whose processes run side by side                           *)

\* Programs that are sure of their verdict if no call fails, those of them whose children have
\* no voice, and the statuses with which their children end.
Sided   == {"execve04", "execve05", "execve06", "mmap10", "prctl08"}
Hushed  == {"execve04", "execve06", "mmap10"}
Ways(y) == IF y = "mmap10" THEN {"zero"} ELSE Statuses

\* The process p is in the role k.
In(k, p) == Apart(k, proc[p].todo, proc[p].ok, proc[p].buf > 0, Ways(prog))

\* As long as no call has failed, main is sure of its verdict, and then has written it.
Sure == ~bad => IF Running(Main) THEN In("sure", Main) ELSE log > 0

\* The children have nothing in their buffers.
Hush ==
  /\ Running(Main) => In("main", Main)
  /\ \A p \in Pids : p # Main => /\ Running(p) => In("kid", p)
                                 /\ proc[p].state = "zombie" => proc[p].status \in Ways(prog)

Sides == Sure /\ (prog \in Hushed => Hush)

\* A failed call stays a failed call, and what is in the log stays there.
LEMMA OnlyGrows ==
  ASSUME TypeOK, NEW p \in Pids, Step(p)
  PROVE  /\ bad' \in BOOLEAN /\ (bad => bad') /\ log' \in Nat /\ log' >= log
         /\ At(p, "end") \/ (Running(p) /\ proc[p].todo = << >>) \/ log' = log
  <1>0. log \in Nat /\ bad \in BOOLEAN /\ proc[p].buf \in Nat
    BY DEF TypeOK
  <1>1. CASE Ends(p) \/ Returns(p)
    <2>1. bad' = bad /\ (log' = log \/ log' = log + proc[p].buf)
      BY <1>1 DEF Ends, Returns, Finish
    <2>2. At(p, "end") \/ (Running(p) /\ proc[p].todo = << >>)
      BY <1>1 DEF Ends, Returns
    <2>3. log' \in Nat /\ log' >= log
      BY <1>0, <2>1
    <2> QED BY <1>0, <2>1, <2>2, <2>3
  <1>2. CASE ~(Ends(p) \/ Returns(p))
    <2>1. log' = log
      BY <1>2 DEF Step, Calls, Misses, Picks, Branches, Assigns, Says, Opens, Closes, Reaps, Forks,
                  Waits, Becomes
    <2>2. bad' = bad \/ bad' = TRUE
      BY <1>2 DEF Step, Calls, Misses, Picks, Branches, Assigns, Says, Opens, Closes, Reaps, Forks,
                  Waits, Becomes
    <2>3. bad' \in BOOLEAN /\ (bad => bad')
      BY <1>0, <2>2
    <2>4. log' \in Nat /\ log' >= log
      BY <1>0, <2>1
    <2> QED BY <2>1, <2>3, <2>4
  <1> QED BY <1>1, <1>2

\* A step of a process in the role k: it goes on in this role, and its child in that of a kid, or
\* ends as it should.
LEMMA SideStep ==
  ASSUME IInv, TypeOK, Made(Ops), NEW p \in Pids, Kind(p), prog' = prog, NEW k, In(k, p),
         k = "sure" => ~bad /\ ~bad',
         \A c \in Zombies(p) : proc[c].status \in Ways(prog)
  PROVE  /\ \/ Running(p)' /\ In(k, p)'
            \/ \E s : Over(p, s) /\ Stops(k, s, proc[p].buf > 0, Ways(prog))
         /\ k # "sure" => \A c \in Pids : Forked(p, c) => In("kid", c)'
  <1> DEFINE t == proc[p].todo
             o == proc[p].ok
             b == proc[p].buf > 0
             Z == Ways(prog)
             A(q) == Apart(k, q \o Tail(t), o, b, Z)
  <1>0. Apart(k, t, o, b, Z) /\ Ways(prog') = Z /\ bad \in BOOLEAN
    BY FitType DEF In
  <1>1. ASSUME NEW q, Resumes(p, q), A(q) PROVE Running(p)' /\ In(k, p)'
    BY <1>0, <1>1 DEF Resumes, Running, In
  <1>2. ASSUME t # << >>, Head(t).op = "fork"
        PROVE  /\ A(Head(t).parent)
               /\ k # "sure" => A(Head(t).failed) /\ Apart("kid", Head(t).child \o Tail(t), o, b, Z)
    BY <1>0, <1>2, ApartFollows
  <1>3. ASSUME t # << >>, Head(t).op = "wait"
        PROVE  A(Head(t).none) /\ \A z \in Z : A(Reply(Head(t), z))
    BY <1>0, <1>3, ApartFollows
  <1>4. CASE Lone(p)
    <2>1. t # << >> /\ <<proc'[p].todo, proc'[p].ok, proc'[p].buf > 0, bad'>> \in Moves(t, o, b, bad)
      BY <1>4 DEF Lone
    <2>2. Head(t).op \notin {"end", "wait", "fork"}
      BY <2>1 DEF Moves
    <2>3. \A x \in BOOLEAN : \A m \in Moves(t, o, b, x) :
            (k = "sure" /\ (x \/ m[4])) \/ Apart(k, m[1], m[2], m[3], Z)
      BY <1>0, <2>1, <2>2, ApartFollows
    <2>4. Apart(k, proc'[p].todo, proc'[p].ok, proc'[p].buf > 0, Z)
      <3> DEFINE m == <<proc'[p].todo, proc'[p].ok, proc'[p].buf > 0, bad'>>
      <3>1. m \in Moves(t, o, b, bad)
        BY <2>1
      <3>2. m[1] = proc'[p].todo /\ m[2] = proc'[p].ok /\ m[3] = (proc'[p].buf > 0) /\ m[4] = bad'
        OBVIOUS
      <3> HIDE DEF m, t, o, b, Z
      <3>3. (k = "sure" /\ (bad \/ m[4])) \/ Apart(k, m[1], m[2], m[3], Z)
        BY <1>0, <2>3, <3>1
      <3> QED BY <3>2, <3>3
    <2>5. proc'[p].state = "run"
      BY <1>4 DEF Lone
    <2>6. \A c \in Pids : ~Forked(p, c)
      BY <2>2 DEF Forked, At
    <2> QED BY <1>0, <2>4, <2>5, <2>6 DEF Running, In
  <1>5. CASE ForkFails(p)
    <2>1. k # "sure"
      BY <1>5 DEF ForkFails
    <2>2. A(Head(t).failed)
      BY <1>2, <1>5, <2>1 DEF ForkFails, At
    <2>3. Resumes(p, Head(t).failed)
      BY <1>5 DEF ForkFails, Now
    <2>4. \A c \in Pids : ~Forked(p, c)
      <3> SUFFICES ASSUME NEW c \in Pids, Forked(p, c) PROVE FALSE
        OBVIOUS
      <3>1. proc'[c] = proc[c]
        BY <1>5 DEF ForkFails, Forked, Unmoved
      <3>2. proc[c].state = "free" /\ proc'[c].state = "run"
        BY DEF Forked
      <3> QED BY <3>1, <3>2
    <2> QED BY <1>1, <2>2, <2>3, <2>4
  <1>6. CASE \E c \in Pids : Forked(p, c)
    <2>1. PICK c \in Pids : Forked(p, c)
      BY <1>6
    <2>2. Running(p)' /\ In(k, p)'
      BY <1>1, <1>2, <2>1 DEF Forked, At, Now
    <2>3. ASSUME k # "sure", NEW d \in Pids, Forked(p, d) PROVE In("kid", d)'
      <3>1. Apart("kid", Head(t).child \o Tail(t), o, b, Z)
        BY <1>2, <2>3 DEF Forked, At
      <3>2. proc'[d].todo = Head(t).child \o Tail(t) /\ proc'[d].ok = o /\ proc'[d].buf = proc[p].buf
        BY <2>3 DEF Forked, Now
      <3> QED BY <1>0, <3>1, <3>2 DEF In
    <2> QED BY <2>2, <2>3
  <1>7. CASE WaitFails(p)
    <2>1. A(Head(t).none) /\ Resumes(p, Head(t).none)
      BY <1>3, <1>7 DEF WaitFails, At, Now
    <2>2. \A c \in Pids : ~Forked(p, c)
      BY <1>7 DEF WaitFails, Forked, At
    <2> QED BY <1>1, <2>1, <2>2
  <1>8. CASE \E c \in Pids : Waited(p, c)
    <2>1. PICK c \in Pids : Waited(p, c)
      BY <1>8
    <2>2. proc[c].status \in Z /\ proc[c].status \in Statuses
      BY <2>1, FitType DEF Waited, Fit
    <2>3. Answer(p, proc[c].status) = Reply(Head(t), proc[c].status)
      BY <2>2 DEF Answer, Reply, Statuses, Now
    <2>4. A(Reply(Head(t), proc[c].status)) /\ Resumes(p, Reply(Head(t), proc[c].status))
      BY <1>3, <2>1, <2>2, <2>3 DEF Waited, At
    <2>5. \A d \in Pids : ~Forked(p, d)
      BY <2>1 DEF Waited, Forked, At
    <2> QED BY <1>1, <2>4, <2>5
  <1>9. CASE \E s : Over(p, s)
    <2>1. PICK s : Over(p, s)
      BY <1>9
    <2>2. Stops(k, s, b, Z)
      <3>1. CASE At(p, "end") /\ s = Now(p).status
        BY <1>0, <3>1, ApartFollows DEF At, Now
      <3>2. CASE proc[p].todo = << >> /\ s \in {"zero", "other"}
        BY <1>0, <3>2, ApartFollows
      <3> QED BY <2>1, <3>1, <3>2 DEF Over
    <2>3. \A d \in Pids : ~Forked(p, d)
      BY <2>1 DEF Over, Forked, At
    <2> QED BY <2>1, <2>2, <2>3
  <1> QED BY <1>4, <1>5, <1>6, <1>7, <1>8, <1>9 DEF Kind

\* The process q goes on as it was, if perhaps with another parent.
Alike(q) ==
  /\ proc'[q].state = proc[q].state /\ proc'[q].todo = proc[q].todo /\ proc'[q].ok = proc[q].ok
  /\ proc'[q].buf = proc[q].buf /\ proc'[q].status = proc[q].status

\* What a step of p does to another process: nothing, or it makes or buries it.
LEMMA Others ==
  ASSUME IInv, NEW p \in Pids, Kind(p), NEW q \in Pids, q # p
  PROVE  /\ Alike(q) \/ Forked(p, q) \/ (proc'[q] = Free /\ proc[q].state = "zombie" /\ q # Main)
         /\ q = Main => proc'[q] = proc[q]
  <1>1. ASSUME proc'[q] = proc[q] PROVE Alike(q)
    BY <1>1 DEF Alike
  <1>2. CASE Lone(p) \/ ForkFails(p) \/ WaitFails(p)
    BY <1>1, <1>2 DEF Lone, ForkFails, WaitFails, Unmoved
  <1>3. CASE \E c \in Pids : Forked(p, c)
    <2>1. PICK c \in Pids : Forked(p, c)
      BY <1>3
    <2> QED BY <1>1, <2>1 DEF Forked, Unmoved
  <1>4. CASE \E c \in Pids : Waited(p, c)
    <2>1. PICK c \in Pids : Waited(p, c)
      BY <1>4
    <2>2. CASE q = c
      BY <2>1, <2>2 DEF Waited, Zombies
    <2>3. CASE q # c
      BY <1>1, <2>1, <2>3 DEF Waited, Unmoved
    <2> QED BY <2>2, <2>3
  <1>5. CASE \E s : Over(p, s)
    <2>1. PICK s : Over(p, s)
      BY <1>5
    <2>2. proc'[q] = IF q \in Children(p) THEN Orphaned(p, q) ELSE proc[q]
      BY <2>1 DEF Over
    <2>3. CASE q \notin Children(p)
      BY <1>1, <2>2, <2>3
    <2>4. CASE q \in Children(p)
      <3>1. q # Main
        BY <2>4, PidFacts DEF Children, IInv, MainStays
      <3>2. (proc'[q] = Free /\ proc[q].state = "zombie") \/ proc'[q] = [proc[q] EXCEPT !.parent = NewParent(p)]
        BY <2>2, <2>4 DEF Orphaned
      <3>3. CASE proc'[q] = [proc[q] EXCEPT !.parent = NewParent(p)]
        <4>1. IsRecord(proc[q])
          BY DEF IInv, Shape
        <4>2. Alike(q)
          BY <3>3, <4>1 DEF Alike, IsRecord, Fields
        <4> QED BY <3>1, <4>2
      <3> QED BY <3>1, <3>2, <3>3
    <2> QED BY <2>3, <2>4
  <1> QED BY <1>2, <1>3, <1>4, <1>5 DEF Kind

\* What is left of p, and of main.
LEMMA OverLeaves ==
  ASSUME IInv, NEW p \in Pids, NEW s, Over(p, s)
  PROVE  /\ proc'[p] = Free \/ (proc'[p].state = "zombie" /\ proc'[p].status = s)
         /\ proc'[p].state # "run"
         /\ p = Main => proc'[p].state = "zombie"
         /\ log' = (IF s = "signal" THEN log ELSE log + proc[p].buf) /\ bad' = bad
  <1>1. proc'[p] = Remains(p, s) /\ Finish(p, s)
    BY DEF Over
  <1>2. IsRecord(proc[p])
    BY DEF IInv, Shape
  <1>3. CASE proc'[p] = Free
    <2>1. p # Main
      <3>1. proc'[p].state = "free"
        BY <1>3, FreeFields
      <3> SUFFICES ASSUME p = Main PROVE FALSE
        OBVIOUS
      <3>2. proc'[p] = [proc[p] EXCEPT !.state = "zombie", !.todo = << >>, !.ok = TRUE, !.buf = 0, !.status = s]
        BY <1>1 DEF Remains
      <3>3. proc'[p].state = "zombie"
        BY <1>2, <3>2 DEF IsRecord, Fields
      <3> QED BY <3>1, <3>3
    <2> QED BY <1>1, <1>3, <2>1, FreeFields DEF Finish
  <1>4. CASE proc'[p] = [proc[p] EXCEPT !.state = "zombie", !.todo = << >>, !.ok = TRUE, !.buf = 0, !.status = s]
    <2>1. proc'[p].state = "zombie" /\ proc'[p].status = s
      BY <1>2, <1>4 DEF IsRecord, Fields
    <2> QED BY <1>1, <2>1 DEF Finish
  <1> QED BY <1>1, <1>3, <1>4 DEF Remains

\* Every step keeps both.
LEMMA SidesStep ==
  ASSUME IInv, TypeOK, Made(Ops), prog \in Sided, Sides, NEW p \in Pids, Step(p)
  PROVE  Sides'
  <1>0. /\ proc[p].buf \in Nat /\ IsSeq(proc[p].todo) /\ log \in Nat /\ bad \in BOOLEAN
        /\ Main \in Pids /\ Running(p) /\ prog' = prog
    <2>1. Fit(proc[p]) /\ Program(proc[p].todo, Ops) /\ log \in Nat /\ bad \in BOOLEAN
      BY FitType DEF Made
    <2>2. proc[p].buf \in Nat /\ IsSeq(proc[p].todo)
      BY <2>1 DEF Fit, Program
    <2> QED BY <2>1, <2>2, StepKinds, StepRuns, PidFacts
  <1>1. Kind(p)
    BY <1>0, StepKinds
  <1>2. \A c \in Zombies(p) : proc[c].status \in Ways(prog)
    <2> SUFFICES ASSUME NEW c \in Zombies(p) PROVE proc[c].status \in Ways(prog)
      OBVIOUS
    <2>1. c \in Pids /\ c # Main /\ proc[c].state = "zombie" /\ proc[c].status \in Statuses
      <3>1. c \in Pids /\ proc[c].parent = p /\ proc[c].state = "zombie"
        BY DEF Zombies, Children
      <3> QED BY <3>1, PidFacts, FitType DEF IInv, MainStays, Fit
    <2>2. CASE prog \in Hushed
      BY <2>1, <2>2 DEF Sides, Hush
    <2>3. CASE prog \notin Hushed
      BY <2>1, <2>3 DEF Hushed, Ways
    <2> QED BY <2>2, <2>3
  <1>3. Sure'
    <2> SUFFICES ASSUME ~bad' PROVE IF Running(Main)' THEN In("sure", Main)' ELSE log' > 0
      BY DEF Sure
    <2>1. ~bad /\ log' \in Nat /\ log' >= log
      BY OnlyGrows
    <2>2. CASE Running(Main) /\ p = Main
      <3>1. In("sure", p)
        BY <2>1, <2>2 DEF Sides, Sure
      <3>2. CASE Running(p)' /\ In("sure", p)'
        BY <2>2, <3>2
      <3>3. CASE \E s : Over(p, s) /\ Stops("sure", s, proc[p].buf > 0, Ways(prog))
        <4>1. PICK s : Over(p, s) /\ Stops("sure", s, proc[p].buf > 0, Ways(prog))
          BY <3>3
        <4>2. proc[p].buf > 0 /\ s # "signal"
          BY <4>1 DEF Stops
        <4>3. log' = (IF s = "signal" THEN log ELSE log + proc[p].buf) /\ proc'[p].state # "run"
          BY <4>1, OverLeaves
        <4>4. log' > 0
          BY <1>0, <4>2, <4>3
        <4> QED BY <2>2, <4>3, <4>4 DEF Running
      <3> QED BY <1>0, <1>1, <1>2, <2>1, <3>1, <3>2, <3>3, SideStep
    <2>3. CASE p # Main
      <3>1. proc'[Main] = proc[Main]
        BY <1>0, <1>1, <2>3, Others
      <3>2. CASE Running(Main)
        <4>1. In("sure", Main) /\ Running(Main)'
          BY <2>1, <3>1, <3>2 DEF Sides, Sure, Running
        <4>2. In("sure", Main)'
          BY <1>0, <3>1, <4>1 DEF In
        <4> QED BY <4>1, <4>2
      <3>3. CASE ~Running(Main)
        <4>1. log > 0 /\ ~Running(Main)'
          BY <2>1, <3>1, <3>3 DEF Sides, Sure, Running
        <4>2. log' > 0
          BY <1>0, <2>1, <4>1
        <4> QED BY <4>1, <4>2
      <3> QED BY <3>2, <3>3
    <2> QED BY <1>0, <2>2, <2>3
  <1>4. ASSUME prog \in Hushed PROVE Hush'
    <2>0. Hush
      BY <1>4 DEF Sides
    <2> DEFINE k == IF p = Main THEN "main" ELSE "kid"
    <2>1. In(k, p) /\ k # "sure"
      BY <1>0, <2>0 DEF Hush
    <2> HIDE DEF k
    <2>2. /\ \/ Running(p)' /\ In(k, p)'
             \/ \E s : Over(p, s) /\ Stops(k, s, proc[p].buf > 0, Ways(prog))
          /\ \A c \in Pids : Forked(p, c) => In("kid", c)'
      BY <1>0, <1>1, <1>2, <2>1, SideStep
    <2>3. ASSUME NEW q \in Pids, Alike(q), Running(q)' PROVE \A j : In(j, q) => In(j, q)'
      BY <1>0, <2>3 DEF Alike, In
    <2>4. ASSUME Running(Main)' PROVE In("main", Main)'
      <3>1. CASE p = Main
        <4>1. \A s : ~Over(p, s)
          BY <2>4, <3>1, OverLeaves DEF Running
        <4> QED BY <2>2, <3>1, <4>1 DEF k
      <3>2. CASE p # Main
        <4>1. proc'[Main] = proc[Main]
          BY <1>0, <1>1, <3>2, Others
        <4>2. Alike(Main) /\ Running(Main)
          BY <2>4, <4>1 DEF Alike, Running
        <4> QED BY <1>0, <2>0, <2>3, <2>4, <4>2 DEF Hush
      <3> QED BY <3>1, <3>2
    <2>5. ASSUME NEW q \in Pids, q # Main
          PROVE  /\ Running(q)' => In("kid", q)'
                 /\ proc'[q].state = "zombie" => proc'[q].status \in Ways(prog)
      <3>1. CASE q = p
        <4>1. k = "kid"
          BY <2>5, <3>1 DEF k
        <4>2. CASE Running(p)' /\ In(k, p)'
          BY <3>1, <4>1, <4>2 DEF Running
        <4>3. CASE \E s : Over(p, s) /\ Stops(k, s, proc[p].buf > 0, Ways(prog))
          <5>1. PICK s : Over(p, s) /\ Stops(k, s, proc[p].buf > 0, Ways(prog))
            BY <4>3
          <5>2. s \in Ways(prog)
            BY <4>1, <5>1 DEF Stops
          <5>3. /\ proc'[p] = Free \/ (proc'[p].state = "zombie" /\ proc'[p].status = s)
                /\ proc'[p].state # "run"
            BY <5>1, OverLeaves
          <5> QED BY <3>1, <5>2, <5>3, FreeFields DEF Running
        <4> QED BY <2>2, <4>2, <4>3
      <3>2. CASE q # p
        <4>1. Alike(q) \/ Forked(p, q) \/ proc'[q] = Free
          BY <1>1, <3>2, Others
        <4>2. CASE Alike(q)
          <5>1. proc'[q].state = "zombie" => proc'[q].status \in Ways(prog)
            BY <2>0, <2>5, <4>2 DEF Hush, Alike
          <5>2. Running(q)' => In("kid", q)'
            <6>1. Running(q)' => Running(q)
              BY <4>2 DEF Alike, Running
            <6> QED BY <2>0, <2>3, <2>5, <4>2, <6>1 DEF Hush
          <5> QED BY <5>1, <5>2
        <4>3. CASE Forked(p, q)
          <5>1. proc'[q].state = "run"
            BY <4>3 DEF Forked
          <5> QED BY <2>2, <4>3, <5>1
        <4>4. CASE proc'[q] = Free
          BY <4>4, FreeFields DEF Running
        <4> QED BY <4>1, <4>2, <4>3, <4>4
      <3> QED BY <3>1, <3>2
    <2> QED BY <1>0, <2>4, <2>5 DEF Hush
  <1> QED BY <1>0, <1>3, <1>4 DEF Sides

\* The first state of these programs.
LEMMA SidesInit ==
  ASSUME Init, prog \in Sided
  PROVE  Sides
  <1> DEFINE m == [Free EXCEPT !.state = "run", !.todo = Script[prog]]
  <1>1. Main \in Pids /\ proc = [p \in Pids |-> IF p = Main THEN m ELSE Free]
    BY PidFacts DEF Init
  <1>2. m.state = "run" /\ m.todo = Script[prog] /\ m.ok = TRUE /\ m.buf = 0
    BY DEF Free
  <1> HIDE DEF m
  <1>3. proc[Main] = m /\ \A p \in Pids : p # Main => proc[p] = Free
    BY <1>1
  <1>4. ASSUME NEW k, Apart(k, Script[prog], TRUE, FALSE, Ways(prog)) PROVE In(k, Main)
    <2>1. (proc[Main].buf > 0) = FALSE /\ proc[Main].ok = TRUE /\ proc[Main].todo = Script[prog]
      BY <1>2, <1>3
    <2> QED BY <1>4, <2>1 DEF In
  <1> DEFINE A(k, t, Z) == Apart(k, t, TRUE, FALSE, Z)
  <1>5. /\ A("sure", Script[prog], Ways(prog))
        /\ prog \in Hushed => A("main", Script[prog], Ways(prog))
    <2>1. /\ A("sure", execve04, Statuses) /\ A("main", execve04, Statuses)
          /\ A("sure", execve05, Statuses) /\ A("sure", prctl08, Statuses)
          /\ A("sure", execve06, Statuses) /\ A("main", execve06, Statuses)
          /\ A("sure", mmap10, {"zero"}) /\ A("main", mmap10, {"zero"})
      BY SidesApart, Mmap10Apart
    <2> HIDE DEF A
    <2>2. CASE prog = "execve04"
      BY <2>1, <2>2 DEF Script, Ways
    <2>3. CASE prog = "execve05"
      BY <2>1, <2>3 DEF Script, Ways, Hushed
    <2>4. CASE prog = "execve06"
      BY <2>1, <2>4 DEF Script, Ways
    <2>5. CASE prog = "mmap10"
      BY <2>1, <2>5 DEF Script, Ways
    <2>6. CASE prog = "prctl08"
      BY <2>1, <2>6 DEF Script, Ways, Hushed
    <2> QED BY <2>2, <2>3, <2>4, <2>5, <2>6 DEF Sided
  <1>6. Sure
    <2>1. Running(Main)
      BY <1>2, <1>3 DEF Running
    <2> QED BY <1>4, <1>5, <2>1 DEF Sure
  <1>7. prog \in Hushed => Hush
    BY <1>3, <1>4, <1>5, FreeFields DEF Hush, Running
  <1> QED BY <1>6, <1>7 DEF Sides

\* When main has ended, a child without a voice adds nothing to the log.
LEMMA HushStep ==
  ASSUME IInv, TypeOK, Made(Ops), Hush, Ended, NEW p \in Pids, Step(p)
  PROVE  log' = log
  <1>1. Running(p) /\ p # Main
    BY StepRuns DEF Ended
  <1>2. In("kid", p)
    BY <1>1 DEF Hush
  <1>3. ~(proc[p].buf > 0) /\ proc[p].buf \in Nat /\ log \in Nat
    <2>1. \A t, o, b, Z : Apart("kid", t, o, b, Z) => ~b
      BY ApartFollows
    <2>2. ~(proc[p].buf > 0)
      BY <1>2, <2>1 DEF In
    <2> QED BY <2>2, FitType DEF Fit
  <1>4. CASE Ends(p) \/ Returns(p)
    <2>1. log' = log \/ log' = log + proc[p].buf
      BY <1>4 DEF Ends, Returns, Finish
    <2> QED BY <1>3, <2>1
  <1>5. CASE ~(Ends(p) \/ Returns(p))
    BY <1>5 DEF Step, Calls, Misses, Picks, Branches, Assigns, Says, Opens, Closes, Reaps, Forks,
                Waits, Becomes
  <1> QED BY <1>4, <1>5

-----------------------------------------------------------------------------
(* Programs that never come to say anything                                *)

\* Nothing is said.
Dumb == log = 0 /\ \A p \in Pids : proc[p].buf = 0

\* A move that is not "say" leaves an empty buffer empty.
LEMMA MovesSilent ==
  ASSUME NEW t, NEW o, NEW x, Head(t).op # "say", NEW m \in Moves(t, o, FALSE, x)
  PROVE  m[3] = FALSE
  <1> DEFINE s == Head(t)
             u == Tail(t)
  <1>1. ASSUME NEW a, NEW c, NEW y, m = <<a, c, FALSE, y>> PROVE m[3] = FALSE
    BY <1>1
  <1>2. CASE s.op \in {"call", "pick"}
    <2>1. \/ m = <<s.good \o u, o, FALSE, x>> \/ m = <<s.bad \o u, o, FALSE, TRUE>>
          \/ m = <<s.bad \o u, o, FALSE, x>>
      BY <1>2 DEF Moves
    <2> QED BY <1>1, <2>1
  <1>3. CASE s.op = "if"
    <2>1. m = <<s.yes \o u, o, FALSE, x>> \/ m = <<s.no \o u, o, FALSE, x>>
      BY <1>3 DEF Moves
    <2> QED BY <1>1, <2>1
  <1>4. CASE s.op = "become"
    <2>1. m = <<s.steps, TRUE, FALSE, x>>
      BY <1>4 DEF Moves
    <2> QED BY <1>1, <2>1
  <1>5. CASE s.op = "assign"
    <2>1. m = <<u, s.val, FALSE, x>>
      BY <1>5 DEF Moves
    <2> QED BY <1>1, <2>1
  <1>6. CASE s.op \notin {"call", "pick", "if", "become", "assign"}
    <2>1. m = <<u, o, FALSE, TRUE>> \/ m = <<u, o, FALSE, x>>
      BY <1>6 DEF Moves
    <2> QED BY <1>1, <2>1
  <1> QED BY <1>2, <1>3, <1>4, <1>5, <1>6

\* Only "say" breaks the silence.
LEMMA DumbStep ==
  ASSUME IInv, TypeOK, Made(Ops), Dumb, NEW p \in Pids, Step(p), ~At(p, "say")
  PROVE  Dumb'
  <1>0. /\ proc[p].buf = 0 /\ log = 0 /\ IsSeq(proc[p].todo) /\ 0 \in Nat /\ bad \in BOOLEAN
    BY FitType DEF Made, Program, Dumb
  <1>1. Kind(p) /\ Running(p)
    BY <1>0, StepKinds, StepRuns
  <1>2. \A s : Over(p, s) => log' = 0
    BY <1>0, OverLeaves
  <1>3. log' = 0
    BY <1>0, <1>1, <1>2 DEF Kind, Lone, ForkFails, Forked, WaitFails, Waited
  <1>4. proc'[p].buf = 0
    <2>1. CASE Lone(p)
      <3> DEFINE t == proc[p].todo
                 o == proc[p].ok
                 m == <<proc'[p].todo, proc'[p].ok, proc'[p].buf > 0, bad'>>
      <3>1. t # << >> /\ m \in Moves(t, o, FALSE, bad)
        <4>1. (proc[p].buf > 0) = FALSE
          BY <1>0
        <4> QED BY <2>1, <4>1 DEF Lone
      <3>2. Head(t).op # "say"
        BY <1>1, <3>1 DEF At
      <3> HIDE DEF m, t, o
      <3>3. m[3] = FALSE
        BY <3>1, <3>2, MovesSilent
      <3>4. ~(proc'[p].buf > 0) /\ proc'[p].buf \in Nat
        BY <2>1, <3>3 DEF m, Lone
      <3> QED BY <3>4
    <2>2. CASE \E s : Over(p, s)
      <3>1. PICK s : Over(p, s)
        BY <2>2
      <3>2. IsRecord(proc[p])
        BY DEF IInv, Shape
      <3>3. proc'[p] = Remains(p, s)
        BY <3>1 DEF Over
      <3> QED BY <1>0, <3>2, <3>3, FreeFields DEF Remains, IsRecord, Fields
    <2>3. CASE ~Lone(p) /\ ~\E s : Over(p, s)
      BY <1>0, <1>1, <2>3 DEF Kind, ForkFails, Forked, WaitFails, Waited, Resumes
    <2> QED BY <2>1, <2>2, <2>3
  <1>5. ASSUME NEW q \in Pids, q # p PROVE proc'[q].buf = 0
    <2>1. Alike(q) \/ Forked(p, q) \/ proc'[q] = Free
      BY <1>1, <1>5, Others
    <2> QED BY <1>0, <2>1, FreeFields DEF Alike, Forked, Dumb
  <1> QED BY <1>3, <1>4, <1>5 DEF Dumb

\* The first state is silent.
LEMMA DumbInit == Init => Dumb
  <1> SUFFICES ASSUME Init PROVE Dumb
    OBVIOUS
  <1> DEFINE m == [Free EXCEPT !.state = "run", !.todo = Script[prog]]
  <1>1. proc = [p \in Pids |-> IF p = Main THEN m ELSE Free] /\ log = 0
    BY DEF Init
  <1>2. m.buf = 0 /\ Free.buf = 0
    BY DEF Free
  <1> HIDE DEF m
  <1> QED BY <1>1, <1>2 DEF Dumb

\* Programs without a "say".
Wordless == {"execve01", "fcntl12"}

\* No step of the wordless programs says anything.
LEMMA WordlessMade ==
  \A y \in Wordless : Program(Script[y], Ops \ {"say"})
  <1> DEFINE O == Ops \ {"say"}
             P(q) == Program(q, O)
  <1>0. P(<< >>) /\ P(<<Exit>>)
    BY Making, ProgramTuples DEF Exit, Statuses
  <1>1. WellMade(Note, O) /\ WellMade(Need, O) /\ WellMade(Miss, O)
    BY <1>0, Making DEF Note, Need
  <1>2. P(<<Note>>) /\ P(<<Need, Need, Miss>>) /\ P(<<Miss>>)
    BY <1>1, ProgramTuples
  <1>3. P(fcntl12)
    BY <1>0, <1>2, Making, ProgramTuples DEF fcntl12
  <1> DEFINE e == Exec(<<Need, Need, Miss>>, << >>)
  <1>4. WellMade(e, O)
    <2>1. P(<<Become(<<Need, Need, Miss>>)>>) /\ P(<<Miss>> \o << >>)
      BY <1>0, <1>2, Making, ProgramTuples, ProgramCat
    <2>2. P(<<Call(<<Become(<<Need, Need, Miss>>)>>, << >>)>>)
      BY <1>0, <2>1, Making, ProgramTuples
    <2> QED BY <2>1, <2>2, Making DEF Exec
  <1> HIDE DEF e
  <1>5. P(<<Fork(<<e>>, << >>, << >>)>>)
    BY <1>0, <1>4, Making, ProgramTuples
  <1>6. P(execve01)
    BY <1>5 DEF execve01, e
  <1> QED BY <1>3, <1>6 DEF Wordless, Script

\* So they stay silent.
LEMMA WordlessStep ==
  ASSUME IInv, TypeOK, Made(Ops), Made(Ops \ {"say"}), Dumb, NEW p \in Pids, Step(p)
  PROVE  Dumb'
  <1>1. ASSUME At(p, "say") PROVE FALSE
    <2>1. WellMade(Head(proc[p].todo), Ops \ {"say"})
      BY <1>1, ProgramTail DEF At, Made
    <2> QED BY <1>1, <2>1, MadeIff DEF At, Typed
  <1> QED BY <1>1, DumbStep

\* The next step of a program decides on the kind.
LEMMA KindOf ==
  ASSUME NEW p \in Pids, Kind(p)
  PROVE  /\ Running(p)
         /\ proc[p].todo = << >> => \E s \in {"zero", "other"} : Over(p, s)
         /\ proc[p].todo # << >> =>
              /\ Now(p).op = "end"  => Over(p, Now(p).status)
              /\ Now(p).op = "fork" => ForkFails(p) \/ \E c \in Pids : Forked(p, c)
              /\ Now(p).op = "wait" => WaitFails(p) \/ \E c \in Pids : Waited(p, c)
              /\ Now(p).op \notin {"end", "fork", "wait"} => Lone(p)
  <1>1. ASSUME Lone(p) PROVE Running(p) /\ proc[p].todo # << >> /\ Now(p).op \notin {"end", "fork", "wait"}
    BY <1>1 DEF Lone, Moves, Now
  <1>2. ForkFails(p) \/ (\E c \in Pids : Forked(p, c)) => At(p, "fork")
    BY DEF ForkFails, Forked
  <1>3. WaitFails(p) \/ (\E c \in Pids : Waited(p, c)) => At(p, "wait")
    BY DEF WaitFails, Waited
  <1>4. ASSUME NEW s, Over(p, s)
        PROVE  (At(p, "end") /\ s = Now(p).status) \/ (Running(p) /\ proc[p].todo = << >> /\ s \in {"zero", "other"})
    BY <1>4 DEF Over
  <1> QED BY <1>1, <1>2, <1>3, <1>4 DEF Kind, At, Now

-----------------------------------------------------------------------------
(* prctl03: the grandchild is never an orphan                              *)

\* Its steps: the wait of main and of the child, which both go on with a Note; what the
\* grandchild does, and the forks of the child and of main.
Join == Wait(<< >>, << >>, << >>, << >>)
Late == <<Join>> \o <<Note>>
Asks == If("adopted", <<Say, Exit>>, <<Miss, Exit>>)
Inner == Fork(<<Asks>>, <<Note>>, <<Note>>)
Outer == Fork(<<Inner>>, << >>, << >>)

\* The operations of a process that neither speaks nor forks.
Mild == Ops \ {"say", "fork"}

\* Only the processes up to n are there.
Gone(n) == \A p \in Pids : p > n => proc[p].state = "free"

\* Main has not forked yet; or it has failed to, or has waited for its child.
PhaseStart ==
  /\ Gone(1) /\ Running(1)
  /\ \/ proc[1].todo = <<Need>> \o (<<SubReaper>> \o (<<Outer>> \o Late))
     \/ proc[1].todo = <<SubReaper>> \o (<<Outer>> \o Late)
     \/ proc[1].todo = <<Outer>> \o Late

PhaseEnd ==
  /\ Gone(1) /\ bad
  /\ Made(Mild) \/ \E v : IsSeq(v) /\ proc[1].todo = <<Exit>> \o v

\* Main waits for its child, which has not forked yet; or has no child, or has waited for it.
Waits1(n) == n \in Pids /\ Gone(n) /\ Running(1) /\ proc[1].todo = Late /\ proc[2].parent = 1

PhaseFork == Waits1(2) /\ Running(2) /\ proc[2].todo = <<Inner>> \o Late

PhaseBack == Waits1(2) /\ proc[2].state # "free" /\ bad /\ Made(Mild)

\* The child waits for the grandchild, which cannot end without a failure.
PhaseWait ==
  /\ Waits1(3) /\ Running(2) /\ proc[3].parent = 2
  /\ proc[2].todo = <<Note>> \o Late \/ proc[2].todo = Late
  /\ \/ Running(3) /\ proc[3].todo = <<Asks>> \o Late
     \/ Running(3) /\ proc[3].todo = <<Miss>> \o (<<Exit>> \o Late)
     \/ bad /\ Running(3) /\ proc[3].todo = <<Exit>> \o Late
     \/ bad /\ proc[3].state = "zombie"

Phases == PhaseStart \/ PhaseEnd \/ PhaseFork \/ PhaseBack \/ PhaseWait

\* The programs the processes go through.
LEMMA PhaseFacts ==
  /\ IsSeq(Late) /\ Late # << >> /\ Head(Late) = Join /\ Tail(Late) = <<Note>> /\ << >> \o Late = Late
  /\ \A s, v : IsSeq(v) => /\ IsSeq(<<s>> \o v) /\ <<s>> \o v # << >>
                           /\ Head(<<s>> \o v) = s /\ Tail(<<s>> \o v) = v
  /\ \A v : IsSeq(v) => << >> \o v = v
  /\ Join.op = "wait" /\ Join.none = << >> /\ \A z \in Statuses : Reply(Join, z) = << >>
  /\ Outer.op = "fork" /\ Outer.child = <<Inner>> /\ Outer.parent = << >> /\ Outer.failed = << >>
  /\ Inner.op = "fork" /\ Inner.child = <<Asks>> /\ Inner.parent = <<Note>> /\ Inner.failed = <<Note>>
  /\ Asks.op = "if" /\ Asks.cond = "adopted" /\ Asks.no \o Late = <<Miss>> \o (<<Exit>> \o Late)
  /\ Need.op = "call" /\ Need.good = << >> /\ Need.bad = <<Exit>>
  /\ Note.op = "call" /\ Note.good = << >> /\ Note.bad = << >>
  /\ SubReaper.op = "subreaper" /\ Miss.op = "miss" /\ Exit.op = "end" /\ Exit.status = "zero"
  /\ prctl03 = <<Need>> \o (<<SubReaper>> \o (<<Outer>> \o Late))
  <1>1. \A s, v : IsSeq(v) => /\ IsSeq(<<s>> \o v) /\ <<s>> \o v # << >>
                              /\ Head(<<s>> \o v) = s /\ Tail(<<s>> \o v) = v
    BY Cons
  <1>2. \A s : IsSeq(<<s>>)
    BY Tuples
  <1>3. \A v : IsSeq(v) => << >> \o v = v
    BY Cat, Tuples
  <1>4. IsSeq(Late) /\ Late # << >> /\ Head(Late) = Join /\ Tail(Late) = <<Note>> /\ << >> \o Late = Late
    BY <1>1, <1>2, <1>3 DEF Late
  <1>5. Join.op = "wait" /\ Join.none = << >> /\ \A z \in Statuses : Reply(Join, z) = << >>
    BY DEF Join, Wait, Reply, Statuses
  <1>6. /\ Outer.op = "fork" /\ Outer.child = <<Inner>> /\ Outer.parent = << >> /\ Outer.failed = << >>
        /\ Inner.op = "fork" /\ Inner.child = <<Asks>> /\ Inner.parent = <<Note>> /\ Inner.failed = <<Note>>
    BY DEF Outer, Inner, Fork
  <1>7. Asks.op = "if" /\ Asks.cond = "adopted" /\ Asks.no \o Late = <<Miss>> \o (<<Exit>> \o Late)
    <2>1. Asks.op = "if" /\ Asks.cond = "adopted" /\ Asks.no = <<Miss, Exit>>
      BY DEF Asks, If
    <2>2. <<Miss, Exit>> = <<Miss>> \o <<Exit>>
      BY Tuples
    <2>3. (<<Miss>> \o <<Exit>>) \o Late = <<Miss>> \o (<<Exit>> \o Late)
      BY <1>2, <1>4, Assoc
    <2> QED BY <2>1, <2>2, <2>3
  <1>8. /\ Need.op = "call" /\ Need.good = << >> /\ Need.bad = <<Exit>>
        /\ Note.op = "call" /\ Note.good = << >> /\ Note.bad = << >>
        /\ SubReaper.op = "subreaper" /\ Miss.op = "miss" /\ Exit.op = "end" /\ Exit.status = "zero"
    BY DEF Need, Note, Call, SubReaper, Miss, Exit, End
  <1>9. prctl03 = <<Need>> \o (<<SubReaper>> \o (<<Outer>> \o Late))
    <2>1. prctl03 = <<Need, SubReaper, Outer, Join, Note>>
      BY DEF prctl03, Outer, Inner, Asks, Join
    <2>2. ASSUME NEW a, NEW b, NEW c, NEW d, NEW e
          PROVE  <<a, b, c, d, e>> = <<a>> \o (<<b>> \o (<<c>> \o (<<d>> \o <<e>>)))
      <3>1. <<d, e>> = <<d>> \o <<e>>
        BY Tuples
      <3>2. <<c, d, e>> = <<c>> \o <<d, e>>
        BY Tuples, SMTT(30)
      <3>3. <<b, c, d, e>> = <<b>> \o <<c, d, e>>
        BY Tuples, SMTT(30)
      <3>4. <<a, b, c, d, e>> = <<a>> \o <<b, c, d, e>>
        BY Tuples, SMTT(30)
      <3> QED BY <3>1, <3>2, <3>3, <3>4
    <2> QED BY <2>1, <2>2 DEF Late
  <1> QED BY <1>1, <1>3, <1>4, <1>5, <1>6, <1>7, <1>8, <1>9

\* Where a step that concerns p alone leads.
LEMMA LoneTo ==
  ASSUME NEW p \in Pids, Lone(p)
  PROVE  LET s == Now(p)
             u == Tail(proc[p].todo)
         IN  /\ s.op = "call" => \/ proc'[p].todo = s.good \o u /\ bad' = bad
                                 \/ proc'[p].todo = s.bad \o u /\ bad' = TRUE
             /\ s.op = "miss" => proc'[p].todo = u /\ bad' = TRUE
             /\ s.op \in {"subreaper", "open", "close"} =>
                  /\ proc'[p].todo = u /\ bad' = bad
                  /\ proc[p].buf = 0 => proc'[p].buf = 0
  <1> DEFINE s == Now(p)
             u == Tail(proc[p].todo)
             o == proc[p].ok
             b == proc[p].buf > 0
             m == <<proc'[p].todo, proc'[p].ok, proc'[p].buf > 0, bad'>>
  <1>1. m \in Moves(proc[p].todo, o, b, bad)
    BY DEF Lone
  <1>2. m[1] = proc'[p].todo /\ m[4] = bad'
    OBVIOUS
  <1> HIDE DEF m, o, b
  <1>3. ASSUME NEW t, NEW x, m = <<t, o, b, x>> PROVE m[1] = t /\ m[4] = x
    BY <1>3
  <1>4. ASSUME s.op = "call"
        PROVE  \/ proc'[p].todo = s.good \o u /\ bad' = bad
               \/ proc'[p].todo = s.bad \o u /\ bad' = TRUE
    <2>1. m = <<s.good \o u, o, b, bad>> \/ m = <<s.bad \o u, o, b, TRUE>>
      BY <1>1, <1>4 DEF Moves, Now
    <2> HIDE DEF s, u
    <2>2. CASE m = <<s.good \o u, o, b, bad>>
      <3>1. m[1] = s.good \o u /\ m[4] = bad
        BY <2>2
      <3> QED BY <1>2, <3>1
    <2>3. CASE m = <<s.bad \o u, o, b, TRUE>>
      <3>1. m[1] = s.bad \o u /\ m[4] = TRUE
        BY <2>3
      <3> QED BY <1>2, <3>1
    <2> QED BY <2>1, <2>2, <2>3
  <1>5. ASSUME s.op = "miss" PROVE proc'[p].todo = u /\ bad' = TRUE
    <2>1. m = <<u, o, b, TRUE>>
      BY <1>1, <1>5 DEF Moves, Now
    <2>2. m[1] = u /\ m[4] = TRUE
      BY <2>1
    <2> QED BY <1>2, <2>2
  <1>6. ASSUME s.op \in {"subreaper", "open", "close"}
        PROVE  /\ proc'[p].todo = u /\ bad' = bad
               /\ proc[p].buf = 0 => proc'[p].buf = 0
    <2>1. m = <<u, o, b, bad>>
      BY <1>1, <1>6 DEF Moves, Now
    <2>2. m[1] = u /\ m[3] = b /\ m[4] = bad
      BY <2>1
    <2>3. (proc'[p].buf > 0) = b /\ proc'[p].buf \in Nat
      BY <2>2 DEF m, Lone
    <2>4. proc[p].buf = 0 => proc'[p].buf = 0
      BY <2>3 DEF b
    <2> QED BY <1>2, <2>2, <2>4
  <1> QED BY <1>4, <1>5, <1>6

\* The processes of prctl03 that are mild.
LEMMA MildLate == Program(Late, Mild) /\ Program(<<Note>>, Mild) /\ Program(<<Note>> \o Late, Mild)
  <1>1. Program(<< >>, Mild)
    BY ProgramTuples
  <1>2. WellMade(Note, Mild)
    <2>1. Note.op = "call" /\ Note["good"] = << >> /\ Note["bad"] = << >>
      BY DEF Note, Call
    <2>2. Parts("call") = {"good", "bad"} /\ "call" \in Mild
      BY DEF Parts, Mild, Ops
    <2> QED BY <1>1, <2>1, <2>2, MadeIff DEF Typed
  <1>3. WellMade(Join, Mild)
    <2>1. /\ Join.op = "wait" /\ Join["zero"] = << >> /\ Join["other"] = << >> /\ Join["signal"] = << >>
          /\ Join["none"] = << >>
      BY DEF Join, Wait
    <2>2. Parts("wait") = {"zero", "other", "signal", "none"} /\ "wait" \in Mild
      BY DEF Parts, Mild, Ops
    <2> QED BY <1>1, <2>1, <2>2, MadeIff DEF Typed
  <1>4. Program(<<Note>>, Mild) /\ Program(<<Join>>, Mild)
    BY <1>2, <1>3, ProgramTuples
  <1>5. Program(Late, Mild)
    BY <1>4, ProgramCat DEF Late
  <1> QED BY <1>4, <1>5, ProgramCat

\* A mild process forks never and says nothing.
LEMMA MildStep ==
  ASSUME Made(Mild), NEW p \in Pids
  PROVE  ~At(p, "say") /\ ~At(p, "fork")
  <1> SUFFICES ASSUME NEW op \in {"say", "fork"}, At(p, op) PROVE FALSE
    OBVIOUS
  <1>1. WellMade(Head(proc[p].todo), Mild)
    BY ProgramTail DEF At, Made
  <1> QED BY <1>1, MadeIff DEF At, Typed, Mild

\* A process that ends while its parent runs stays as a zombie, and without children it
\* disturbs nobody.
LEMMA OverQuiet ==
  ASSUME IInv, NEW p \in Pids, NEW s, Over(p, s), Children(p) = {}
  PROVE  /\ Unmoved({p}) /\ bad' = bad
         /\ proc[p].parent # 0 => proc'[p].state = "zombie" /\ proc'[p].parent = proc[p].parent
  <1>1. Unmoved({p}) /\ bad' = bad
    BY DEF Over, Unmoved, Finish
  <1>2. ASSUME proc[p].parent # 0
        PROVE  proc'[p].state = "zombie" /\ proc'[p].parent = proc[p].parent
    <2>1. Running(proc[p].parent)
      BY <1>2 DEF IInv, TableOK
    <2>2. proc'[p] = [proc[p] EXCEPT !.state = "zombie", !.todo = << >>, !.ok = TRUE, !.buf = 0, !.status = s]
      BY <1>2, <2>1 DEF Over, Remains
    <2>3. IsRecord(proc[p])
      BY DEF IInv, Shape
    <2> QED BY <2>2, <2>3 DEF IsRecord, Fields
  <1> QED BY <1>1, <1>2

\* The first state of prctl03.
LEMMA PhaseInit ==
  ASSUME Init, prog = "prctl03"
  PROVE  Phases
  <1> DEFINE m == [Free EXCEPT !.state = "run", !.todo = Script[prog]]
  <1>0. Main = 1 /\ 1 \in Pids /\ \A p \in Pids : p \in Int
    BY PidFacts DEF Main, Pids
  <1>1. proc = [p \in Pids |-> IF p = Main THEN m ELSE Free]
    BY DEF Init
  <1>2. m.state = "run" /\ m.todo = Script[prog]
    BY DEF Free
  <1> HIDE DEF m
  <1>3. proc[1] = m /\ \A p \in Pids : p > 1 => proc[p] = Free
    BY <1>0, <1>1
  <1>4. Script[prog] = prctl03
    BY DEF Script
  <1>5. proc[1].todo = <<Need>> \o (<<SubReaper>> \o (<<Outer>> \o Late))
    BY <1>2, <1>3, <1>4, PhaseFacts
  <1>6. Gone(1) /\ Running(1)
    BY <1>2, <1>3, FreeFields DEF Gone, Running
  <1> QED BY <1>5, <1>6 DEF Phases, PhaseStart

\* Every step of prctl03 leads from phase to phase, and none of them is a "say".
LEMMA PhaseStep ==
  ASSUME IInv, TypeOK, Made(Ops), Phases, NEW p \in Pids, Step(p)
  PROVE  Phases' /\ ~At(p, "say")
  <1>0. /\ Main = 1 /\ 1 \in Pids /\ \A q \in Pids : q \in Int /\ 1 <= q
        /\ proc[1].parent = 0
    BY PidFacts DEF Main, Pids, IInv, MainStays
  <1>1. Kind(p) /\ Running(p) /\ TypeOK' /\ bad' \in BOOLEAN /\ (bad => bad')
    <2>1. Fit(proc[p]) /\ Program(proc[p].todo, Ops)
      BY FitType DEF Made
    <2>2. proc[p].buf \in Nat /\ IsSeq(proc[p].todo)
      BY <2>1 DEF Fit, Program
    <2> QED BY <2>2, StepKinds, StepRuns, StepFit, OnlyGrows
  <1>2. ASSUME NEW n \in Int, Gone(n)', \A q \in Pids : q <= n => Program(proc'[q].todo, Mild)
        PROVE  Made(Mild)'
    <2>1. Program(<< >>, Mild)
      BY ProgramTuples
    <2>2. ASSUME NEW q \in Pids PROVE Program(proc'[q].todo, Mild)
      <3>1. CASE q <= n
        BY <1>2, <3>1
      <3>2. CASE q > n
        <4>1. proc'[q].state = "free"
          BY <1>2, <3>2 DEF Gone
        <4>2. proc'[q].todo = << >>
          BY <1>1, <4>1 DEF TypeOK
        <4> QED BY <2>1, <4>2
      <3> QED BY <1>0, <3>1, <3>2
    <2> QED BY <2>2 DEF Made
  <1>3. ASSUME NEW n \in Int, Gone(n)
        PROVE  p <= n /\ (Unmoved({p}) => Gone(n)')
    <2>1. p <= n
      BY <1>0, <1>1, <1>3 DEF Gone, Running
    <2>2. ASSUME Unmoved({p}) PROVE Gone(n)'
      BY <1>0, <1>3, <2>1, <2>2 DEF Gone, Unmoved
    <2> QED BY <2>1, <2>2
  <1>4. ASSUME NEW n \in Int, n >= 1, Gone(n), NEW c \in Pids, Forked(p, c),
               \A q \in Pids : q <= n => proc[q].state # "free"
        PROVE  c = n + 1 /\ Gone(n + 1)'
    <2>1. proc[c].state = "free" /\ \A d \in 1 .. (c - 1) : proc[d].state # "free"
      BY <1>4 DEF Forked
    <2>2. c > n /\ c \in Int /\ c \in Pids
      BY <1>0, <1>4, <2>1
    <2>3. ASSUME c > n + 1 PROVE FALSE
      <3>1. n + 1 \in 1 .. (c - 1) /\ n + 1 \in Pids /\ n + 1 > n
        BY <1>4, <2>2, <2>3, MaxProcsAssumption DEF Pids
      <3> QED BY <1>4, <2>1, <3>1 DEF Gone
    <2>4. c = n + 1
      BY <2>2, <2>3
    <2>5. p <= n
      BY <1>3, <1>4
    <2>6. ASSUME NEW q \in Pids, q > n + 1 PROVE proc'[q].state = "free"
      <3>1. q # p /\ q # c /\ q > n
        BY <1>0, <1>4, <2>4, <2>5, <2>6
      <3> QED BY <1>4, <3>1 DEF Forked, Unmoved, Gone
    <2> QED BY <2>4, <2>6 DEF Gone
  <1>5. ASSUME Resumes(p, << >>), IsSeq(Tail(proc[p].todo))
        PROVE  proc'[p].todo = Tail(proc[p].todo)
    BY <1>5, PhaseFacts DEF Resumes
  <1>6. IsSeq(Late) /\ IsSeq(<<Outer>> \o Late) /\ IsSeq(<<SubReaper>> \o (<<Outer>> \o Late))
    BY PhaseFacts
  <1>7. CASE PhaseStart
    <2>0. p = 1 /\ proc[1].state # "free" /\ Running(1)
      BY <1>0, <1>1, <1>3, <1>7 DEF PhaseStart, Running
    <2>1. ASSUME Lone(p) PROVE Gone(1)' /\ Running(1)'
      BY <1>3, <1>7, <2>0, <2>1 DEF PhaseStart, Lone, Running
    <2>2. CASE proc[1].todo = <<Need>> \o (<<SubReaper>> \o (<<Outer>> \o Late))
      <3>1. proc[p].todo # << >> /\ Now(p) = Need /\ Tail(proc[p].todo) = <<SubReaper>> \o (<<Outer>> \o Late)
        BY <1>6, <2>0, <2>2, PhaseFacts DEF Now
      <3>2. Now(p).op = "call" /\ Now(p).good = << >> /\ Now(p).bad = <<Exit>>
        BY <3>1, PhaseFacts
      <3>3. Lone(p)
        BY <1>1, <3>1, <3>2, KindOf
      <3>4. \/ proc'[p].todo = <<SubReaper>> \o (<<Outer>> \o Late)
            \/ proc'[p].todo = <<Exit>> \o (<<SubReaper>> \o (<<Outer>> \o Late)) /\ bad' = TRUE
        <4>1. \/ proc'[p].todo = Now(p).good \o Tail(proc[p].todo)
              \/ proc'[p].todo = Now(p).bad \o Tail(proc[p].todo) /\ bad' = TRUE
          BY <3>2, <3>3, LoneTo
        <4> QED BY <1>6, <3>1, <3>2, <4>1, PhaseFacts
      <3>5. PhaseStart' \/ PhaseEnd'
        BY <1>6, <2>0, <2>1, <3>3, <3>4 DEF PhaseStart, PhaseEnd
      <3> QED BY <3>2, <3>5 DEF Phases, At, Now
    <2>3. CASE proc[1].todo = <<SubReaper>> \o (<<Outer>> \o Late)
      <3>1. proc[p].todo # << >> /\ Now(p) = SubReaper /\ Tail(proc[p].todo) = <<Outer>> \o Late
        BY <1>6, <2>0, <2>3, PhaseFacts DEF Now
      <3>2. Now(p).op = "subreaper"
        BY <3>1, PhaseFacts
      <3>3. Lone(p)
        BY <1>1, <3>1, <3>2, KindOf
      <3>4. proc'[p].todo = <<Outer>> \o Late
        BY <3>1, <3>2, <3>3, LoneTo
      <3>5. PhaseStart'
        BY <2>0, <2>1, <3>3, <3>4 DEF PhaseStart
      <3> QED BY <3>2, <3>5 DEF Phases, At, Now
    <2>4. CASE proc[1].todo = <<Outer>> \o Late
      <3>1. proc[p].todo # << >> /\ Now(p) = Outer /\ Tail(proc[p].todo) = Late
        BY <1>6, <2>0, <2>4, PhaseFacts DEF Now
      <3>2. Now(p).op = "fork" /\ Now(p).child = <<Inner>> /\ Now(p).parent = << >> /\ Now(p).failed = << >>
        BY <3>1, PhaseFacts
      <3>3. CASE ForkFails(p)
        <4>1. Gone(1)' /\ proc'[1].todo = Late /\ bad' = TRUE
          <5>1. Unmoved({p}) /\ Resumes(p, << >>) /\ bad' = TRUE
            BY <3>2, <3>3 DEF ForkFails
          <5>2. Gone(1)
            BY <1>7 DEF PhaseStart
          <5>3. Gone(1)'
            BY <1>3, <5>1, <5>2
          <5>4. proc'[p].todo = Late
            BY <1>5, <1>6, <3>1, <5>1
          <5> QED BY <2>0, <5>1, <5>3, <5>4
        <4>2. \A q \in Pids : q <= 1 => q = 1
          BY <1>0
        <4>3. Made(Mild)'
          BY <1>2, <4>1, <4>2, MildLate
        <4>4. PhaseEnd'
          BY <4>1, <4>3 DEF PhaseEnd
        <4> QED BY <3>2, <4>4 DEF Phases, At, Now
      <3>4. CASE \E c \in Pids : Forked(p, c)
        <4>1. PICK c \in Pids : Forked(p, c)
          BY <3>4
        <4>2. \A q \in Pids : q <= 1 => proc[q].state # "free"
          BY <1>0, <2>0
        <4>3. c = 2 /\ Gone(2)'
          <5>1. c = 1 + 1 /\ Gone(1 + 1)'
            BY <1>4, <1>7, <4>1, <4>2 DEF PhaseStart
          <5> QED BY <5>1
        <4>4. proc'[1].todo = Late /\ proc'[1].state = "run"
          <5>1. Resumes(p, << >>)
            BY <3>2, <4>1 DEF Forked
          <5>2. proc'[p].todo = Late
            BY <1>5, <1>6, <3>1, <5>1
          <5> QED BY <2>0, <5>1, <5>2 DEF Resumes
        <4>5. proc'[2].todo = <<Inner>> \o Late /\ proc'[2].state = "run" /\ proc'[2].parent = 1
          BY <2>0, <3>1, <3>2, <4>1, <4>3 DEF Forked
        <4>6. PhaseFork'
          BY <4>3, <4>4, <4>5 DEF PhaseFork, Waits1, Running
        <4> QED BY <3>2, <4>6 DEF Phases, At, Now
      <3> QED BY <1>1, <3>1, <3>2, <3>3, <3>4, KindOf
    <2> QED BY <1>7, <2>2, <2>3, <2>4 DEF PhaseStart
  <1>8. CASE PhaseEnd
    <2>0. p = 1 /\ bad' /\ Gone(1)
      BY <1>0, <1>1, <1>3, <1>8 DEF PhaseEnd
    <2>1. Children(p) = {}
      <3>1. \A c \in Pids : c = 1 \/ c > 1
        BY <1>0
      <3>2. \A c \in Pids : proc[c].state = "free" \/ proc[c].parent # p
        BY <1>0, <2>0, <3>1 DEF Gone
      <3> QED BY <3>2 DEF Children
    <2>2. ~At(p, "fork") /\ ~At(p, "say")
      <3>1. CASE Made(Mild)
        BY <3>1, MildStep
      <3>2. CASE \E v : IsSeq(v) /\ proc[1].todo = <<Exit>> \o v
        BY <2>0, <3>2, PhaseFacts DEF At
      <3> QED BY <1>8, <3>1, <3>2 DEF PhaseEnd
    <2>3. Unmoved({p})
      <3>1. ~(\E c \in Pids : Forked(p, c)) /\ ~(\E c \in Pids : Waited(p, c))
        BY <2>1, <2>2 DEF Forked, Waited, Zombies
      <3>2. ASSUME NEW s, Over(p, s) PROVE Unmoved({p})
        BY <2>1, <3>2, OverQuiet
      <3> QED BY <1>1, <3>1, <3>2 DEF Kind, Lone, ForkFails, WaitFails
    <2>4. Gone(1)'
      BY <1>3, <2>0, <2>3
    <2>5. CASE Made(Mild)
      <3>1. Made(Mild)'
        BY <2>5, StepFit
      <3> QED BY <2>0, <2>2, <2>4, <3>1 DEF Phases, PhaseEnd
    <2>6. CASE \E v : IsSeq(v) /\ proc[1].todo = <<Exit>> \o v
      <3>1. proc[p].todo # << >> /\ Now(p) = Exit
        BY <2>0, <2>6, PhaseFacts DEF Now
      <3>2. Over(p, Now(p).status)
        BY <1>1, <3>1, KindOf, PhaseFacts
      <3>3. proc'[1].todo = << >>
        BY <1>1, <2>0, <3>2, OverLeaves DEF TypeOK
      <3>4. \A q \in Pids : q <= 1 => q = 1
        BY <1>0
      <3>5. Made(Mild)'
        BY <1>2, <2>4, <3>3, <3>4, ProgramTuples
      <3> QED BY <2>0, <2>2, <2>4, <3>5 DEF Phases, PhaseEnd
    <2> QED BY <1>8, <2>5, <2>6 DEF PhaseEnd
  <1>20. SUFFICES ASSUME PhaseFork \/ PhaseBack \/ PhaseWait PROVE Phases' /\ ~At(p, "say")
    BY <1>7, <1>8 DEF Phases
  <1>21. /\ 2 \in Pids /\ Running(1) /\ proc[1].todo = Late /\ proc[2].parent = 1
         /\ proc[2].state # "free" /\ 2 \in Children(1)
    BY <1>0, <1>20, MaxProcsAssumption DEF PhaseFork, PhaseBack, PhaseWait, Waits1, Running, Pids, Children
  <1>22. ASSUME p = 1
         PROVE  /\ Now(p) = Join /\ ~At(p, "say")
                /\ \E c \in Pids : Waited(p, c)
    <2>1. proc[p].todo # << >> /\ Now(p) = Join /\ Now(p).op = "wait"
      BY <1>21, <1>22, PhaseFacts DEF Now
    <2>2. ~WaitFails(p)
      BY <1>21, <1>22 DEF WaitFails
    <2>3. \E c \in Pids : Waited(p, c)
      BY <1>1, <2>1, <2>2, KindOf
    <2> QED BY <2>1, <2>3 DEF At, Now
  <1>23. ASSUME NEW t, NEW c \in Pids, Now(p) = Join, Resumes(p, Answer(p, proc[c].status)),
                Tail(proc[p].todo) = t, IsSeq(t)
         PROVE  proc'[p].todo = t
    <2>1. proc[c].status \in Statuses
      BY DEF TypeOK
    <2>2. Join.zero = << >> /\ Join.other = << >> /\ Join.signal = << >>
      BY DEF Join, Wait
    <2>3. Answer(p, proc[c].status) = << >>
      BY <1>23, <2>1, <2>2 DEF Answer, Statuses
    <2>4. Resumes(p, << >>)
      BY <1>23, <2>3
    <2> QED BY <1>5, <1>23, <2>4
  <1>24. CASE PhaseFork
    <2>0. Gone(2) /\ Running(2) /\ proc[2].todo = <<Inner>> \o Late
      BY <1>24 DEF PhaseFork, Waits1
    <2>1. ASSUME p = 1 PROVE FALSE
      <3>1. PICK c \in Pids : Waited(p, c)
        BY <1>22, <2>1
      <3>2. c # 1 /\ proc[c].state = "zombie"
        BY <1>0, <3>1 DEF Waited, Zombies
      <3>3. c = 2
        BY <1>0, <2>0, <3>2 DEF Gone
      <3> QED BY <2>0, <3>2, <3>3 DEF Running
    <2>2. p = 2
      <3>1. p <= 2
        BY <1>3, <2>0
      <3> QED BY <1>0, <2>1, <3>1
    <2>3. proc[p].todo # << >> /\ Now(p) = Inner /\ Tail(proc[p].todo) = Late
      <3>1. proc[p].todo = <<Inner>> \o Late
        BY <2>0, <2>2
      <3> QED BY <1>6, <3>1, PhaseFacts, SMTT(30) DEF Now
    <2>4. Now(p).op = "fork" /\ Now(p).child = <<Asks>> /\ Now(p).parent = <<Note>> /\ Now(p).failed = <<Note>>
      BY <2>3, PhaseFacts
    <2>5. CASE ForkFails(p)
      <3>1. Gone(2)' /\ proc'[2].todo = <<Note>> \o Late /\ bad' = TRUE /\ proc'[1] = proc[1]
        BY <1>0, <1>3, <2>0, <2>2, <2>3, <2>4, <2>5 DEF ForkFails, Unmoved, Resumes
      <3>2. \A q \in Pids : q <= 2 => q = 1 \/ q = 2
        BY <1>0
      <3>3. Made(Mild)'
        <4>1. \A q \in Pids : q <= 2 => Program(proc'[q].todo, Mild)
          BY <1>21, <3>1, <3>2, MildLate
        <4> QED BY <1>2, <3>1, <4>1
      <3>4. proc'[2].state = "run" /\ proc'[2].parent = 1
        BY <1>21, <2>2, <2>5 DEF ForkFails, Resumes
      <3>5. PhaseBack'
        BY <1>21, <3>1, <3>3, <3>4 DEF PhaseBack, Waits1, Running
      <3> QED BY <2>4, <3>5 DEF Phases, At, Now
    <2>6. CASE \E c \in Pids : Forked(p, c)
      <3>1. PICK c \in Pids : Forked(p, c)
        BY <2>6
      <3>2. \A q \in Pids : q <= 2 => proc[q].state # "free"
        BY <1>0, <1>21 DEF Running
      <3>3. c = 3 /\ Gone(3)'
        <4>1. c = 2 + 1 /\ Gone(2 + 1)'
          BY <1>4, <2>0, <3>1, <3>2
        <4> QED BY <4>1
      <3>4. proc'[1] = proc[1]
        BY <1>0, <2>2, <3>1, <3>3 DEF Forked, Unmoved
      <3>5. proc'[2].todo = <<Note>> \o Late /\ proc'[2].state = "run" /\ proc'[2].parent = 1
        BY <1>21, <2>2, <2>3, <2>4, <3>1 DEF Forked, Resumes
      <3>6. proc'[3].todo = <<Asks>> \o Late /\ proc'[3].state = "run" /\ proc'[3].parent = 2
        BY <2>2, <2>3, <2>4, <3>1, <3>3 DEF Forked
      <3>7. PhaseWait'
        BY <1>21, <3>1, <3>3, <3>4, <3>5, <3>6 DEF PhaseWait, Waits1, Running
      <3> QED BY <2>4, <3>7 DEF Phases, At, Now
    <2> QED BY <1>1, <2>3, <2>4, <2>5, <2>6, KindOf
  <1>25. CASE PhaseBack
    <2>0. Gone(2) /\ bad' /\ Made(Mild)' /\ ~At(p, "say") /\ ~At(p, "fork")
      BY <1>1, <1>25, StepFit, MildStep DEF PhaseBack, Waits1
    <2>1. \A q \in Pids : q # 1 /\ q # 2 => proc[q].state = "free"
      BY <1>0, <2>0 DEF Gone
    <2>2. CASE p = 1
      <3>1. PICK c \in Pids : Waited(p, c)
        BY <1>22, <2>2
      <3>2. c = 2
        <4>1. c # 1 /\ proc[c].state = "zombie"
          BY <1>0, <3>1 DEF Waited, Zombies
        <4> QED BY <2>1, <4>1
      <3>3. Unmoved({1, 2}) /\ proc'[2] = Free
        BY <2>2, <3>1, <3>2 DEF Waited
      <3>4. Gone(1)'
        <4>1. \A q \in Pids : q > 1 => q # 1
          BY <1>0
        <4> QED BY <2>1, <3>3, <4>1, FreeFields DEF Gone, Unmoved
      <3> QED BY <2>0, <3>4 DEF PhaseEnd, Phases
    <2>3. CASE p = 2
      <3>1. Children(p) = {}
        <4>1. proc[1].parent = 0 /\ proc[2].parent = 1
          BY <1>0, <1>21
        <4>2. \A c \in Pids : proc[c].state = "free" \/ proc[c].parent # 2
          BY <2>1, <4>1
        <4> QED BY <2>3, <4>2 DEF Children
      <3>2. Unmoved({p}) /\ proc'[2].state # "free" /\ proc'[2].parent = 1
        <4>1. CASE Lone(p) \/ ForkFails(p) \/ WaitFails(p)
          BY <1>21, <2>3, <4>1 DEF Lone, ForkFails, WaitFails, Resumes
        <4>2. CASE \E s : Over(p, s)
          <5>1. proc[p].parent # 0
            BY <1>21, <2>3
          <5>2. Unmoved({p}) /\ proc'[p].state = "zombie" /\ proc'[p].parent = proc[p].parent
            BY <3>1, <4>2, <5>1, OverQuiet
          <5> QED BY <1>21, <2>3, <5>2
        <4>3. ~(\E c \in Pids : Forked(p, c)) /\ ~(\E c \in Pids : Waited(p, c))
          BY <2>0, <3>1 DEF Forked, Waited, Zombies
        <4> QED BY <1>1, <4>1, <4>2, <4>3 DEF Kind
      <3>3. Gone(2)' /\ proc'[1] = proc[1]
        BY <1>0, <1>3, <2>0, <2>3, <3>2 DEF Unmoved
      <3>4. PhaseBack'
        BY <1>21, <2>0, <3>2, <3>3 DEF PhaseBack, Waits1, Running
      <3> QED BY <2>0, <3>4 DEF Phases
    <2> QED BY <1>1, <2>1, <2>2, <2>3 DEF Running
  <1>26. CASE PhaseWait
    <2>0. Gone(3) /\ 3 \in Pids /\ Running(2) /\ proc[3].parent = 2 /\ proc[3].state # "free" /\ 3 \in Children(2)
      BY <1>26 DEF PhaseWait, Waits1, Running, Children
    <2>1. \A q \in Pids : q # 1 /\ q # 2 /\ q # 3 => proc[q].state = "free"
      BY <1>0, <2>0 DEF Gone
    <2>2. ASSUME p = 1 PROVE FALSE
      <3>1. PICK c \in Pids : Waited(p, c)
        BY <1>22, <2>2
      <3>2. c # 1 /\ proc[c].state = "zombie" /\ proc[c].parent = 1
        BY <1>0, <2>2, <3>1 DEF Waited, Zombies, Children
      <3> QED BY <2>0, <2>1, <3>2 DEF Running
    <2>3. ASSUME Gone(3)', proc'[1] = proc[1] PROVE Waits1(3)' <=> proc'[2].parent = 1
      BY <1>21, <2>0, <2>3 DEF Waits1, Running
    <2>4. CASE p = 2
      <3>1. CASE proc[2].todo = <<Note>> \o Late
        <4>1. proc[p].todo # << >> /\ Now(p) = Note /\ Tail(proc[p].todo) = Late
          BY <1>6, <2>4, <3>1, PhaseFacts, SMTT(30) DEF Now
        <4>2. Now(p).op = "call" /\ Now(p).good = << >> /\ Now(p).bad = << >>
          BY <4>1, PhaseFacts
        <4>3. Lone(p)
          BY <1>1, <4>1, <4>2, KindOf
        <4>4. proc'[p].todo = Late
          <5>1. \/ proc'[p].todo = Now(p).good \o Tail(proc[p].todo)
                \/ proc'[p].todo = Now(p).bad \o Tail(proc[p].todo) /\ bad' = TRUE
            BY <4>2, <4>3, LoneTo
          <5>2. << >> \o Late = Late
            BY PhaseFacts
          <5> QED BY <4>1, <4>2, <5>1, <5>2
        <4>5. proc'[1] = proc[1] /\ proc'[3] = proc[3] /\ Gone(3)' /\ proc'[2].state = "run" /\ proc'[2].parent = 1
          BY <1>0, <1>3, <1>21, <2>0, <2>4, <4>3 DEF Lone, Unmoved
        <4>6. Waits1(3)'
          BY <2>3, <4>5
        <4>7. PhaseWait'
          BY <1>1, <1>26, <2>4, <4>4, <4>5, <4>6 DEF PhaseWait, Running
        <4> QED BY <4>2, <4>7 DEF Phases, At, Now
      <3>2. CASE proc[2].todo = Late
        <4>1. proc[p].todo # << >> /\ Now(p) = Join /\ Now(p).op = "wait" /\ Tail(proc[p].todo) = <<Note>>
          BY <2>4, <3>2, PhaseFacts DEF Now
        <4>2. ~WaitFails(p)
          BY <2>0, <2>4 DEF WaitFails
        <4>3. PICK c \in Pids : Waited(p, c)
          BY <1>1, <4>1, <4>2, KindOf
        <4>4. c = 3 /\ proc[3].state = "zombie"
          BY <1>0, <1>21, <2>1, <2>4, <4>3 DEF Waited, Zombies, Children
        <4>5. bad
          BY <1>26, <4>4 DEF PhaseWait, Running
        <4>6. proc'[2].todo = <<Note>>
          BY <1>23, <2>4, <4>1, <4>3, Tuples DEF Waited
        <4>7. /\ Unmoved({2, 3}) /\ proc'[3] = Free /\ proc'[2].state = "run" /\ proc'[2].parent = 1
              /\ proc'[1] = proc[1]
          BY <1>0, <1>21, <2>4, <4>3, <4>4 DEF Waited, Resumes, Unmoved
        <4>8. Gone(2)'
          <5>1. \A q \in Pids : q > 2 => q # 1 /\ q # 2
            BY <1>0
          <5> QED BY <2>1, <4>7, <5>1, FreeFields DEF Gone, Unmoved
        <4>9. Made(Mild)'
          <5>1. \A q \in Pids : q <= 2 => q = 1 \/ q = 2
            BY <1>0
          <5>2. \A q \in Pids : q <= 2 => Program(proc'[q].todo, Mild)
            BY <1>21, <4>6, <4>7, <5>1, MildLate
          <5> QED BY <1>2, <4>8, <5>2
        <4>10. PhaseBack'
          BY <1>1, <1>21, <4>5, <4>7, <4>8, <4>9 DEF PhaseBack, Waits1, Running
        <4> QED BY <4>1, <4>10 DEF Phases, At, Now
      <3> QED BY <1>26, <3>1, <3>2 DEF PhaseWait
    <2>5. CASE p = 3
      <3>0. Children(p) = {}
        BY <1>0, <1>21, <2>0, <2>1, <2>5 DEF Children
      <3>1. ASSUME Unmoved({p}), proc'[3].parent = 2,
                   \/ proc'[3].state = "run" /\ proc'[3].todo = <<Miss>> \o (<<Exit>> \o Late)
                   \/ bad' /\ proc'[3].state = "run" /\ proc'[3].todo = <<Exit>> \o Late
                   \/ bad' /\ proc'[3].state = "zombie"
            PROVE  Phases'
        <4>1. proc'[1] = proc[1] /\ proc'[2] = proc[2] /\ Gone(3)'
          BY <1>0, <1>3, <1>21, <2>0, <2>5, <3>1 DEF Unmoved
        <4>2. Waits1(3)'
          BY <1>21, <2>3, <4>1
        <4>3. PhaseWait'
          BY <1>26, <3>1, <4>1, <4>2 DEF PhaseWait, Running
        <4> QED BY <4>3 DEF Phases
      <3>2. CASE proc[3].todo = <<Asks>> \o Late
        <4>1. proc[p].todo # << >> /\ Now(p) = Asks /\ Tail(proc[p].todo) = Late
          BY <1>6, <2>5, <3>2, PhaseFacts DEF Now
        <4>2. Now(p).op = "if" /\ Now(p).cond = "adopted"
          BY <4>1, PhaseFacts
        <4>3. Branches(p)
          BY <1>1, <4>1, <4>2
             DEF Step, Calls, Misses, Picks, Assigns, Says, Opens, Closes, Reaps, Forks, Waits,
                 Becomes, Ends, Returns, At, Now
        <4>4. ~Holds(p, "adopted")
          BY <1>0, <2>0, <2>5 DEF Holds
        <4>5. Goes(p, Asks.no)
          BY <4>1, <4>2, <4>3, <4>4 DEF Branches
        <4>6. Unmoved({p}) /\ Resumes(p, Asks.no)
          BY <1>1, <4>5, GoesFields
        <4>7. proc'[p].todo = <<Miss>> \o (<<Exit>> \o Late)
          BY <4>1, <4>6, PhaseFacts DEF Resumes
        <4> QED BY <2>0, <2>5, <3>1, <4>2, <4>6, <4>7 DEF Resumes, At, Now
      <3>3. CASE proc[3].todo = <<Miss>> \o (<<Exit>> \o Late)
        <4>1. proc[p].todo # << >> /\ Now(p) = Miss /\ Tail(proc[p].todo) = <<Exit>> \o Late
          BY <1>6, <2>5, <3>3, PhaseFacts DEF Now
        <4>2. Now(p).op = "miss"
          BY <4>1, PhaseFacts
        <4>3. Lone(p)
          BY <1>1, <4>1, <4>2, KindOf
        <4>4. proc'[p].todo = <<Exit>> \o Late /\ bad' = TRUE
          BY <4>1, <4>2, <4>3, LoneTo
        <4> QED BY <2>0, <2>5, <3>1, <4>2, <4>3, <4>4 DEF Lone, At, Now
      <3>4. CASE bad /\ proc[3].todo = <<Exit>> \o Late
        <4>1. proc[p].todo # << >> /\ Now(p) = Exit /\ Now(p).op = "end"
          BY <1>6, <2>5, <3>4, PhaseFacts DEF Now
        <4>2. Over(p, Now(p).status)
          BY <1>1, <4>1, KindOf
        <4>3. Unmoved({p}) /\ proc'[p].state = "zombie" /\ proc'[p].parent = proc[p].parent
          BY <2>0, <2>5, <3>0, <4>2, OverQuiet
        <4> QED BY <1>1, <2>0, <2>5, <3>1, <3>4, <4>1, <4>3 DEF At, Now
      <3> QED BY <1>1, <1>26, <2>5, <3>2, <3>3, <3>4 DEF PhaseWait, Running
    <2> QED BY <1>1, <2>1, <2>2, <2>4, <2>5 DEF Running
  <1> QED BY <1>20, <1>24, <1>25, <1>26

\* The end of prctl03: main is alone, after a failure.
LEMMA PhaseLast ==
  ASSUME Phases, Ended
  PROVE  bad /\ \A p \in Pids : p # Main => proc[p].state = "free"
  <1>1. PhaseEnd
    BY DEF Phases, PhaseStart, PhaseFork, PhaseBack, PhaseWait, Waits1, Ended, Main
  <1> QED BY <1>1 DEF PhaseEnd, Gone, Pids, Main

-----------------------------------------------------------------------------
(* execve02 and execve04: one process has the verdict, the other is idle   *)

\* The helper is held open by the child of execve04 just then, or not.
Look  == Call(<<Say>>, <<Become(<< >>)>>)
Busy  == If("busy", <<Look>>, <<Miss, Become(<< >>)>>)
Tries == If("helper", <<Busy>>, <<Miss>>)
Locks == Fork(<<OpenHelper, CloseHelper, Exit>>, << >>, << >>)

\* The child of execve02, and the fork.
Execs == If("helper", <<Call(<<Say, Exit>>, <<Pick(<<Become(<< >>)>>, << >>)>>)>>, <<Miss>>)
Sends == Fork(<<Execs>>, << >>, << >>)

\* The operations of a process that has no children.
Childless == Ops \ {"fork", "wait"}

\* The programs the processes go through.
LEMMA TrailFacts ==
  /\ execve04 = <<Locks>> \o <<Tries>> /\ execve02 = <<Touch>> \o <<Sends>>
  /\ Locks.op = "fork" /\ Locks.parent = << >> /\ Locks.failed = << >>
  /\ Locks.child \o <<Tries>> = <<OpenHelper>> \o (<<CloseHelper>> \o (<<Exit>> \o <<Tries>>))
  /\ Sends.op = "fork" /\ Sends.child = <<Execs>> /\ Sends.parent = << >> /\ Sends.failed = << >>
  /\ Tries.op = "if" /\ Tries.yes = <<Busy>> /\ Tries.no = <<Miss>>
  /\ Busy.op = "if" /\ Busy.cond = "busy" /\ Busy.no = <<Miss, Become(<< >>)>>
  /\ Touch.op = "call" /\ Touch.good = << >> /\ Touch.bad = <<Die>> /\ Die.op = "end"
  /\ Exit.op = "end" /\ OpenHelper.op = "open" /\ CloseHelper.op = "close"
  /\ IsSeq(<< >>) /\ \A s : /\ IsSeq(<<s>>) /\ <<s>> # << >> /\ <<s>> \o << >> = <<s>>
                            /\ Head(<<s>>) = s /\ Tail(<<s>>) = << >>
  /\ << >> \o << >> = << >>
  <1>1. IsSeq(<< >>) /\ << >> \o << >> = << >>
    BY Tuples, Cat
  <1>2. \A s : /\ IsSeq(<<s>>) /\ <<s>> # << >> /\ <<s>> \o << >> = <<s>>
               /\ Head(<<s>>) = s /\ Tail(<<s>>) = << >>
    <2> SUFFICES ASSUME NEW s PROVE /\ IsSeq(<<s>>) /\ <<s>> # << >> /\ <<s>> \o << >> = <<s>>
                                    /\ Head(<<s>>) = s /\ Tail(<<s>>) = << >>
      OBVIOUS
    <2>1. IsSeq(<<s>>)
      BY Tuples
    <2>2. <<s>> \o << >> = <<s>>
      BY <2>1, Cat
    <2>3. <<s>> \o << >> # << >> /\ Head(<<s>> \o << >>) = s /\ Tail(<<s>> \o << >>) = << >>
      BY <1>1, Cons
    <2> QED BY <2>1, <2>2, <2>3
  <1>3. \A a, b : <<a, b>> = <<a>> \o <<b>>
    BY Tuples
  <1>4. execve04 = <<Locks>> \o <<Tries>>
    <2>1. execve04 = <<Locks, Tries>>
      BY DEF execve04, Locks, Tries, Busy, Look
    <2> QED BY <1>3, <2>1
  <1>5. execve02 = <<Touch>> \o <<Sends>>
    <2>1. execve02 = <<Touch, Sends>>
      BY DEF execve02, Sends, Execs
    <2> QED BY <1>3, <2>1
  <1>6. Locks.op = "fork" /\ Locks.parent = << >> /\ Locks.failed = << >> /\ Locks.child = <<OpenHelper, CloseHelper, Exit>>
    BY DEF Locks, Fork
  <1>7. Locks.child \o <<Tries>> = <<OpenHelper>> \o (<<CloseHelper>> \o (<<Exit>> \o <<Tries>>))
    <2>1. <<OpenHelper, CloseHelper, Exit>> = <<OpenHelper>> \o <<CloseHelper, Exit>>
      BY Tuples, SMTT(30)
    <2>2. IsSeq(<<CloseHelper, Exit>>) /\ <<CloseHelper, Exit>> = <<CloseHelper>> \o <<Exit>>
      BY Tuples
    <2>3. (<<OpenHelper>> \o <<CloseHelper, Exit>>) \o <<Tries>> = <<OpenHelper>> \o (<<CloseHelper, Exit>> \o <<Tries>>)
      BY <1>2, <2>2, Assoc
    <2>4. (<<CloseHelper>> \o <<Exit>>) \o <<Tries>> = <<CloseHelper>> \o (<<Exit>> \o <<Tries>>)
      BY <1>2, Assoc
    <2> QED BY <1>6, <2>1, <2>2, <2>3, <2>4
  <1>8. Sends.op = "fork" /\ Sends.child = <<Execs>> /\ Sends.parent = << >> /\ Sends.failed = << >>
    BY DEF Sends, Fork
  <1>9. /\ Tries.op = "if" /\ Tries.yes = <<Busy>> /\ Tries.no = <<Miss>>
        /\ Busy.op = "if" /\ Busy.cond = "busy" /\ Busy.no = <<Miss, Become(<< >>)>>
    BY DEF Tries, Busy, If
  <1>10. /\ Touch.op = "call" /\ Touch.good = << >> /\ Touch.bad = <<Die>> /\ Die.op = "end"
         /\ Exit.op = "end" /\ OpenHelper.op = "open" /\ CloseHelper.op = "close"
    BY DEF Touch, Call, Die, Exit, End, OpenHelper, CloseHelper
  <1> QED BY <1>1, <1>2, <1>4, <1>5, <1>6, <1>7, <1>8, <1>9, <1>10

\* What is left of them to do is judged and made of these operations.
LEMMA TrailRuns ==
  /\ \A o \in BOOLEAN : /\ Run(<<Tries>>, o, FALSE, FALSE, FALSE, NoLie)
                        /\ Run(<<Execs>>, o, FALSE, FALSE, FALSE, NoLie)
  /\ Program(<<Tries>>, Childless) /\ Program(<<Execs>>, Childless)
  /\ Program(<<Miss>>, Mild) /\ Program(<<Miss, Become(<< >>)>>, Mild) /\ Program(<< >>, Mild)
  <1> DEFINE R(t, o, b, x) == Run(t, o, b, FALSE, x, NoLie)
             e == Become(<< >>)
             c == Pick(<<e>>, << >>)
             d == Call(<<Say, Exit>>, <<c>>)
  <1>0. IsSeq(<< >>) /\ (\A s : IsSeq(<<s>>) /\ <<s>> \o << >> = <<s>>) /\ << >> \o << >> = << >>
    BY TrailFacts
  <1>1. \A z \in Statuses, b, x \in BOOLEAN : (b => ~x) => <<z, b, FALSE, x>> \in NoLie
    BY VerdictFacts DEF Wrote
  <1>2. ASSUME NEW o \in BOOLEAN, NEW b \in BOOLEAN, NEW x \in BOOLEAN, b => ~x
        PROVE  R(<< >>, o, b, x)
    <2>1. {"zero", "other"} \subseteq Statuses
      BY DEF Statuses
    <2> QED BY <1>1, <1>2, <2>1, RunSteps
  <1> HIDE DEF R
  <1>3. ASSUME NEW o \in BOOLEAN
        PROVE  /\ \A x \in BOOLEAN : R(<<e>>, o, FALSE, x) /\ R(<<Miss>>, o, FALSE, x)
               /\ R(<<Miss, e>>, o, FALSE, FALSE) /\ R(<<Say>>, o, FALSE, FALSE)
    <2>1. R(<< >>, TRUE, FALSE, TRUE) /\ R(<< >>, TRUE, FALSE, FALSE) /\ R(<< >>, o, FALSE, TRUE)
          /\ R(<< >>, o, TRUE, FALSE)
      BY <1>2
    <2>2. R(<<e>> \o << >>, o, FALSE, TRUE) /\ R(<<e>> \o << >>, o, FALSE, FALSE)
      BY <1>0, <2>1, RunSteps DEF R
    <2>3. R(<<Miss>> \o << >>, o, FALSE, TRUE) /\ R(<<Miss>> \o << >>, o, FALSE, FALSE)
      BY <1>0, <2>1, RunSteps DEF R
    <2>4. R(<<Say>> \o << >>, o, FALSE, FALSE)
      BY <1>0, <2>1, RunSteps DEF R
    <2>5. R(<<Miss>> \o <<e>>, o, FALSE, FALSE)
      BY <1>0, <2>2, RunSteps DEF R
    <2>6. <<Miss, e>> = <<Miss>> \o <<e>>
      BY Tuples
    <2>7. \A x \in BOOLEAN : R(<<e>>, o, FALSE, x) /\ R(<<Miss>>, o, FALSE, x)
      <3>1. \A x \in BOOLEAN : x = TRUE \/ x = FALSE
        OBVIOUS
      <3>2. R(<<e>>, o, FALSE, TRUE) /\ R(<<e>>, o, FALSE, FALSE)
        BY <1>0, <2>2
      <3>3. R(<<Miss>>, o, FALSE, TRUE) /\ R(<<Miss>>, o, FALSE, FALSE)
        BY <1>0, <2>3
      <3> HIDE DEF e
      <3> QED BY <3>1, <3>2, <3>3
    <2> QED BY <1>0, <2>4, <2>5, <2>6, <2>7
  <1>4. ASSUME NEW o \in BOOLEAN PROVE R(<<Tries>>, o, FALSE, FALSE)
    <2>1. R(<<Look>> \o << >>, o, FALSE, FALSE)
      <3>1. R(<<Say>> \o << >>, o, FALSE, FALSE) /\ R(<<e>> \o << >>, o, FALSE, TRUE)
        BY <1>0, <1>3
      <3> QED BY <1>0, <3>1, RunSteps DEF R, Look
    <2>2. R(<<Busy>> \o << >>, o, FALSE, FALSE)
      <3>1. <<Miss, e>> \o << >> = <<Miss, e>>
        BY Tuples, Cat
      <3>2. R(<<Miss, e>> \o << >>, o, FALSE, FALSE)
        BY <1>3, <3>1
      <3> QED BY <1>0, <2>1, <3>2, RunSteps DEF R, Busy
    <2>3. R(<<Miss>> \o << >>, o, FALSE, FALSE)
      BY <1>0, <1>3
    <2>4. R(<<Tries>> \o << >>, o, FALSE, FALSE)
      BY <1>0, <2>2, <2>3, RunSteps DEF R, Tries
    <2> QED BY <1>0, <2>4
  <1>5. ASSUME NEW o \in BOOLEAN PROVE R(<<Execs>>, o, FALSE, FALSE)
    <2>1. R(<<c>> \o << >>, o, FALSE, TRUE)
      <3>1. R(<<e>> \o << >>, o, FALSE, TRUE) /\ R(<< >> \o << >>, o, FALSE, TRUE)
        BY <1>0, <1>2, <1>3
      <3> QED BY <1>0, <3>1, RunSteps DEF R
    <2>2. R(<<Say, Exit>> \o << >>, o, FALSE, FALSE)
      <3>1. "zero" \in Statuses
        BY DEF Statuses
      <3>2. <<"zero", TRUE, FALSE, FALSE>> \in NoLie
        BY <1>1, <3>1
      <3>3. R(<<Exit>> \o << >>, o, TRUE, FALSE)
        BY <1>0, <3>2, RunSteps DEF R, Exit
      <3>4. R(<<Say>> \o <<Exit>>, o, FALSE, FALSE)
        BY <1>0, <3>3, RunSteps DEF R
      <3>5. <<Say, Exit>> = <<Say>> \o <<Exit>> /\ <<Say, Exit>> \o << >> = <<Say, Exit>>
        BY Tuples, Cat
      <3> QED BY <3>4, <3>5
    <2>3. R(<<d>> \o << >>, o, FALSE, FALSE)
      <3> HIDE DEF c
      <3> QED BY <1>0, <2>1, <2>2, RunSteps DEF R
    <2>4. R(<<Miss>> \o << >>, o, FALSE, FALSE)
      BY <1>0, <1>3
    <2>5. R(<<Execs>> \o << >>, o, FALSE, FALSE)
      BY <1>0, <2>3, <2>4, RunSteps DEF R, Execs, d, c, e
    <2> QED BY <1>0, <2>5
  <1>6. ASSUME NEW ops, {"miss", "become"} \subseteq ops
        PROVE  /\ Program(<< >>, ops) /\ Program(<<Miss>>, ops) /\ WellMade(Miss, ops)
               /\ WellMade(e, ops) /\ Program(<<Miss, e>>, ops) /\ Program(<<e>>, ops)
    <2>1. Program(<< >>, ops)
      BY ProgramTuples
    <2>2. WellMade(Miss, ops)
      <3>1. Miss.op = "miss" /\ Parts("miss") = {}
        BY DEF Miss, Parts
      <3> QED BY <1>6, <3>1, MadeIff DEF Typed
    <2>3. WellMade(e, ops)
      <3>1. e.op = "become" /\ Parts("become") = {"steps"} /\ e["steps"] = << >>
        BY DEF Become, Parts
      <3> HIDE DEF e
      <3> QED BY <1>6, <2>1, <3>1, MadeIff DEF Typed
    <2> HIDE DEF e
    <2> QED BY <2>1, <2>2, <2>3, ProgramTuples
  <1>7. /\ {"miss", "become"} \subseteq Mild /\ {"miss", "become"} \subseteq Childless
        /\ {"if", "call", "pick", "say", "end"} \subseteq Childless
    BY DEF Mild, Childless, Ops
  <1>8. ASSUME NEW a, NEW b, Program(a, Childless), Program(b, Childless)
        PROVE  /\ Program(<<Call(a, b)>>, Childless) /\ Program(<<Pick(a, b)>>, Childless)
               /\ \A k \in {"helper", "busy"} : Program(<<If(k, a, b)>>, Childless)
    <2> DEFINE x == Call(a, b)
               y == Pick(a, b)
               z(k) == If(k, a, b)
    <2>1. x.op = "call" /\ x["good"] = a /\ x["bad"] = b /\ Parts("call") = {"good", "bad"}
      BY DEF Call, Parts
    <2>2. y.op = "pick" /\ y["good"] = a /\ y["bad"] = b /\ Parts("pick") = {"good", "bad"}
      BY DEF Pick, Parts
    <2>3. \A k : /\ z(k).op = "if" /\ z(k)["yes"] = a /\ z(k)["no"] = b /\ Parts("if") = {"yes", "no"}
                 /\ z(k)["cond"] = k
      BY DEF If, Parts
    <2> HIDE DEF x, y, z
    <2>4. WellMade(x, Childless)
      BY <1>7, <1>8, <2>1, MadeIff DEF Typed
    <2>5. WellMade(y, Childless)
      BY <1>7, <1>8, <2>2, MadeIff DEF Typed
    <2>6. \A k \in {"helper", "busy"} : WellMade(z(k), Childless)
      BY <1>7, <1>8, <2>3, MadeIff DEF Typed
    <2> QED BY <2>4, <2>5, <2>6, ProgramTuples DEF x, y, z
  <1>9. Program(<<Say>>, Childless) /\ Program(<<Say, Exit>>, Childless)
    <2>1. Say.op = "say" /\ Exit.op = "end" /\ Exit.status = "zero" /\ Parts("say") = {} /\ Parts("end") = {}
      BY DEF Say, Exit, End, Parts
    <2>2. WellMade(Say, Childless) /\ WellMade(Exit, Childless)
      BY <1>7, <2>1, MadeIff DEF Typed, Statuses
    <2> QED BY <2>2, ProgramTuples
  <1>10. Program(<<Tries>>, Childless)
    <2>1. Program(<<e>>, Childless) /\ Program(<<Miss, e>>, Childless) /\ Program(<<Miss>>, Childless)
      BY <1>6, <1>7
    <2>2. Program(<<Look>>, Childless)
      BY <1>8, <1>9, <2>1 DEF Look
    <2>3. Program(<<Busy>>, Childless)
      BY <1>8, <2>1, <2>2 DEF Busy
    <2> QED BY <1>8, <2>1, <2>3 DEF Tries
  <1>11. Program(<<Execs>>, Childless)
    <2>1. Program(<< >>, Childless) /\ Program(<<e>>, Childless) /\ Program(<<Miss>>, Childless)
      BY <1>6, <1>7
    <2>2. Program(<<c>>, Childless)
      BY <1>8, <2>1
    <2>3. Program(<<d>>, Childless)
      BY <1>8, <1>9, <2>2
    <2> QED BY <1>8, <2>1, <2>3 DEF Execs
  <1>12. Program(<<Miss>>, Mild) /\ Program(<<Miss, e>>, Mild) /\ Program(<< >>, Mild)
    BY <1>6, <1>7
  <1> QED BY <1>4, <1>5, <1>10, <1>11, <1>12 DEF R

\* What a process has to do that neither fails nor speaks.
Idle(t) ==
  \/ t = << >>
  \/ \E v : /\ IsSeq(v)
            /\ \/ t = <<Exit>> \o v
               \/ t = <<CloseHelper>> \o (<<Exit>> \o v)
               \/ t = <<OpenHelper>> \o (<<CloseHelper>> \o (<<Exit>> \o v))

\* The process q alone has a verdict before it, and all others are idle.
Solo(q) ==
  /\ q \in Pids
  /\ \A p \in Pids : p # q => proc[p].buf = 0 /\ Idle(proc[p].todo)
  /\ Program(proc[q].todo, Childless)
  /\ IF Running(q) THEN /\ log = 0
                        /\ Run(proc[q].todo, proc[q].ok, proc[q].buf > 0, FALSE, bad, NoLie)
                   ELSE log > 0 => ~bad

\* A call has failed, and nobody will say anything.
Doomed == Dumb /\ bad /\ Made(Mild)

\* Main is alone and has these steps before it.
Alone(t) == Gone(1) /\ Dumb /\ Running(1) /\ proc[1].todo = t

Begin ==
  \/ ~bad /\ writers = {} /\ Alone(<<Locks>> \o <<Tries>>)
  \/ bad /\ writers = {} /\ (Alone(<<Tries>>) \/ Alone(<<Busy>>))
  \/ ~bad /\ (Alone(<<Touch>> \o <<Sends>>) \/ Alone(<<Sends>>))
  \/ bad /\ Alone(<<Die>> \o <<Sends>>)

Trail == Begin \/ Doomed \/ \E q : Solo(q)

\* A step of a process that is idle.
LEMMA IdleStep ==
  ASSUME IInv, TypeOK, TypeOK', NEW p \in Pids, Kind(p), proc[p].buf = 0, Idle(proc[p].todo)
  PROVE  /\ proc'[p].buf = 0 /\ Idle(proc'[p].todo) /\ bad' = bad /\ log' = log
         /\ \A c \in Pids : ~Forked(p, c)
  <1>0. log \in Nat /\ \A v : IsSeq(v) => IsSeq(<<Exit>> \o v) /\ IsSeq(<<CloseHelper>> \o (<<Exit>> \o v))
    BY PhaseFacts DEF TypeOK
  <1>1. ASSUME NEW s, Over(p, s)
        PROVE  proc'[p].buf = 0 /\ Idle(proc'[p].todo) /\ bad' = bad /\ log' = log
    <2>1. proc'[p].state # "run" /\ bad' = bad /\ log' = (IF s = "signal" THEN log ELSE log + proc[p].buf)
      BY <1>1, OverLeaves
    <2>2. proc'[p].buf = 0 /\ proc'[p].todo = << >>
      BY <2>1 DEF TypeOK
    <2>3. log' = log
      BY <1>0, <2>1
    <2> QED BY <2>1, <2>2, <2>3 DEF Idle
  <1>2. CASE proc[p].todo = << >>
    <2>1. ~At(p, "fork")
      BY <1>2 DEF At
    <2>2. \E s \in {"zero", "other"} : Over(p, s)
      BY <1>2, KindOf
    <2> QED BY <1>1, <2>1, <2>2 DEF Forked
  <1>3. ASSUME NEW v, IsSeq(v), proc[p].todo = <<Exit>> \o v
        PROVE  /\ proc'[p].buf = 0 /\ Idle(proc'[p].todo) /\ bad' = bad /\ log' = log
               /\ \A c \in Pids : ~Forked(p, c)
    <2>1. proc[p].todo # << >> /\ Now(p) = Exit /\ Now(p).op = "end"
      BY <1>3, PhaseFacts DEF Now
    <2>2. Over(p, Now(p).status)
      BY <2>1, KindOf
    <2> QED BY <1>1, <2>1, <2>2 DEF Forked, At, Now
  <1>4. ASSUME NEW s \in {OpenHelper, CloseHelper}, NEW u, IsSeq(u), proc[p].todo = <<s>> \o u, Idle(u)
        PROVE  /\ proc'[p].buf = 0 /\ Idle(proc'[p].todo) /\ bad' = bad /\ log' = log
               /\ \A c \in Pids : ~Forked(p, c)
    <2>1. proc[p].todo # << >> /\ Now(p) = s /\ Tail(proc[p].todo) = u
      BY <1>4, PhaseFacts, SMTT(30) DEF Now
    <2>2. Now(p).op \in {"open", "close"}
      BY <2>1, TrailFacts
    <2>3. Lone(p)
      BY <2>1, <2>2, KindOf
    <2>4. proc'[p].todo = u /\ bad' = bad /\ proc'[p].buf = 0
      BY <2>1, <2>2, <2>3, LoneTo
    <2> QED BY <1>4, <2>2, <2>3, <2>4 DEF Forked, At, Now, Lone
  <1>5. ASSUME NEW v, IsSeq(v)
        PROVE  Idle(<<Exit>> \o v) /\ Idle(<<CloseHelper>> \o (<<Exit>> \o v))
    BY <1>5 DEF Idle
  <1>6. CASE proc[p].todo # << >>
    <2>1. PICK v : /\ IsSeq(v)
                   /\ \/ proc[p].todo = <<Exit>> \o v
                      \/ proc[p].todo = <<CloseHelper>> \o (<<Exit>> \o v)
                      \/ proc[p].todo = <<OpenHelper>> \o (<<CloseHelper>> \o (<<Exit>> \o v))
      BY <1>6 DEF Idle
    <2>2. CASE proc[p].todo = <<Exit>> \o v
      BY <1>3, <2>1, <2>2
    <2>3. CASE proc[p].todo = <<CloseHelper>> \o (<<Exit>> \o v)
      BY <1>0, <1>4, <1>5, <2>1, <2>3
    <2>4. CASE proc[p].todo = <<OpenHelper>> \o (<<CloseHelper>> \o (<<Exit>> \o v))
      BY <1>0, <1>4, <1>5, <2>1, <2>4
    <2> QED BY <2>1, <2>2, <2>3, <2>4
  <1> QED BY <1>2, <1>6

\* Every step keeps a solo.
LEMMA SoloStep ==
  ASSUME IInv, TypeOK, Made(Ops), NEW q, Solo(q), NEW p \in Pids, Step(p)
  PROVE  Solo(q)'
  <1>0. q \in Pids /\ log \in Nat /\ bad \in BOOLEAN /\ Fit(proc[q]) /\ Fit(proc[p]) /\ IsSeq(proc[p].todo)
    BY FitType DEF Solo, Made, Program
  <1>1. Kind(p) /\ Running(p) /\ TypeOK'
    BY <1>0, StepKinds, StepRuns, StepFit DEF Fit
  <1>2. ASSUME NEW r \in Pids, r # p, r # q, ~Forked(p, r)
        PROVE  proc'[r].buf = 0 /\ Idle(proc'[r].todo)
    <2>1. Alike(r) \/ proc'[r] = Free
      BY <1>1, <1>2, Others
    <2>2. Idle(<< >>)
      BY DEF Idle
    <2> QED BY <1>2, <2>1, <2>2, FreeFields DEF Solo, Alike
  <1>3. CASE p # q
    <2>1. /\ proc'[p].buf = 0 /\ Idle(proc'[p].todo) /\ bad' = bad /\ log' = log
          /\ \A c \in Pids : ~Forked(p, c)
      BY <1>1, <1>3, IdleStep DEF Solo
    <2>2. \A r \in Pids : r # q => proc'[r].buf = 0 /\ Idle(proc'[r].todo)
      BY <1>2, <2>1
    <2>3. Alike(q) \/ (proc'[q] = Free /\ proc[q].state = "zombie")
      BY <1>0, <1>1, <1>3, <2>1, Others
    <2>4. CASE Alike(q)
      <3>1. Program(proc'[q].todo, Childless) /\ (Running(q)' <=> Running(q))
        BY <2>4 DEF Alike, Solo, Running
      <3>2. CASE Running(q)
        <4>1. log = 0 /\ Run(proc[q].todo, proc[q].ok, proc[q].buf > 0, FALSE, bad, NoLie)
          BY <3>2 DEF Solo
        <4>2. proc'[q].todo = proc[q].todo /\ proc'[q].ok = proc[q].ok /\ proc'[q].buf = proc[q].buf
          BY <2>4 DEF Alike
        <4>3. log' = 0 /\ Run(proc'[q].todo, proc'[q].ok, proc'[q].buf > 0, FALSE, bad', NoLie)
          BY <2>1, <4>1, <4>2
        <4> QED BY <1>0, <2>2, <3>1, <3>2, <4>3 DEF Solo
      <3>3. CASE ~Running(q)
        BY <1>0, <2>1, <2>2, <3>1, <3>3 DEF Solo
      <3> QED BY <3>2, <3>3
    <2>5. CASE proc'[q] = Free /\ proc[q].state = "zombie"
      <3>1. Program(proc'[q].todo, Childless) /\ ~Running(q)' /\ ~Running(q)
        BY <2>5, FitFree, FreeFields DEF Running
      <3> QED BY <1>0, <2>1, <2>2, <3>1 DEF Solo
    <2> QED BY <2>3, <2>4, <2>5
  <1>4. CASE p = q
    <2> DEFINE t == proc[q].todo
               o == proc[q].ok
               b == proc[q].buf > 0
               m == <<proc'[q].todo, proc'[q].ok, proc'[q].buf > 0, bad'>>
    <2>0. /\ Running(q) /\ log = 0 /\ Run(t, o, b, FALSE, bad, NoLie) /\ Program(t, Childless)
          /\ o \in BOOLEAN /\ b \in BOOLEAN /\ proc[q].buf \in Nat
      <3>1. Running(q)
        BY <1>1, <1>4
      <3>2. log = 0 /\ Run(t, o, b, FALSE, bad, NoLie) /\ Program(t, Childless)
        BY <3>1 DEF Solo
      <3>3. o \in BOOLEAN /\ proc[q].buf \in Nat
        BY <1>0 DEF Fit
      <3>4. b \in BOOLEAN
        BY <3>3
      <3> QED BY <3>1, <3>2, <3>3, <3>4
    <2>1. t # << >> => Head(t).op \notin {"fork", "wait"}
      <3> SUFFICES ASSUME t # << >> PROVE Head(t).op \in Childless
        BY DEF Childless
      <3> HIDE DEF t
      <3> QED BY <2>0, ProgramTail, MadeIff DEF Typed
    <2>2. ~At(p, "fork") /\ ~At(p, "wait")
      BY <1>4, <2>1 DEF At
    <2>3. \A r \in Pids : r # q => proc'[r].buf = 0 /\ Idle(proc'[r].todo)
      BY <1>2, <1>4, <2>2 DEF Forked
    <2>4. CASE Lone(p)
      <3>1. t # << >> /\ m \in Moves(t, o, b, bad)
        BY <1>4, <2>4 DEF Lone
      <3>2. Head(t).op \notin {"end", "fork", "wait"}
        BY <3>1 DEF Moves
      <3> HIDE DEF t, o, b, m
      <3>3. \A n \in Moves(t, o, b, bad) : Run(n[1], n[2], n[3], FALSE, n[4], NoLie)
        BY <2>0, <3>1, <3>2, RunFollows
      <3>4. Run(m[1], m[2], m[3], FALSE, m[4], NoLie)
        BY <3>1, <3>3
      <3>5. Program(m[1], Childless)
        BY <1>0, <2>0, <3>1, MovesMade
      <3>6. /\ Run(proc'[q].todo, proc'[q].ok, proc'[q].buf > 0, FALSE, bad', NoLie)
            /\ Program(proc'[q].todo, Childless)
        BY <3>4, <3>5 DEF m
      <3>7. log' = 0 /\ Running(q)'
        BY <1>4, <2>0, <2>4 DEF Lone, Running
      <3> QED BY <1>0, <2>3, <3>6, <3>7 DEF Solo
    <2>5. CASE \E s : Over(p, s)
      <3>1. PICK s : Over(p, s)
        BY <2>5
      <3>2. /\ proc'[q].state # "run" /\ bad' = bad
            /\ log' = (IF s = "signal" THEN log ELSE log + proc[q].buf)
        BY <1>4, <3>1, OverLeaves
      <3>3. proc'[q].todo = << >>
        BY <1>0, <1>1, <3>2 DEF TypeOK
      <3>4. Program(proc'[q].todo, Childless) /\ ~Running(q)'
        BY <3>2, <3>3, ProgramTuples DEF Running
      <3>5. s \in Statuses /\ <<s, b, FALSE, bad>> \in NoLie
        <4>1. CASE t = << >> /\ s \in {"zero", "other"}
          <5> HIDE DEF t, o, b
          <5>1. <<"zero", b, FALSE, bad>> \in NoLie /\ <<"other", b, FALSE, bad>> \in NoLie
            BY <2>0, <4>1, RunFollows
          <5> QED BY <4>1, <5>1 DEF Statuses
        <4>2. CASE At(p, "end") /\ s = Now(p).status
          <5>1. t # << >> /\ Head(t).op = "end" /\ s = Head(t).status
            BY <1>4, <4>2 DEF At, Now
          <5> HIDE DEF t, o, b
          <5>2. <<Head(t).status, b, FALSE, bad>> \in NoLie
            BY <2>0, <5>1, RunFollows
          <5>3. s \in Statuses
            BY <2>0, <5>1, ProgramTail, MadeIff DEF Typed
          <5> QED BY <5>1, <5>2, <5>3
        <4> QED BY <1>4, <3>1, <4>1, <4>2 DEF Over
      <3>6. Wrote(s, b, FALSE) => ~bad
        <4> HIDE DEF b
        <4>1. ASSUME NEW x \in BOOLEAN, <<s, b, FALSE, x>> \in NoLie PROVE Wrote(s, b, FALSE) => ~x
          BY <2>0, <3>5, <4>1, VerdictFacts
        <4> QED BY <1>0, <3>5, <4>1
      <3>7. log' > 0 => ~bad'
        <4>1. log' > 0 => b /\ s # "signal"
          BY <2>0, <3>2
        <4> HIDE DEF b
        <4> QED BY <3>2, <3>6, <4>1 DEF Wrote
      <3> QED BY <1>0, <2>3, <3>4, <3>7 DEF Solo
    <2>6. ~ForkFails(p) /\ ~(\E c \in Pids : Forked(p, c)) /\ ~WaitFails(p) /\ ~(\E c \in Pids : Waited(p, c))
      BY <2>2 DEF ForkFails, Forked, WaitFails, Waited
    <2> QED BY <1>1, <2>4, <2>5, <2>6 DEF Kind
  <1> QED BY <1>3, <1>4

\* A failure stays a failure, and the silence silence.
LEMMA DoomedStep ==
  ASSUME IInv, TypeOK, Made(Ops), Doomed, NEW p \in Pids, Step(p)
  PROVE  Doomed'
  <1>1. Made(Mild)'
    BY StepFit DEF Doomed
  <1>2. bad'
    BY OnlyGrows DEF Doomed
  <1>3. Dumb'
    BY DumbStep, MildStep DEF Doomed
  <1> QED BY <1>1, <1>2, <1>3 DEF Doomed

\* The steps of main while it is alone.
LEMMA BeginStep ==
  ASSUME IInv, TypeOK, Made(Ops), Begin, NEW p \in Pids, Step(p)
  PROVE  Trail'
  <1>0. /\ 1 \in Pids /\ \A q \in Pids : q = 1 \/ q > 1
    BY PidFacts DEF Main, Pids
  <1>1. Gone(1) /\ Dumb /\ Running(1) /\ log = 0 /\ proc[1].buf = 0 /\ proc[1].ok \in BOOLEAN /\ bad \in BOOLEAN
    BY <1>0 DEF Begin, Alone, Dumb, TypeOK
  <1>2. Kind(p) /\ Running(p) /\ TypeOK' /\ IInv' /\ (bad => bad')
    <2>1. Fit(proc[p]) /\ Program(proc[p].todo, Ops)
      BY FitType DEF Made
    <2>2. proc[p].buf \in Nat /\ IsSeq(proc[p].todo)
      BY <2>1 DEF Fit, Program
    <2> QED BY <2>2, StepKinds, StepRuns, StepFit, OnlyGrows, NextIInv DEF Next
  <1>3. p = 1
    BY <1>0, <1>1, <1>2 DEF Gone, Running
  <1>4. ASSUME Unmoved({p}) PROVE Gone(1)' /\ \A q \in Pids : q # 1 => proc'[q].todo = << >>
    <2>1. Gone(1)'
      BY <1>0, <1>1, <1>3, <1>4 DEF Gone, Unmoved
    <2>2. \A q \in Pids : q # 1 => proc'[q].state = "free"
      BY <1>0, <2>1 DEF Gone
    <2> QED BY <1>2, <2>1, <2>2 DEF TypeOK
  <1>5. ASSUME Unmoved({p}), Program(proc'[1].todo, Mild) PROVE Made(Mild)'
    BY <1>4, <1>5, ProgramTuples DEF Made
  <1>6. ASSUME ~At(p, "say") PROVE Dumb'
    BY <1>1, <1>6, DumbStep
  <1>7. ASSUME NEW t, Unmoved({p}), ~At(p, "say"), proc'[1].todo = t, proc'[1].state = "run"
        PROVE  Alone(t)'
    BY <1>4, <1>6, <1>7 DEF Alone, Running
  <1>8. ASSUME NEW c \in Pids, Forked(p, c), NEW q \in {1, c},
               \A r \in {1, c} \ {q} : Idle(proc'[r].todo),
               Program(proc'[q].todo, Childless),
               Run(proc'[q].todo, proc'[q].ok, FALSE, FALSE, FALSE, NoLie), ~bad
        PROVE  Trail'
    <2>1. /\ c # 1 /\ Unmoved({1, c}) /\ proc'[1].buf = 0 /\ proc'[c].buf = 0
          /\ proc'[1].state = "run" /\ proc'[c].state = "run" /\ bad' = bad /\ log' = 0
      BY <1>1, <1>3, <1>8 DEF Forked, Resumes
    <2>2. ASSUME NEW r \in Pids, r # q PROVE proc'[r].buf = 0 /\ Idle(proc'[r].todo)
      <3>1. CASE r \in {1, c}
        BY <1>8, <2>1, <2>2, <3>1
      <3>2. CASE r \notin {1, c}
        <4>1. proc[r].state = "free" /\ proc'[r] = proc[r]
          BY <1>0, <1>1, <2>1, <3>2 DEF Gone, Unmoved
        <4>2. proc[r].todo = << >> /\ proc[r].buf = 0
          BY <4>1 DEF TypeOK
        <4> QED BY <4>1, <4>2 DEF Idle
      <3> QED BY <3>1, <3>2
    <2>3. (proc'[q].buf > 0) = FALSE /\ bad' = FALSE /\ proc'[q].state = "run" /\ q \in Pids
      BY <1>0, <1>1, <1>8, <2>1
    <2>4. Run(proc'[q].todo, proc'[q].ok, proc'[q].buf > 0, FALSE, bad', NoLie)
      BY <1>8, <2>3
    <2>5. Solo(q)'
      BY <1>8, <2>1, <2>2, <2>3, <2>4 DEF Solo, Running
    <2> QED BY <2>5 DEF Trail
  <1>9. ASSUME NEW t, Resumes(p, t), Tail(proc[p].todo) = << >>, t = << >> \/ \E s : t = <<s>>
        PROVE  proc'[1].todo = t /\ proc'[1].state = "run"
    <2>1. proc'[1].todo = t \o << >> /\ proc'[1].state = "run"
      BY <1>3, <1>9 DEF Resumes
    <2> QED BY <1>9, <2>1, TrailFacts
  <1>10. CASE ~bad /\ writers = {} /\ Alone(<<Locks>> \o <<Tries>>)
    <2>1. proc[p].todo = <<Locks>> \o <<Tries>>
      BY <1>3, <1>10 DEF Alone
    <2>2. proc[p].todo # << >> /\ Now(p) = Locks /\ Tail(proc[p].todo) = <<Tries>>
      BY <2>1, PhaseFacts, TrailFacts DEF Now
    <2>3. Now(p).op = "fork" /\ Now(p).parent = << >> /\ Now(p).failed = << >>
      BY <2>2, TrailFacts
    <2>4. << >> \o <<Tries>> = <<Tries>>
      BY PhaseFacts, TrailFacts
    <2>5. CASE ForkFails(p)
      <3>1. Unmoved({p}) /\ proc'[1].todo = <<Tries>> /\ proc'[1].state = "run" /\ bad' = TRUE
        BY <1>3, <2>2, <2>3, <2>4, <2>5 DEF ForkFails, Resumes
      <3>2. ~At(p, "say")
        BY <2>3 DEF At, Now
      <3>3. Alone(<<Tries>>)'
        BY <1>7, <3>1, <3>2
      <3>4. writers' = {}
        BY <1>10, <2>2, <2>3
           DEF Step, Calls, Misses, Picks, Branches, Assigns, Says, Opens, Closes, Reaps, Forks, Waits,
               Becomes, Ends, Returns, At, Now
      <3> QED BY <3>1, <3>3, <3>4 DEF Trail, Begin
    <2>6. CASE \E c \in Pids : Forked(p, c)
      <3>1. PICK c \in Pids : Forked(p, c)
        BY <2>6
      <3>2. proc'[1].todo = <<Tries>> /\ proc'[1].ok = proc[1].ok
        BY <1>3, <2>2, <2>3, <2>4, <3>1 DEF Forked, Resumes
      <3>3. proc'[c].todo = <<OpenHelper>> \o (<<CloseHelper>> \o (<<Exit>> \o <<Tries>>))
        BY <2>2, <3>1, TrailFacts DEF Forked
      <3>4. Idle(proc'[c].todo)
        BY <3>3, TrailFacts DEF Idle
      <3>5. /\ Program(proc'[1].todo, Childless)
            /\ Run(proc'[1].todo, proc'[1].ok, FALSE, FALSE, FALSE, NoLie)
        BY <1>1, <3>2, TrailRuns
      <3>6. \A r \in {1, c} \ {1} : r = c
        OBVIOUS
      <3> QED BY <1>8, <1>10, <3>1, <3>4, <3>5, <3>6
    <2> QED BY <1>2, <2>2, <2>3, <2>5, <2>6, KindOf
  <1>11. ASSUME NEW s, bad, writers = {}, proc[1].todo = <<s>>, s.op = "if"
         PROVE  /\ ~At(p, "say") /\ bad' /\ writers' = {} /\ Tail(proc[p].todo) = << >>
                /\ Unmoved({p}) /\ Resumes(p, IF Holds(p, s.cond) THEN s.yes ELSE s.no)
    <2>1. proc[p].todo # << >> /\ Now(p) = s /\ Tail(proc[p].todo) = << >>
      BY <1>3, <1>11, TrailFacts DEF Now
    <2>2. Branches(p)
      BY <1>2, <1>11, <2>1
         DEF Step, Calls, Misses, Picks, Assigns, Says, Opens, Closes, Reaps, Forks, Waits,
             Becomes, Ends, Returns, At, Now
    <2>3. Goes(p, IF Holds(p, s.cond) THEN s.yes ELSE s.no) /\ bad' = bad /\ writers' = writers
      BY <2>1, <2>2 DEF Branches
    <2>4. Unmoved({p}) /\ Resumes(p, IF Holds(p, s.cond) THEN s.yes ELSE s.no)
      BY <1>2, <2>3, GoesFields
    <2> QED BY <1>11, <2>1, <2>3, <2>4 DEF At, Now
  <1>12. CASE bad /\ writers = {} /\ Alone(<<Tries>>)
    <2>1. /\ ~At(p, "say") /\ bad' /\ writers' = {} /\ Tail(proc[p].todo) = << >> /\ Unmoved({p})
          /\ Resumes(p, <<Busy>>) \/ Resumes(p, <<Miss>>)
      BY <1>11, <1>12, TrailFacts DEF Alone
    <2>2. CASE Resumes(p, <<Busy>>)
      <3>1. proc'[1].todo = <<Busy>> /\ proc'[1].state = "run"
        BY <1>9, <2>1, <2>2
      <3>2. Alone(<<Busy>>)'
        BY <1>7, <2>1, <3>1
      <3> QED BY <2>1, <3>2 DEF Trail, Begin
    <2>3. CASE Resumes(p, <<Miss>>)
      <3>1. proc'[1].todo = <<Miss>>
        BY <1>9, <2>1, <2>3
      <3>2. Made(Mild)'
        BY <1>5, <2>1, <3>1, TrailRuns
      <3> QED BY <1>6, <2>1, <3>2 DEF Trail, Doomed
    <2> QED BY <2>1, <2>2, <2>3
  <1>13. CASE bad /\ writers = {} /\ Alone(<<Busy>>)
    <2>1. ~Holds(p, "busy")
      BY <1>13 DEF Holds
    <2>2. /\ ~At(p, "say") /\ bad' /\ Tail(proc[p].todo) = << >> /\ Unmoved({p})
          /\ Resumes(p, <<Miss, Become(<< >>)>>)
      BY <1>11, <1>13, <2>1, TrailFacts DEF Alone
    <2>3. proc'[1].todo = <<Miss, Become(<< >>)>>
      <3>1. proc'[1].todo = <<Miss, Become(<< >>)>> \o << >>
        BY <1>3, <2>2 DEF Resumes
      <3>2. \A a, b : <<a, b>> \o << >> = <<a, b>>
        BY Tuples, Cat
      <3> QED BY <3>1, <3>2
    <2>4. Made(Mild)'
      BY <1>5, <2>2, <2>3, TrailRuns
    <2> QED BY <1>6, <2>2, <2>4 DEF Trail, Doomed
  <1>14. CASE ~bad /\ Alone(<<Touch>> \o <<Sends>>)
    <2>1. proc[p].todo = <<Touch>> \o <<Sends>>
      BY <1>3, <1>14 DEF Alone
    <2>2. proc[p].todo # << >> /\ Now(p) = Touch /\ Tail(proc[p].todo) = <<Sends>>
      <3>1. IsSeq(<<Sends>>)
        BY TrailFacts
      <3> QED BY <2>1, <3>1, Cons DEF Now
    <2>3. Now(p).op = "call" /\ Now(p).good = << >> /\ Now(p).bad = <<Die>>
      BY <2>2, TrailFacts
    <2>4. Lone(p) /\ ~At(p, "say")
      BY <1>2, <2>2, <2>3, KindOf DEF At, Now
    <2>5. \/ proc'[p].todo = Now(p).good \o Tail(proc[p].todo) /\ bad' = bad
          \/ proc'[p].todo = Now(p).bad \o Tail(proc[p].todo) /\ bad' = TRUE
      BY <2>3, <2>4, LoneTo
    <2>6. << >> \o <<Sends>> = <<Sends>>
      BY PhaseFacts, TrailFacts
    <2>7. \/ proc'[1].todo = <<Sends>> /\ bad' = bad
          \/ proc'[1].todo = <<Die>> \o <<Sends>> /\ bad' = TRUE
      BY <1>3, <2>2, <2>3, <2>5, <2>6
    <2>8. Unmoved({p}) /\ proc'[1].state = "run"
      BY <1>3, <2>4 DEF Lone
    <2>9. CASE proc'[1].todo = <<Sends>> /\ bad' = bad
      <3>1. Alone(<<Sends>>)'
        BY <1>7, <2>4, <2>8, <2>9
      <3> QED BY <1>14, <2>9, <3>1 DEF Trail, Begin
    <2>10. CASE proc'[1].todo = <<Die>> \o <<Sends>> /\ bad' = TRUE
      <3>1. Alone(<<Die>> \o <<Sends>>)'
        BY <1>7, <2>4, <2>8, <2>10
      <3> QED BY <2>10, <3>1 DEF Trail, Begin
    <2> QED BY <2>7, <2>9, <2>10
  <1>15. CASE ~bad /\ Alone(<<Sends>>)
    <2>1. proc[p].todo = <<Sends>>
      BY <1>3, <1>15 DEF Alone
    <2>2. proc[p].todo # << >> /\ Now(p) = Sends /\ Tail(proc[p].todo) = << >>
      BY <2>1, TrailFacts DEF Now
    <2>3. Now(p).op = "fork" /\ Now(p).parent = << >> /\ Now(p).failed = << >> /\ Now(p).child = <<Execs>>
      BY <2>2, TrailFacts
    <2>4. CASE ForkFails(p)
      <3>1. Unmoved({p}) /\ Resumes(p, << >>) /\ bad' = TRUE /\ ~At(p, "say")
        BY <2>3, <2>4 DEF ForkFails, At, Now
      <3>2. proc'[1].todo = << >>
        BY <1>9, <2>2, <3>1
      <3>3. Made(Mild)'
        BY <1>5, <3>1, <3>2, TrailRuns
      <3> QED BY <1>6, <3>1, <3>3 DEF Trail, Doomed
    <2>5. CASE \E c \in Pids : Forked(p, c)
      <3>1. PICK c \in Pids : Forked(p, c)
        BY <2>5
      <3>2. Resumes(p, << >>) /\ proc'[c].todo = <<Execs>> \o << >> /\ proc'[c].ok = proc[1].ok /\ c # 1
        BY <1>3, <2>2, <2>3, <3>1 DEF Forked
      <3>3. proc'[1].todo = << >> /\ proc'[c].todo = <<Execs>>
        BY <1>9, <2>2, <3>2, TrailFacts
      <3>4. Idle(proc'[1].todo)
        BY <3>3 DEF Idle
      <3>5. /\ Program(proc'[c].todo, Childless)
            /\ Run(proc'[c].todo, proc'[c].ok, FALSE, FALSE, FALSE, NoLie)
        BY <1>1, <3>2, <3>3, TrailRuns
      <3>6. \A r \in {1, c} \ {c} : r = 1
        OBVIOUS
      <3> QED BY <1>8, <1>15, <3>1, <3>4, <3>5, <3>6
    <2> QED BY <1>2, <2>2, <2>3, <2>4, <2>5, KindOf
  <1>16. CASE bad /\ Alone(<<Die>> \o <<Sends>>)
    <2>1. proc[p].todo = <<Die>> \o <<Sends>>
      BY <1>3, <1>16 DEF Alone
    <2>2. proc[p].todo # << >> /\ Now(p) = Die /\ Now(p).op = "end"
      BY <2>1, PhaseFacts, TrailFacts DEF Now
    <2>3. PICK s : Over(p, s)
      BY <1>2, <2>2, KindOf
    <2>4. proc'[1].todo = << >> /\ ~At(p, "say")
      BY <1>0, <1>2, <1>3, <2>2, <2>3, OverLeaves DEF TypeOK, At, Now
    <2>5. Children(p) = {}
      <3>1. proc[1].parent = 0
        BY DEF IInv, MainStays, Main
      <3>2. \A c \in Pids : proc[c].state = "free" \/ proc[c].parent # 1
        BY <1>0, <1>1, <3>1 DEF Gone
      <3> QED BY <1>3, <3>2 DEF Children
    <2>6. Unmoved({p})
      BY <2>3, <2>5, OverQuiet
    <2>7. Made(Mild)'
      BY <1>5, <2>4, <2>6, TrailRuns
    <2> QED BY <1>2, <1>6, <1>16, <2>4, <2>7 DEF Trail, Doomed
  <1> QED BY <1>10, <1>12, <1>13, <1>14, <1>15, <1>16 DEF Begin

\* Every step of these two programs.
LEMMA TrailStep ==
  ASSUME IInv, TypeOK, Made(Ops), Trail, NEW p \in Pids, Step(p)
  PROVE  Trail'
  <1>1. CASE Begin
    BY <1>1, BeginStep
  <1>2. CASE Doomed
    BY <1>2, DoomedStep DEF Trail
  <1>3. CASE \E q : Solo(q)
    BY <1>3, SoloStep DEF Trail
  <1> QED BY <1>1, <1>2, <1>3 DEF Trail

\* Their first states.
LEMMA TrailInit ==
  ASSUME Init, prog \in {"execve02", "execve04"}
  PROVE  Trail
  <1> DEFINE m == [Free EXCEPT !.state = "run", !.todo = Script[prog]]
  <1>0. Main = 1 /\ 1 \in Pids /\ \A p \in Pids : p \in Int
    BY PidFacts DEF Main, Pids
  <1>1. proc = [p \in Pids |-> IF p = Main THEN m ELSE Free] /\ writers = {} /\ ~bad
    BY DEF Init
  <1>2. m.state = "run" /\ m.todo = Script[prog]
    BY DEF Free
  <1> HIDE DEF m
  <1>3. proc[1] = m /\ \A p \in Pids : p > 1 => proc[p] = Free
    BY <1>0, <1>1
  <1>4. Gone(1) /\ Running(1) /\ Dumb
    BY <1>2, <1>3, FreeFields, DumbInit DEF Gone, Running
  <1>5. CASE prog = "execve02"
    <2>1. Script[prog] = execve02
      BY <1>5 DEF Script
    <2>2. proc[1].todo = <<Touch>> \o <<Sends>>
      BY <1>2, <1>3, <2>1, TrailFacts
    <2> QED BY <1>1, <1>4, <2>2 DEF Trail, Begin, Alone
  <1>6. CASE prog = "execve04"
    <2>1. Script[prog] = execve04
      BY <1>6 DEF Script
    <2>2. proc[1].todo = <<Locks>> \o <<Tries>>
      BY <1>2, <1>3, <2>1, TrailFacts
    <2> QED BY <1>1, <1>4, <2>2 DEF Trail, Begin, Alone
  <1> QED BY <1>5, <1>6

\* The log has a verdict only if no call has failed.
LEMMA TrailEnd ==
  ASSUME TypeOK, Trail, Ended, log > 0
  PROVE  ~bad
  <1>1. ASSUME Dumb PROVE FALSE
    BY <1>1 DEF Dumb
  <1>2. ASSUME NEW q, Solo(q) PROVE ~bad
    <2>1. CASE Running(q)
      BY <1>2, <2>1 DEF Solo
    <2>2. CASE ~Running(q)
      BY <1>2, <2>2 DEF Solo
    <2> QED BY <2>1, <2>2
  <1> QED BY <1>1, <1>2 DEF Trail, Begin, Alone, Doomed

-----------------------------------------------------------------------------
(* The verdicts of all programs                                            *)

\* What holds of every program in the course of its run, and of each kind of program.
Course ==
  /\ IInv /\ TypeOK /\ Made(Ops)
  /\ prog \notin Loose => Turns
  /\ prog \in Sided => Sides
  /\ prog \in Wordless => Dumb /\ Made(Ops \ {"say"})
  /\ prog = "prctl03" => Phases /\ Dumb
  /\ prog \in {"execve02", "execve04"} => Trail

\* The course begins with the program.
LEMMA CourseInit == Init => Course
  <1> SUFFICES ASSUME Init PROVE Course
    OBVIOUS
  <1>1. prog \in DOMAIN Script
    BY ProgramsAssumption DEF Init
  <1>2. IInv /\ TypeOK /\ Made(Ops)
    BY <1>1, InitFit, ScriptsMade
  <1>3. prog \in Wordless => Made(Ops \ {"say"})
    BY InitFit, WordlessMade
  <1> QED BY <1>2, <1>3, StackInit, SidesInit, DumbInit, PhaseInit, TrailInit DEF Course

\* A step of a process.
LEMMA CourseStep ==
  ASSUME Course, NEW p \in Pids, Step(p)
  PROVE  Course'
  <1>1. IInv /\ TypeOK /\ Made(Ops)
    BY DEF Course
  <1>2. IInv' /\ TypeOK' /\ Made(Ops)' /\ prog' = prog
    <2>1. Fit(proc[p]) /\ Program(proc[p].todo, Ops)
      BY <1>1, FitType DEF Made
    <2>2. proc[p].buf \in Nat /\ IsSeq(proc[p].todo)
      BY <2>1 DEF Fit, Program
    <2>3. IInv'
      BY <1>1, NextIInv DEF Next
    <2> QED BY <1>1, <2>2, <2>3, StepKinds, StepFit
  <1>3. ASSUME prog \notin Loose PROVE Turns'
    <2>1. PICK n, EE : Stack(n, EE)
      BY <1>3 DEF Course, Turns
    <2> QED BY <1>1, <2>1, StackStep
  <1>4. ASSUME prog \in Sided PROVE Sides'
    BY <1>1, <1>4, SidesStep DEF Course
  <1>5. ASSUME prog \in Wordless PROVE Dumb' /\ Made(Ops \ {"say"})'
    BY <1>1, <1>5, WordlessStep, StepFit DEF Course
  <1>6. ASSUME prog = "prctl03" PROVE Phases' /\ Dumb'
    BY <1>1, <1>6, PhaseStep, DumbStep DEF Course
  <1>7. ASSUME prog \in {"execve02", "execve04"} PROVE Trail'
    BY <1>1, <1>7, TrailStep DEF Course
  <1> QED BY <1>2, <1>3, <1>4, <1>5, <1>6, <1>7 DEF Course

\* Every step keeps the course.
LEMMA CourseNext == Course /\ [Next]_vars => Course'
  <1>1. ASSUME Course, UNCHANGED vars PROVE Course'
    <2>1. /\ prog' = prog /\ helper' = helper /\ proc' = proc /\ writers' = writers /\ reaper' = reaper
          /\ log' = log /\ bad' = bad
      BY <1>1 DEF vars
    <2>2. IInv' <=> IInv
      BY <2>1 DEF IInv, Shape, MainStays, TableOK, Running
    <2>3. (TypeOK' <=> TypeOK) /\ (Made(Ops)' <=> Made(Ops)) /\ (Made(Ops \ {"say"})' <=> Made(Ops \ {"say"}))
      BY <2>1 DEF TypeOK, Made
    <2>4. Turns' <=> Turns
      <3>1. ASSUME NEW n, NEW EE PROVE Stack(n, EE)' <=> Stack(n, EE)
        BY <2>1 DEF Stack, Promise, Waiting, At, Running, Now, Active, Finished
      <3> QED BY <3>1 DEF Turns
    <2>5. Sides' <=> Sides
      BY <2>1 DEF Sides, Sure, Hush, In, Running
    <2>6. Dumb' <=> Dumb
      BY <2>1 DEF Dumb
    <2>7. Phases' <=> Phases
      BY <2>1 DEF Phases, PhaseStart, PhaseEnd, PhaseFork, PhaseBack, PhaseWait, Waits1, Gone, Made, Running
    <2>8. Trail' <=> Trail
      <3>1. (Begin' <=> Begin) /\ (Doomed' <=> Doomed)
        BY <2>1, <2>6 DEF Begin, Alone, Gone, Running, Doomed, Made
      <3>2. ASSUME NEW q PROVE Solo(q)' <=> Solo(q)
        BY <2>1 DEF Solo, Running
      <3> QED BY <3>1, <3>2 DEF Trail
    <2> QED BY <1>1, <2>1, <2>2, <2>3, <2>4, <2>5, <2>6, <2>7, <2>8 DEF Course
  <1> QED BY <1>1, CourseStep DEF Next

\* No program writes "test succeeded" to log.txt after a failure it looked at, however its
\* processes interleave, fail to fork, crash, or copy and lose their buffers: whoever finds
\* the text there after the end may trust it.  The programs in Lenient are left out.
THEOREM SuccessIsTrue == Spec => []SuccessMeansWorks
  <1>1. Course => SuccessMeansWorks
    <2> SUFFICES ASSUME Course, Ended, log > 0, prog \notin Lenient PROVE ~bad
      BY DEF SuccessMeansWorks
    <2>1. IInv /\ TypeOK
      BY DEF Course
    <2>2. ASSUME Dumb PROVE FALSE
      BY <2>2 DEF Dumb
    <2>3. CASE prog \notin Loose
      BY <2>1, <2>3, StackEnd DEF Course
    <2>4. CASE prog \in Wordless \cup {"prctl03"}
      BY <2>2, <2>4 DEF Course
    <2>5. CASE prog \in {"execve02", "execve04"}
      BY <2>1, <2>5, TrailEnd DEF Course
    <2> QED BY <2>3, <2>4, <2>5 DEF Loose, Wordless, Lenient
  <1> QED BY <1>1, CourseInit, CourseNext, PTL DEF Spec

\* If every call answers as a program expects, "test succeeded" is in log.txt when its main
\* process has ended: no verdict is lost in a buffer, with a child, or in a wait.  The
\* programs in Mute are left out.
THEOREM SuccessIsWritten == Spec => []WorksMeansSuccess
  <1>1. Course => WorksMeansSuccess
    <2> SUFFICES ASSUME Course, Ended, ~bad, prog \notin Mute PROVE log > 0
      BY DEF WorksMeansSuccess
    <2>1. IInv /\ TypeOK
      BY DEF Course
    <2>2. CASE prog \notin Loose
      BY <2>1, <2>2, StackEnd DEF Course
    <2>3. CASE prog \in Sided
      BY <2>3 DEF Course, Sides, Sure, Ended
    <2>4. CASE prog = "prctl03"
      BY <2>4, PhaseLast DEF Course
    <2> QED BY <2>2, <2>3, <2>4 DEF Loose, Sided, Mute
  <1> QED BY <1>1, CourseInit, CourseNext, PTL DEF Spec

\* After the end of the main process, when brain.py reads log.txt, no child left behind adds
\* a verdict to it.  The programs in Talkers are left out.
THEOREM VerdictStands == Spec => NoLateSuccess
  <1>1. Course /\ [Next]_vars => [Ended /\ prog \notin Talkers => log' = log]_vars
    <2> SUFFICES ASSUME Course, Ended, prog \notin Talkers, NEW p \in Pids, Step(p) PROVE log' = log
      BY DEF Next
    <2>1. IInv /\ TypeOK /\ Made(Ops) /\ Course'
      BY CourseStep DEF Course
    <2>2. Running(p) /\ p # Main
      BY <2>1, StepRuns DEF Ended
    <2>3. prog' = prog
      BY DEF Step, Calls, Misses, Picks, Branches, Assigns, Says, Opens, Closes, Reaps, Forks, Waits,
             Becomes, Ends, Returns, Finish
    <2>4. CASE prog \notin Loose
      BY <2>1, <2>2, <2>4, StackEnd DEF Course, Running
    <2>5. CASE prog \in Wordless \cup {"prctl03"}
      BY <2>1, <2>3, <2>5 DEF Course, Dumb
    <2>6. CASE prog \in Hushed
      BY <2>1, <2>6, HushStep DEF Course, Sides, Hushed, Sided
    <2> QED BY <2>4, <2>5, <2>6 DEF Loose, Wordless, Hushed, Talkers
  <1> QED BY <1>1, CourseInit, CourseNext, PTL DEF Spec, NoLateSuccess

-----------------------------------------------------------------------------
(* The environment that brain.py counts on                                 *)

\* A process other than main runs.
KidsRun == \E p \in Pids \ {Main} : Running(p)

\* Only the programs in Detaching leave a child behind.
LEMMA LeavesNone ==
  ASSUME Course, prog \notin Detaching, NEW s, Over(Main, s)
  PROVE  ~KidsRun
  <1>0. Main = 1 /\ Main \in Pids /\ \A q \in Pids : q \in Int /\ 1 <= q
    BY PidFacts DEF Main, Pids
  <1>1. ~At(Main, "wait")
    BY DEF Over, At, Now
  <1>2. ASSUME \A q \in Pids : q > 1 => proc[q].state = "free" PROVE ~KidsRun
    BY <1>0, <1>2 DEF KidsRun, Running
  <1>3. CASE prog \notin Loose
    <2>1. PICK n, EE : Stack(n, EE)
      BY <1>3 DEF Course, Turns
    <2>2. ASSUME Main < n PROVE FALSE
      BY <1>0, <1>1, <2>1, <2>2 DEF Stack, Waiting
    <2>3. n = 1
      BY <1>0, <2>1, <2>2 DEF Stack
    <2> QED BY <1>2, <2>1, <2>3 DEF Stack
  <1>4. CASE prog = "prctl03"
    <2>1. Phases
      BY <1>4 DEF Course
    <2>2. ASSUME Running(1), proc[1].todo = Late PROVE FALSE
      BY <1>0, <1>1, <2>2, PhaseFacts DEF At
    <2>3. Gone(1)
      BY <2>1, <2>2 DEF Phases, PhaseStart, PhaseEnd, PhaseFork, PhaseBack, PhaseWait, Waits1
    <2> QED BY <1>2, <2>3 DEF Gone
  <1> QED BY <1>3, <1>4 DEF Loose, Detaching

\* A step of a process is one of the environment.
LEMMA EnvStep ==
  ASSUME Course, NEW p \in Pids, Step(p)
  PROVE  Env!EnvNext \/ UNCHANGED Env!envVars
  <1> DEFINE K == KidsRun
             W == log > 0
  <1>0. Main \in Pids /\ IInv /\ TypeOK /\ Made(Ops) /\ log \in Nat
    BY PidFacts DEF Course, TypeOK
  <1>1. Kind(p) /\ Running(p) /\ prog' = prog
    <2>1. Fit(proc[p]) /\ Program(proc[p].todo, Ops)
      BY <1>0, FitType DEF Made
    <2>2. proc[p].buf \in Nat /\ IsSeq(proc[p].todo)
      BY <2>1 DEF Fit, Program
    <2> QED BY <1>0, <2>2, StepKinds, StepRuns
  <1>2. K' \in BOOLEAN /\ K \in BOOLEAN /\ (p # Main => K)
    BY <1>1 DEF KidsRun
  <1>3. ASSUME NEW q \in Pids, q # p, ~Forked(p, q) PROVE Running(q)' <=> Running(q)
    <2>1. Alike(q) \/ (proc'[q] = Free /\ proc[q].state = "zombie")
      BY <1>0, <1>1, <1>3, Others
    <2> QED BY <2>1, FreeFields DEF Alike, Running
  <1>4. ASSUME \A q \in Pids : q # Main => (Running(q)' <=> Running(q)) PROVE K' = K
    BY <1>4 DEF KidsRun
  <1>5. CASE Lone(p) \/ ForkFails(p) \/ WaitFails(p) \/ \E c \in Pids : Waited(p, c)
    <2>1. ASSUME NEW c \in Pids, Forked(p, c) PROVE FALSE
      <3>1. c # p /\ proc[c].state = "free" /\ proc'[c].state = "run"
        BY <2>1 DEF Forked
      <3>2. CASE Lone(p) \/ ForkFails(p) \/ WaitFails(p)
        BY <3>1, <3>2 DEF Lone, ForkFails, WaitFails, Unmoved
      <3>3. CASE \E d \in Pids : Waited(p, d)
        BY <3>1, <3>3, FreeFields DEF Waited, Unmoved
      <3> QED BY <1>5, <3>2, <3>3
    <2>2. Running(p)' /\ log' = log
      BY <1>5 DEF Lone, ForkFails, WaitFails, Waited, Resumes, Running
    <2>3. \A q \in Pids : Running(q)' <=> Running(q)
      BY <1>1, <1>3, <2>1, <2>2
    <2>4. K' = K /\ (Running(Main)' = Running(Main))
      BY <1>0, <1>4, <2>3 DEF Running
    <2> QED BY <1>1, <2>2, <2>4 DEF Env!envVars, KidsRun
  <1>6. CASE \E c \in Pids : Forked(p, c)
    <2>1. PICK c \in Pids : Forked(p, c)
      BY <1>6
    <2>2. c # Main /\ Running(c)' /\ Running(p)' /\ log' = log /\ Unmoved({p, c})
      BY <2>1 DEF Forked, Resumes, Running
    <2>3. K'
      BY <2>2 DEF KidsRun
    <2>4. Running(Main)' = Running(Main)
      BY <1>0, <1>1, <2>2 DEF Unmoved, Running
    <2>5. CASE p = Main
      BY <1>1, <2>2, <2>3, <2>4, <2>5 DEF Env!EnvNext, Env!Fork, KidsRun
    <2>6. CASE p # Main
      <3>1. K' = K
        BY <1>2, <2>3, <2>6
      <3> QED BY <1>1, <2>2, <2>4, <3>1 DEF Env!envVars, KidsRun
    <2> QED BY <2>5, <2>6
  <1>7. CASE \E s : Over(p, s)
    <2>1. PICK s : Over(p, s)
      BY <1>7
    <2>2. ~Running(p)' /\ \A c \in Pids : ~Forked(p, c)
      BY <1>0, <2>1, OverLeaves DEF Running, Over, Forked, At
    <2>3. W' = TRUE \/ W' = W
      <3>1. log' \in Nat /\ log' >= log
        BY <1>0, OnlyGrows
      <3> QED BY <1>0, <3>1
    <2>4. CASE p = Main
      <3>1. K' = K
        BY <1>3, <1>4, <2>2, <2>4
      <3>2. KidsRun => prog \in Detaching
        BY <2>1, <2>4, LeavesNone
      <3>3. Running(Main) /\ Running(Main)' = FALSE
        BY <1>1, <2>2, <2>4 DEF Running
      <3>4. Env!LastWrite
        BY <2>3 DEF Env!LastWrite
      <3> QED BY <1>1, <3>1, <3>2, <3>3, <3>4 DEF Env!EnvNext, Env!ExitMain, KidsRun
    <2>5. CASE p # Main
      <3>1. Running(Main)' = Running(Main)
        BY <1>0, <1>1, <2>5, Others DEF Running
      <3>2. CASE K'
        <4>1. K' = K
          BY <1>2, <2>5, <3>2
        <4>2. CASE W' = W
          BY <1>1, <3>1, <4>1, <4>2 DEF Env!envVars, KidsRun
        <4>3. CASE W' = TRUE
          BY <1>1, <1>2, <2>5, <3>1, <4>1, <4>3 DEF Env!EnvNext, Env!Write, KidsRun
        <4> QED BY <2>3, <4>2, <4>3
      <3>3. CASE ~K'
        <4>1. K' = FALSE /\ K
          BY <1>2, <2>5, <3>3
        <4>2. Env!LastWrite
          BY <2>3 DEF Env!LastWrite
        <4> QED BY <1>1, <3>1, <4>1, <4>2 DEF Env!EnvNext, Env!ExitKid, KidsRun
      <3> QED BY <3>2, <3>3
    <2> QED BY <2>4, <2>5
  <1> QED BY <1>1, <1>5, <1>6, <1>7 DEF Kind

\* The programs take the steps of the environment Brain runs in: no child starts without a
\* process to fork it, nothing is written by processes that have ended, and only the
\* programs in Detaching leave a child behind when brain.py goes on.
THEOREM KeepsToTestEnv == Spec => Env!EnvSafety
  <1>1. Init => Env!EnvInit
    <2> SUFFICES ASSUME Init PROVE Env!EnvInit
      OBVIOUS
    <2> DEFINE m == [Free EXCEPT !.state = "run", !.todo = Script[prog]]
    <2>1. Main \in Pids /\ proc = [p \in Pids |-> IF p = Main THEN m ELSE Free] /\ log = 0
      BY PidFacts DEF Init
    <2>2. m.state = "run" /\ Free.state = "free"
      BY DEF Free
    <2> HIDE DEF m
    <2>3. Running(Main) = TRUE /\ (\E p \in Pids \ {Main} : Running(p)) = FALSE /\ (log > 0) = FALSE
      BY <2>1, <2>2 DEF Running
    <2> QED BY <2>3 DEF Env!EnvInit
  <1>2. Course /\ [Next]_vars => [Env!EnvNext]_(Env!envVars)
    <2>1. ASSUME UNCHANGED vars PROVE UNCHANGED Env!envVars
      BY <2>1 DEF vars, Env!envVars, Running
    <2> QED BY <2>1, EnvStep DEF Next
  <1> QED BY <1>1, <1>2, CourseInit, CourseNext, PTL DEF Spec, Env!EnvSafety

=============================================================================

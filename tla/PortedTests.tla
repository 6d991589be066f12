---------------------------- MODULE PortedTests ----------------------------
(***************************************************************************)
(* The ported test programs that build, one definition per file of         *)
(* "independent tests/syscalls" and named after it.  brain.py runs each of *)
(* them without arguments in /root, so that a helper that a test wants to  *)
(* execute is there only if somebody has put it there.                     *)
(***************************************************************************)
EXTENDS Steps

CONSTANTS Many,       \* rounds of the loops of write01, openat03 and mmap12: hundreds in the code
          NChild      \* children of execve05: eight in the code

ASSUME RoundsAssumption == Many \in Nat /\ NChild \in Nat

\* The tests that consist of one call with one expected answer.
OneCall == <<Call(<<Say>>, << >>)>>

-----------------------------------------------------------------------------
(* brk, close, eventfd, faccessat                                          *)

brk01 == Needs(2) \o Rep(11, <<Need, Touch, Need, Need>>) \o <<Say>>
brk02 == Needs(7) \o <<Say>>

close01 == Rep(3, OneCall)       \* a verdict per case
close02 == OneCall

eventfd01 == << >>               \* HAVE_LIBAIO is not defined

faccessat01 == <<Undefined, Undefined>> \o Rep(6, <<Note>>)

-----------------------------------------------------------------------------
(* execve: nobody waits for the children                                   *)

\* Run without arguments, both helpers only complain; so does execve06_child, always.
execve01_child == << >>
execve_child   == << >>
execve06_child == << >>

\* The child of execve01 looks for a variable whose name ends in a newline.
execve01 == <<Fork(<<Exec(<<Need, Need, Miss>>, << >>)>>, << >>, << >>)>>

execve02 ==
  LET child == If("helper",
                  <<Call(<<Say, Exit>>, <<Pick(<<Become(<< >>)>>, << >>)>>)>>, <<Miss>>)
  IN  <<Touch, Fork(<<child>>, << >>, << >>)>>

execve03 ==
  <<Touch>> \o Rep(6, <<Call(<< >>, <<Pick(<<Become(<< >>)>>, <<Fail>>)>>)>>) \o <<Verdict>>

\* ETXTBSY, if the child has the file open just now.
execve04 ==
  <<Fork(<<OpenHelper, CloseHelper, Exit>>, << >>, << >>),
    If("helper",
       <<If("busy", <<Call(<<Say>>, <<Become(<< >>)>>)>>, <<Miss, Become(<< >>)>>)>>,
       <<Miss>>)>>

execve05 ==
  Rep(NChild, <<Fork(<<Exec(<<Say>>, << >>), Fail>>, << >>, << >>)>>) \o
  <<If("ok", <<Say, Exit>>, << >>)>>

\* Slip: the child does not return 0 after its execve.
execve06GoesOn == <<Fork(<<Miss>>, << >>, << >>), Verdict>>

\* The path is not initialised.
execve06 == <<Fork(<<Miss, Fail>>, << >>, << >>), Verdict>>

-----------------------------------------------------------------------------
(* fcntl                                                                   *)

fcntl01 == Needs(36) \o <<Say>>
fcntl02 == Rep(6, Case(2)) \o <<Verdict>>
fcntl03 == OneCall
fcntl04 == Needs(2) \o <<Say>>
fcntl05 == OneCall
fcntl06 == Needs(2) \o <<Note>>

\* execlp("fcntl07") finds nothing, and the child exits with 2.
fcntl07 ==
  Rep(4, <<Call(<<Fork(<<Miss, End("other")>>, <<Wait(<< >>, <<Fail>>, <<Fail>>, << >>)>>,
                       <<Fail>>)>>, <<Fail>>)>>) \o <<Verdict>>

fcntl08 == OneCall

\* Slip: the result of the lock is printed only.
fcntl09Prints ==
  Needs(3) \o Rep(2, <<Note, Check>>) \o <<Verdict>>

fcntl09 == Needs(3) \o Rep(2, <<Check, Check>>) \o <<Verdict>>
fcntl10 == Needs(3) \o Rep(2, <<Check, Check>>) \o <<Verdict>>

fcntl12 == <<Fork(<<Note>>, << >>, << >>)>>      \* says "test passed"

-----------------------------------------------------------------------------
(* mmap                                                                    *)

\* The contents of a mapping are as expected.
Same == Call(<<Say>>, << >>)

mmap001 == Needs(5) \o <<Touch>> \o Needs(2) \o <<Say>>
mmap01  == Needs(6) \o <<Touch, Need, Touch, Need, Note>>        \* says "test succeded"
mmap02  == Needs(8) \o <<Call(<<Touch, Same>>, <<Touch, Same, Undefined>>)>>
mmap03  == Needs(8) \o <<Call(<<Touch, Need, Say>>, <<Touch, Need, Say, Undefined>>)>>
mmap04  == Needs(7) \o
           <<Call(<<Call(<<Touch, Same, Call(<< >>, <<Undefined>>)>>,
                         <<Touch, Same, Note, Undefined>>)>>,
                  <<Note, Die>>)>>
mmap05  == Needs(8) \o <<Say>>
mmap06  == Needs(4) \o OneCall
mmap07  == Needs(4) \o OneCall
mmap08  == Needs(5) \o OneCall
mmap09  == Needs(3) \o <<Touch>> \o Rep(3, <<Check>>) \o <<Verdict>>

\* One call of mmapzero; a third fork that fails falls through to the child's part.
mmapzero(open) ==
  LET kid == <<Note, Exit>> IN
  open \o
  <<Need, Touch, Fork(kid, << >>, <<Exit>>), Fork(kid, << >>, <<Exit>>),
    Fork(kid, << >>, kid), Need>> \o
  Rep(4, <<Wait(<< >>, <<Exit>>, << >>, << >>)>>)

mmap10 == <<Need>> \o mmapzero(<< >>) \o mmapzero(<<Note>>) \o <<Say>>

mmap11 == Needs(4) \o <<Undefined, Need, Say>>
mmap12 == <<Need, Call(<<Need>> \o Rep(Many, <<Note>>), <<Pick(<< >>, <<Exit>>)>>),
            Touch, Need, Say>>
mmap13 == Needs(3) \o <<Say>>
mmap14 == <<Touch, Note, Note, Touch, Note, Call(<<Say>>, << >>)>>
mmap15 == Chain(2, <<Say>>, << >>)
mmap17 == OneCall

\* The child's exit flushes the verdicts its parent had buffered before the fork.
mmap18 ==
  LET unset == <<Pick(<<Say>>, << >>)>> IN
  <<Need>> \o
  Rep(2, <<Fork(<<Note, Call(<<Exit>>, <<Die>>)>>, << >>, << >>),
           Wait(<<Say>>, << >>, << >>, unset)>>) \o
  Rep(2, <<Fork(<<Note, Call(<<Die>>, <<Exit>>)>>, << >>, << >>),
           Wait(<< >>, << >>, <<Say>>, unset)>>)

mmap19 == <<Touch, Note, Note, Need, Need, Need, Say>>

-----------------------------------------------------------------------------
(* mprotect, munmap                                                        *)

mprotect01 ==
  Case(2) \o <<Need>> \o Case(2) \o <<Need>> \o Case(2) \o <<Verdict>>

\* The loop that fills the file takes the -1 of a failing write off an unsigned count, which
\* then grows: without the file for ever, else until a later write does its work.  The
\* handler that would turn SIGSEGV into exit(0) is never installed.
mprotect02 ==
  <<Call(<< >>, <<Spin>>), Call(<< >>, <<Pick(<< >>, <<Spin>>)>>),
    Fork(<<Call(<<Die>>, <<End("other")>>)>>,
         <<Wait(<< >>, <<Fail>>, <<Exit>>, << >>)>>, <<Exit>>),
    Call(<<Fork(<<Call(<<Exit>>, <<Die>>)>>,
                <<Wait(<< >>, <<Fail>>, <<Fail>>, << >>)>>, <<Fail>>)>>,
         <<Fail>>),
    Verdict>>

\* Slip: asks WIFEXITED, as mprotect02 does.
mprotect03Exited ==
  Needs(2) \o
  <<Call(<<Fork(<<Call(<<Die>>, <<End("other")>>)>>,
                <<Wait(<< >>, <<Fail>>, <<Fail>>, << >>)>>, <<Exit>>)>>,
         <<Fail>>),
    Verdict>>

\* Asks WEXITSTATUS only, which is 0 for a child that died.
mprotect03 ==
  Needs(2) \o
  <<Call(<<Fork(<<Call(<<Die>>, <<End("other")>>)>>,
                <<Wait(<< >>, <<Fail>>, << >>, << >>)>>, <<Exit>>)>>,
         <<Fail>>),
    Verdict>>

\* Each failure in setup makes the munmap fail in the end: without a file or after the
\* cleanup that follows a failed write, mmap has no descriptor.
munmap01 == Needs(5) \o <<Call(<<Say, Exit>>, << >>)>>
munmap02 == Needs(5) \o <<Call(<<Say, Exit>>, << >>)>>
munmap03 == Rep(3, Chain(2, <<Say, Exit>>, << >>))

-----------------------------------------------------------------------------
(* openat, ppoll                                                           *)

\* verify_openat returns nothing in the cases that should succeed.
openat01 ==
  LET noReturn == Pick(<< >>, <<Fail>>) IN
  <<noReturn, noReturn, Check, Check, noReturn, Verdict>>

\* The pid and the status of the close-on-exec case are never set.
openat02 ==
  <<Undefined, Undefined>> \o Case(2) \o
  <<Call(<<Pick(<<Miss, End("other")>>, <<Pick(<< >>, <<Fail>>)>>)>>, <<Fail>>)>> \o
  Case(2) \o Case(2) \o Case(1) \o Case(2) \o <<Verdict>>

openat02_child == <<End("other")>>

openat03 ==
  <<Note, Note, Need, Need>> \o Rep(Many, <<Note>>) \o Rep(Many, <<Need>>) \o
  Rep(Many, <<Note, Note, Need>>) \o <<Say>>

openat04 == Needs(5) \o <<Say>>

ppoll01 ==
  Rep(3, <<Note>>) \o Rep(5, Case(1)) \o Case(3) \o Rep(2, Case(1)) \o <<Verdict>>

-----------------------------------------------------------------------------
(* prctl                                                                   *)

prctl01 == Needs(3) \o <<Say>>

\* A wrong errno is printed, and the function returns what printf left.
prctl02 ==
  Rep(5, <<Check>>) \o Rep(18, <<Call(<<Note>>, <<Fail>>)>>) \o <<Verdict>>

\* The child waits for the grandchild too, which is therefore never an orphan.
prctl03 ==
  <<Need, SubReaper,
    Fork(<<Fork(<<If("adopted", <<Say, Exit>>, <<Miss, Exit>>)>>, <<Note>>, <<Note>>)>>,
         << >>, << >>),
    Wait(<< >>, << >>, << >>, << >>), Note>>

prctl05 == Rep(2, Case(3)) \o <<Verdict>>
prctl06 == <<Undefined, Need>>           \* main calls setup only
prctl06_execve == <<Fail, Touch, Note, Check, Note, Check, Note, Verdict>>
prctl07 == <<Note>>                      \* libcap is not there

\* The child of the last case goes on as its parent does.
prctl08 ==
  <<Note>> \o Rep(4, <<Call(<<Note>>, <<Fail>>)>>) \o
  <<Call(<<Fork(<<Note>>, << >>, << >>)>>, <<Fail>>), Verdict>>

\* Slip: the parent does not wait for the first child.
prctl10NoWait ==
  <<Fork(<<Call(<<Note>>, << >>), Fail>>, << >>, << >>),
    Fork(<<Call(<<Call(<<Die>>, << >>)>>, << >>), Fail>>,
         <<Wait(<<Fail>>, <<Fail>>, << >>, << >>)>>, << >>),
    Verdict>>

\* The first child returns to the loop and runs the second case as well.
prctl10 ==
  LET unset == <<Pick(<< >>, <<Fail>>)>> IN
  <<Fork(<<Call(<<Note>>, << >>), Fail>>,
         <<Wait(<< >>, << >>, <<Fail>>, << >>)>>, unset),
    Fork(<<Call(<<Call(<<Die>>, << >>)>>, << >>), Fail>>,
         <<Wait(<<Fail>>, <<Fail>>, << >>, << >>)>>, unset),
    Verdict>>

-----------------------------------------------------------------------------
(* read, write, signals, scheduling                                        *)

read01 == OneCall
read02 == <<Undefined>> \o Rep(6, <<Note>>)      \* says "Test succeeded"
read03 == <<Need>> \o OneCall
read04 == Needs(2) \o <<Say>>

write01 == Rep(Many, <<Need, Check>>) \o <<Verdict>>
write02 == OneCall
write04 == OneCall
write05 == Rep(2, Chain(2, <<Say>>, << >>)) \o Chain(3, <<Say>>, << >>)
\* memset(NULL, ...) first; and either of the last two checks alone makes the verdict.
write06 ==
  <<Undefined, Fail, Note, Note, Call(<<Assign(TRUE)>>, << >>), Call(<<Assign(TRUE)>>, << >>),
    Verdict>>

sigprocmask01 == Needs(4) \o <<Call(Needs(4) \o OneCall, << >>)>>
set_tid_address01 == OneCall
sched_setattr01 == Rep(4, Chain(2, << >>, << >>))

\* Up to four rounds with a mask that is too small (EINVAL), then the call that counts.
sched_getaffinity01 ==
  Rep(4, <<Pick(<<Touch>>, << >>)>>) \o <<Touch, Need, Note>> \o Case(2) \o Case(2) \o
  <<Verdict>>

-----------------------------------------------------------------------------

\* The programs by name.
Script ==
  [brk01 |-> brk01, brk02 |-> brk02, close01 |-> close01, close02 |-> close02,
   eventfd01 |-> eventfd01, faccessat01 |-> faccessat01, execve01_child |-> execve01_child,
   execve_child |-> execve_child, execve06_child |-> execve06_child, execve01 |-> execve01,
   execve02 |-> execve02, execve03 |-> execve03, execve04 |-> execve04,
   execve05 |-> execve05, execve06 |-> execve06, fcntl01 |-> fcntl01, fcntl02 |-> fcntl02,
   fcntl03 |-> fcntl03, fcntl04 |-> fcntl04, fcntl05 |-> fcntl05, fcntl06 |-> fcntl06,
   fcntl07 |-> fcntl07, fcntl08 |-> fcntl08, fcntl09 |-> fcntl09, fcntl10 |-> fcntl10,
   fcntl12 |-> fcntl12, mmap001 |-> mmap001, mmap01 |-> mmap01, mmap02 |-> mmap02,
   mmap03 |-> mmap03, mmap04 |-> mmap04, mmap05 |-> mmap05, mmap06 |-> mmap06,
   mmap07 |-> mmap07, mmap08 |-> mmap08, mmap09 |-> mmap09, mmap10 |-> mmap10,
   mmap11 |-> mmap11, mmap12 |-> mmap12, mmap13 |-> mmap13, mmap14 |-> mmap14,
   mmap15 |-> mmap15, mmap17 |-> mmap17, mmap18 |-> mmap18, mmap19 |-> mmap19,
   mprotect01 |-> mprotect01, mprotect02 |-> mprotect02, mprotect03 |-> mprotect03,
   munmap01 |-> munmap01, munmap02 |-> munmap02, munmap03 |-> munmap03,
   openat01 |-> openat01, openat02 |-> openat02, openat02_child |-> openat02_child,
   openat03 |-> openat03, openat04 |-> openat04, ppoll01 |-> ppoll01, prctl01 |-> prctl01,
   prctl02 |-> prctl02, prctl03 |-> prctl03, prctl05 |-> prctl05, prctl06 |-> prctl06,
   prctl06_execve |-> prctl06_execve, prctl07 |-> prctl07, prctl08 |-> prctl08,
   prctl10 |-> prctl10, read01 |-> read01, read02 |-> read02, read03 |-> read03,
   read04 |-> read04, write01 |-> write01, write02 |-> write02, write04 |-> write04,
   write05 |-> write05, write06 |-> write06, sigprocmask01 |-> sigprocmask01,
   set_tid_address01 |-> set_tid_address01, sched_setattr01 |-> sched_setattr01,
   sched_getaffinity01 |-> sched_getaffinity01]

=============================================================================

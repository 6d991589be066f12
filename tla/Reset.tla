------------------------------- MODULE Reset -------------------------------
(***************************************************************************)
(* misc/reset.py, "used to clean up the syscalls folder after compiling    *)
(* and running": over the tree that convert.py makes and in which the user *)
(* ports and compiles tests, also while reset.py runs.  The two scripts    *)
(* are not run at the same time.                                           *)
(***************************************************************************)
EXTENDS Convert

CONSTANT AOut      \* the compiled file of a folder

ASSUME ResetAssumption == AOut \notin Files \cup DotC \cup DotH

VARIABLES
  bins,       \* the folders with an a.out
  rfolders,   \* the folders of the listing still to be looked at
  rfiles,     \* the files of the current folder still to be looked at
  r,          \* the current folder
  rat,        \* "off", "folders", "files" or "done"
  spoilt      \* history: folders compiled in or not cleared since the listing

resetVars == <<bins, rfolders, rfiles, r, rat, spoilt>>
vars2     == <<convVars, textVars, resetVars>>

Init2 ==
  /\ ConvInit
  /\ bins = {} /\ rfolders = {} /\ rfiles = {} /\ r = None /\ rat = "off" /\ spoilt = {}

\* os.listdir of a folder
Content(e) == {y \in Files : target[e][y] # "absent"} \cup (IF e \in bins THEN {AOut} ELSE {})

\* fold = os.listdir(...)
StartReset ==
  /\ Stopped /\ rat \in {"off", "done"}
  /\ rfolders' = made /\ rat' = "folders" /\ spoilt' = {}
  /\ UNCHANGED <<convVars, textVars, bins, rfiles, r>>

ResetFolder(e) ==
  /\ rat = "folders" /\ e \in rfolders
  /\ rfolders' = rfolders \ {e} /\ r' = e /\ rfiles' = Content(e) /\ rat' = "files"
  /\ UNCHANGED <<convVars, textVars, bins, spoilt>>

\* Slip: `and' in place of `or'.
SparedBoth(f) == f \in DotC /\ f \in DotH

\* ".c" in file or ".h" in file
Spared(f) == f \in DotC \/ f \in DotH

\* Slip: `break' in place of `continue'.
BreaksAt(f) == {}

ContinuesAfter(f) == rfiles \ {f}

\* os.remove fails for a file that is gone, or one that cannot be removed, which is printed.
ResetFile(f) ==
  /\ rat = "files" /\ f \in rfiles
  /\ \/ /\ Spared(f)
        /\ rfiles' = ContinuesAfter(f)
        /\ UNCHANGED <<target, bins, spoilt>>
     \/ /\ ~Spared(f) /\ f \in Content(r)
        /\ rfiles' = rfiles \ {f}
        /\ IF f = AOut THEN bins' = bins \ {r} /\ UNCHANGED target
                       ELSE target' = [target EXCEPT ![r][f] = "absent"] /\ UNCHANGED bins
        /\ UNCHANGED spoilt
     \/ /\ ~Spared(f)
        /\ rfiles' = rfiles \ {f}
        /\ spoilt' = spoilt \cup {r}
        /\ UNCHANGED <<target, bins>>
  /\ UNCHANGED <<inputVars, made, walkVars, at, cut, textVars, rfolders, r, rat>>

EndResetFolder ==
  /\ rat = "files" /\ rfiles = {}
  /\ rat' = "folders" /\ r' = None
  /\ UNCHANGED <<convVars, textVars, bins, rfolders, rfiles, spoilt>>

EndReset ==
  /\ rat = "folders" /\ rfolders = {}
  /\ rat' = "done"
  /\ UNCHANGED <<convVars, textVars, bins, rfolders, rfiles, r, spoilt>>

\* The user compiles a test.
Compile(e) ==
  /\ Stopped /\ e \in made
  /\ bins' = bins \cup {e} /\ spoilt' = spoilt \cup {e}
  /\ UNCHANGED <<convVars, textVars, rfolders, rfiles, r, rat>>

ResetNext ==
  \/ StartReset \/ EndResetFolder \/ EndReset
  \/ \E e \in Folders : ResetFolder(e) \/ Compile(e)
  \/ \E f \in Files \cup {AOut} : ResetFile(f)

\* convert.py looks at no a.out; the user may port a test at any time it does not run.
Next2 ==
  \/ rat \in {"off", "done"} /\ ConvNext /\ UNCHANGED resetVars
  \/ (\E e \in Folders, y \in Files : Port(e, y)) /\ UNCHANGED resetVars
  \/ ResetNext

Spec2 == Init2 /\ [][Next2]_vars2

-----------------------------------------------------------------------------
(* Properties                                                              *)

\* After a complete reset no folder holds an a.out, which brain.py would run in place of a
\* test that does not compile (Brain!Clean), unless the user compiled meanwhile or
\* reset.py has printed the file.
ResetCleans == rat = "done" => bins \subseteq spoilt

=============================================================================

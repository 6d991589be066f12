------------------------------ MODULE Convert ------------------------------
(***************************************************************************)
(* convert.py: walks over the folders of the original LTP tests and writes *)
(* a converted copy of every C file into independent tests/syscalls, where *)
(* the tests are then ported by hand.  The script may be run again later,  *)
(* over files that have been ported meanwhile.                             *)
(*                                                                         *)
(* convertFile calls rmcomment, whose steps are those of RmComment; what   *)
(* it does with the text afterwards is abstracted to how it ends: it       *)
(* returns, or a split has too few parts.  A file that is not UTF-8 is     *)
(* printed by getFiles and left out.  A run may be broken off at any time. *)
(***************************************************************************)
EXTENDS RmComment, FiniteSets

CONSTANTS
  Folders,    \* the folders of ./original tests
  Files,      \* the names of the files in them
  DotC, DotH, \* the names with ".c", and with ".h", in them
  None,       \* the value of a variable that is out of scope
  MaxRuns     \* bound: runs of the script

ASSUME ConvertAssumption ==
  IsFiniteSet(Folders) /\ IsFiniteSet(Files) /\ MaxRuns \in Nat

VARIABLES
  original,   \* original[e]: the files of folder e
  latin,      \* the C files that are not UTF-8
  target,     \* target[e][x]: "absent", "import", "ported" or "partial"
  made,       \* the folders of ./independent tests/syscalls
  folders,    \* the folders still to be walked over
  files,      \* the files of the current folder still to be converted
  d, x,       \* the current folder and file
  at, runs,
  cut         \* history: the files whose last write was broken off

textVars  == <<input, file, result, turns, pc>>
inputVars == <<original, latin>>
walkVars  == <<folders, files, d, x, runs>>
convVars  == <<inputVars, target, made, walkVars, at, cut>>

\* No text is being converted.
NoText ==
  input' = << >> /\ file' = << >> /\ result' = << >> /\ turns' = 0 /\ pc' = "done"

\* A folder has its Makefile and the like, and any of the C files.
ConvInit ==
  /\ original \in [Folders -> {S \cup (Files \ DotC) : S \in SUBSET (Files \cap DotC)}]
  /\ latin \in SUBSET (Files \cap DotC)
  /\ target = [e \in Folders |-> [y \in Files |-> "absent"]] /\ made = {}
  /\ folders = {} /\ files = {} /\ d = None /\ x = None
  /\ at = "off" /\ runs = 0 /\ cut = {}
  /\ input = << >> /\ file = << >> /\ result = << >> /\ turns = 0 /\ pc = "done"

Stopped == at \in {"off", "done", "crashed"}

-----------------------------------------------------------------------------

Start ==
  /\ Stopped /\ runs < MaxRuns
  /\ folders' = Folders /\ runs' = runs + 1 /\ at' = "folders"
  /\ UNCHANGED <<inputVars, target, made, files, d, x, cut, textVars>>

\* The variables of convertFiles go out of scope.
Leave == files' = {} /\ d' = None /\ x' = None

\* getFiles: the C files that can be read.
Readable(e) == (original[e] \cap DotC) \ latin

\* Slip: a folder is made for its first file.
MadeForFiles(e) == IF Readable(e) = {} THEN made ELSE made \cup {e}

Made(e) == made \cup {e}

\* convertFiles up to its loop; the folder is made even if no file goes into it.
NextFolder(e) ==
  /\ at = "folders" /\ e \in folders
  /\ folders' = folders \ {e} /\ d' = e
  /\ files' = Readable(e) /\ made' = Made(e)
  /\ at' = "files"
  /\ UNCHANGED <<inputVars, target, x, runs, cut, textVars>>

\* Slip: the output file is opened before the text is converted.
OpenedFirst(y) == [target EXCEPT ![d][y] = "partial"]

\* The tree while convertFile is at work on y.
Opened(y) == target

\* convertFile is called with the text s of file y.
CallConvert(y, s) ==
  /\ at = "files" /\ y \in files
  /\ x' = y /\ files' = files \ {y} /\ at' = "text"
  /\ target' = Opened(y)
  /\ input' = s /\ file' = s /\ result' = << >> /\ turns' = 0 /\ pc' = "multi"
  /\ UNCHANGED <<inputVars, made, folders, d, runs, cut>>

RmCommentStep ==
  /\ at = "text" /\ Next
  /\ UNCHANGED convVars

\* An interrupt ends the script anywhere, as does an exception: a MemoryError when the loop
\* of rmcomment goes on and the text doubles, an IndexError after it, a full disk.  Between
\* open and the end of the write the file is left as it is then.
BreakOff ==
  /\ ~Stopped
  /\ at' = "crashed" /\ folders' = {} /\ Leave /\ NoText
  /\ cut' = IF at = "write" THEN cut \cup {<<d, x>>} ELSE cut
  /\ UNCHANGED <<inputVars, target, made, runs>>

\* convertFile has returned: open(..., "w") empties the file, then it is written.
OpenOutput ==
  /\ at = "text" /\ pc = "done"
  /\ target' = [target EXCEPT ![d][x] = "partial"]
  /\ at' = "write" /\ NoText
  /\ UNCHANGED <<inputVars, made, walkVars, cut>>

WriteOutput ==
  /\ at = "write"
  /\ target' = [target EXCEPT ![d][x] = "import"]
  /\ at' = "files" /\ cut' = cut \ {<<d, x>>}
  /\ UNCHANGED <<inputVars, made, walkVars, textVars>>

EndFolder ==
  /\ at = "files" /\ files = {}
  /\ at' = IF folders = {} THEN "done" ELSE "folders"
  /\ Leave
  /\ UNCHANGED <<inputVars, target, made, folders, runs, cut, textVars>>

\* The user finishes a test between two runs of convert.py.
Port(e, y) ==
  /\ Stopped /\ target[e][y] = "import"
  /\ target' = [target EXCEPT ![e][y] = "ported"]
  /\ UNCHANGED <<inputVars, made, walkVars, at, cut, textVars>>

ConvNext ==
  \/ Start \/ EndFolder \/ RmCommentStep \/ BreakOff \/ OpenOutput \/ WriteOutput
  \/ \E e \in Folders : NextFolder(e)
  \/ \E y \in files, s \in SeqOf(Chars, MaxInput) : CallConvert(y, s)

-----------------------------------------------------------------------------
(* Properties                                                              *)

\* A test is half-written only while it is being written, or after a run that ended in
\* just that write: a conversion that hangs or raises, which is how runs end, harms no
\* test, not the one it is about either (convert.py 107-109).
NoPartialFile ==
  \A e \in Folders, y \in Files :
    target[e][y] = "partial" => (at = "write" /\ e = d /\ y = x) \/ <<e, y>> \in cut

\* After a complete run, and whatever reset.py does then, the tree mirrors the originals:
\* every folder is there and holds exactly the C files that can be read, all of them whole,
\* wherever earlier runs were broken off.
Mirrors ==
  at = "done" =>
    /\ made = Folders
    /\ \A e \in Folders, y \in Files :
         /\ target[e][y] # "absent" <=> y \in original[e] \cap DotC /\ y \notin latin
         /\ target[e][y] # "partial"

=============================================================================

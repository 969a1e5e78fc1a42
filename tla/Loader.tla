------------------------------- MODULE Loader -------------------------------
(***************************************************************************)
(* Importing the package: _binder.py finds the shared library next to it   *)
(* or downloads it, loads it, asks for its version and, if that is not the *)
(* package's, downloads again.  Several processes import from the same     *)
(* directory; each may be killed at any point, and the same or another may *)
(* import again.                                                           *)
(*                                                                         *)
(* The file is opened for writing in place.  A process that has the        *)
(* library mapped sees its pages change under it: from then on it may die  *)
(* of any access (overwritten).  dlopen of the name returns the image that *)
(* is mapped already, and ctypes never unmaps one.                         *)
(***************************************************************************)
CONSTANTS
    Processes,
    Released,   \* the version the library of the package's release reports
    OnDisk,     \* what may be in the directory before: absent, old
    NoProcess

ASSUME LoaderAssumption ==
    /\ Released \in {"package", "old"}
    /\ OnDisk \subseteq {"absent", "old", "package"}
    /\ NoProcess \notin Processes

VARIABLES
    pc,             \* where each import is
    round,          \* which call of download: before the loop, in its try, in
                    \* its except
    image,          \* the version of the library each process has mapped
    overwritten,    \* the file changed after that
    late,           \* the processes that found no file, or loaded another version
    file,           \* absent, partial, or complete of some version
    writer,         \* who truncated it last
    cut             \* some download ended before its last byte

vars == <<pc, round, image, overwritten, late, file, writer, cut>>

Version == {"package", "old"}

TypeOK ==
    /\ pc \in [Processes -> {"off", "looking", "requesting", "writing", "loading",
                             "asking", "ready", "raised", "crashed"}]
    /\ round \in [Processes -> {"before", "try", "except"}]
    /\ image \in [Processes -> Version \cup {"none"}]
    /\ overwritten \in [Processes -> BOOLEAN]
    /\ late \in [Processes -> BOOLEAN]
    /\ file \in Version \cup {"absent", "partial"}
    /\ writer \in Processes \cup {NoProcess}
    /\ cut \in BOOLEAN

Init ==
    /\ pc = [p \in Processes |-> "off"]
    /\ round = [p \in Processes |-> "before"]
    /\ image = [p \in Processes |-> "none"]
    /\ overwritten = [p \in Processes |-> FALSE]
    /\ late = [p \in Processes |-> FALSE]
    /\ file \in OnDisk
    /\ writer = NoProcess
    /\ cut = FALSE

Goto(p, s) == pc' = [pc EXCEPT ![p] = s]

\* A new process, or one in which an earlier import raised: what it mapped
\* then is still mapped.
Import(p) ==
    /\ pc[p] \in {"off", "raised"}
    /\ Goto(p, "looking")
    /\ round' = [round EXCEPT ![p] = "before"]
    /\ late' = [late EXCEPT ![p] = image[p] # "none"]
    /\ UNCHANGED <<image, overwritten, file, writer, cut>>

\* The process exits, is killed or is gone after a crash.
Exit(p) ==
    /\ pc[p] # "off"
    /\ Goto(p, "off")
    /\ image' = [image EXCEPT ![p] = "none"]
    /\ overwritten' = [overwritten EXCEPT ![p] = FALSE]
    /\ cut' = (cut \/ pc[p] = "writing")
    /\ UNCHANGED <<round, late, file, writer>>

\* Mutant: the library is downloaded even when it is there.
LookAway(p) ==
    /\ pc[p] = "looking"
    /\ Goto(p, "requesting")
    /\ UNCHANGED <<round, image, overwritten, late, file, writer, cut>>

\* if not exists: download().
Look(p) ==
    /\ pc[p] = "looking"
    /\ IF file = "absent"
       THEN Goto(p, "requesting") /\ late' = [late EXCEPT ![p] = TRUE]
       ELSE Goto(p, "loading") /\ UNCHANGED late
    /\ UNCHANGED <<round, image, overwritten, file, writer, cut>>

\* An exception of requests or open is an OSError and leaves every call; the
\* one for a status other than 200 is caught by the loop when raised in its try.
DownloadRaises(p, oserror) ==
    IF round[p] = "try" /\ ~oserror
    THEN Goto(p, "requesting") /\ round' = [round EXCEPT ![p] = "except"]
    ELSE Goto(p, "raised") /\ UNCHANGED round

\* No connection; no asset for this platform; no permission to write.
RequestFails(p) ==
    /\ pc[p] = "requesting"
    /\ \E oserror \in BOOLEAN : DownloadRaises(p, oserror)
    /\ UNCHANGED <<image, overwritten, late, file, writer, cut>>

\* open(fname, "wb") truncates the file where it is.
Truncate(p) ==
    /\ pc[p] = "requesting"
    /\ Goto(p, "writing")
    /\ file' = "partial"
    /\ writer' = p
    /\ overwritten' = [q \in Processes |-> overwritten[q] \/ image[q] # "none"]
    /\ UNCHANGED <<round, image, late, cut>>

\* download() returned: in the try "Unmatched version" is raised, and caught.
Downloaded(p) ==
    IF round[p] = "try"
    THEN Goto(p, "requesting") /\ round' = [round EXCEPT ![p] = "except"]
    ELSE Goto(p, "loading") /\ UNCHANGED round

\* Mutant: downloads append to the file, those of others included.
WriteLastAppended(p) ==
    /\ pc[p] = "writing"
    /\ Downloaded(p)
    /\ file' = IF writer = p THEN Released ELSE "doubled"
    /\ UNCHANGED <<image, overwritten, late, writer, cut>>

\* Mutant: the file is not closed, its last buffer not written.
WriteLastBuffered(p) ==
    /\ pc[p] = "writing"
    /\ Downloaded(p)
    /\ UNCHANGED <<image, overwritten, late, file, writer, cut>>

\* The last chunk: the file is complete if nobody truncated it in between, or if
\* that other download went far enough before it was cut off.
WriteLast(p) ==
    /\ pc[p] = "writing"
    /\ Downloaded(p)
    /\ \/ /\ writer = p \/ pc[writer] # "writing"
          /\ file' = Released
       \/ /\ writer # p
          /\ UNCHANGED file
    /\ UNCHANGED <<image, overwritten, late, writer, cut>>

\* The connection is lost: an OSError, or, as the length is not compared, a
\* download that looks finished.
CutOff(p) ==
    /\ pc[p] = "writing"
    /\ cut' = TRUE
    /\ DownloadRaises(p, TRUE) \/ Downloaded(p)
    /\ UNCHANGED <<image, overwritten, late, file, writer>>

\* ctypes.CDLL: an incomplete file is an OSError, or is mapped and kills the
\* process at the first page that is not there.
Load(p) ==
    /\ pc[p] = "loading"
    /\ \/ /\ image[p] # "none"
          /\ Goto(p, "asking")
          /\ UNCHANGED <<image, late>>
       \/ /\ image[p] = "none" /\ file \in Version
          /\ image' = [image EXCEPT ![p] = file]
          /\ late' = [late EXCEPT ![p] = @ \/ file # "package"]
          /\ Goto(p, "asking")
       \/ /\ image[p] = "none" /\ file \notin Version
          /\ \E s \in {"raised", "crashed"} : Goto(p, s)
          /\ UNCHANGED <<image, late>>
    /\ UNCHANGED <<round, overwritten, file, writer, cut>>

\* Mutant: the library is compared with a version it does not report.
AskOtherVersion(p) ==
    /\ pc[p] = "asking"
    /\ Goto(p, "requesting")
    /\ round' = [round EXCEPT ![p] = "try"]
    /\ UNCHANGED <<image, overwritten, late, file, writer, cut>>

\* GetVersion().decode() != importlib.metadata.version("snakechat")
AskVersion(p) ==
    /\ pc[p] = "asking"
    /\ IF image[p] = "package"
       THEN Goto(p, "ready") /\ UNCHANGED round
       ELSE Goto(p, "requesting") /\ round' = [round EXCEPT ![p] = "try"]
    /\ UNCHANGED <<image, overwritten, late, file, writer, cut>>

\* A page of the library that is not what it was.
Crash(p) ==
    /\ image[p] # "none" /\ overwritten[p]
    /\ pc[p] # "crashed"
    /\ Goto(p, "crashed")
    /\ cut' = (cut \/ pc[p] = "writing")
    /\ UNCHANGED <<round, image, overwritten, late, file, writer>>

ImportStep(p) ==
    \/ Look(p) \/ RequestFails(p) \/ Truncate(p)
    \/ WriteLast(p) \/ CutOff(p) \/ Load(p) \/ AskVersion(p)

Next == \E p \in Processes : Import(p) \/ Exit(p) \/ ImportStep(p) \/ Crash(p)

Spec == Init /\ [][Next]_vars

FairSpec == Spec /\ \A p \in Processes : WF_vars(ImportStep(p))
-----------------------------------------------------------------------------
(* Safety.                                                                 *)

Downloading(p) == pc[p] = "writing"

\* What is left under the library's name is complete as soon as the process that
\* truncated it last is done, unless some download was cut off or killed.
PartialExplained ==
    file = "partial" => cut \/ (writer # NoProcess /\ Downloading(writer))

\* The right library changes under a process that mapped it only through another
\* that looked before the file was there, or that had loaded another version.
OverwrittenByLatecomer ==
    [][\A p \in Processes :
          image[p] = "package" /\ overwritten'[p] /\ ~overwritten[p] =>
              \E q \in Processes : q # p /\ late[q] /\ Downloading(q)']_vars

\* What kills an importing process is a file changed under it, a download that
\* was cut off at some time, or one that such a latecomer is making right now.
CrashExplained ==
    [][\A p \in Processes :
          pc'[p] = "crashed" /\ pc[p] # "crashed" =>
              \/ overwritten[p] \/ cut
              \/ \E q \in Processes : q # p /\ late[q] /\ Downloading(q)]_vars

-----------------------------------------------------------------------------
(* Liveness.                                                               *)

\* An import ends, in success or not, unless the process has mapped another
\* version: dlopen keeps returning it however often the file is replaced.
ImportEnds ==
    \A p \in Processes :
        pc[p] = "looking" ~>
            pc[p] \in {"off", "ready", "raised", "crashed"} \/ image[p] = "old"
=============================================================================

---------------------------- MODULE LoaderProofs ----------------------------
(***************************************************************************)
(* What holds of any number of processes that import the package from one  *)
(* directory.                                                              *)
(***************************************************************************)
EXTENDS Loader, TLAPS

\* The definitions a step is made of.
Steps(p) ==
    \/ Import(p) \/ Exit(p) \/ Look(p) \/ RequestFails(p) \/ Truncate(p)
    \/ WriteLast(p) \/ CutOff(p) \/ Load(p) \/ AskVersion(p) \/ Crash(p)

\* A step is the step of one process.
LEMMA NextSteps == Next => \E p \in Processes : Steps(p)
BY DEF Next, ImportStep, Steps

-----------------------------------------------------------------------------
\* Every reachable state of Loader is well typed.
THEOREM LoaderTypeCorrect == Spec => []TypeOK
<1>1. Init => TypeOK
  <2> SUFFICES ASSUME Init
               PROVE  TypeOK
    OBVIOUS
  <2>1. /\ overwritten \in [Processes -> BOOLEAN]
        /\ late \in [Processes -> BOOLEAN]
        /\ cut \in BOOLEAN
    BY Zenon DEF Init
  <2>2. file \in Version \cup {"absent", "partial"}
    BY LoaderAssumption DEF Init, Version
  <2> QED
    BY <2>1, <2>2 DEF Init, TypeOK
<1>2. TypeOK /\ [Next]_vars => TypeOK'
  <2> SUFFICES ASSUME TypeOK, [Next]_vars
               PROVE  TypeOK'
    OBVIOUS
  <2> USE DEF TypeOK, Goto
  <2>1. CASE UNCHANGED vars
    BY <2>1 DEF vars
  <2>2. ASSUME NEW p \in Processes, Steps(p)
        PROVE  TypeOK'
    <3>1. CASE Import(p)
      BY <3>1 DEF Import
    <3>2. CASE Exit(p)
      BY <3>2 DEF Exit
    <3>3. CASE Look(p)
      BY <3>3 DEF Look
    <3>4. CASE RequestFails(p)
      BY <3>4 DEF RequestFails, DownloadRaises
    <3>5. CASE Truncate(p)
      BY <3>5 DEF Truncate
    <3>6. CASE WriteLast(p)
      BY <3>6, LoaderAssumption DEF WriteLast, Downloaded, Version
    <3>7. CASE CutOff(p)
      BY <3>7 DEF CutOff, Downloaded, DownloadRaises
    <3>8. CASE Load(p)
      <4>1. late' \in [Processes -> BOOLEAN]
        <5>1. CASE late' = [late EXCEPT ![p] = @ \/ file # "package"]
          <6>1. (late[p] \/ file # "package") \in BOOLEAN
            OBVIOUS
          <6> QED
            BY <5>1, <6>1, Zenon
        <5> QED
          BY <3>8, <5>1 DEF Load
      <4>2. /\ pc' \in [Processes -> {"off", "looking", "requesting", "writing",
                                     "loading", "asking", "ready", "raised", "crashed"}]
            /\ image' \in [Processes -> Version \cup {"none"}]
        BY <3>8 DEF Load
      <4> QED
        BY <3>8, <4>1, <4>2 DEF Load
    <3>9. CASE AskVersion(p)
      BY <3>9 DEF AskVersion
    <3>10. CASE Crash(p)
      BY <3>10 DEF Crash
    <3> QED
      BY <2>2, <3>1, <3>2, <3>3, <3>4, <3>5, <3>6, <3>7, <3>8, <3>9, <3>10
      DEF Steps
  <2> QED
    BY <2>1, <2>2, NextSteps
<1> QED
  BY <1>1, <1>2, PTL DEF Spec

-----------------------------------------------------------------------------
\* A library is partial only while its last writer writes, or after a cut.
THEOREM PartialsExplained == Spec => []PartialExplained
<1>1. Init => PartialExplained
  BY LoaderAssumption DEF Init, PartialExplained
<1>2. TypeOK /\ PartialExplained /\ [Next]_vars => PartialExplained'
  <2> SUFFICES ASSUME TypeOK, PartialExplained, [Next]_vars
               PROVE  PartialExplained'
    OBVIOUS
  <2> USE DEF TypeOK, PartialExplained, Downloading, Goto
  <2>1. CASE UNCHANGED vars
    BY <2>1 DEF vars
  <2>2. ASSUME NEW p \in Processes, Steps(p)
        PROVE  PartialExplained'
    <3>1. CASE Import(p)
      BY <3>1 DEF Import
    <3>2. CASE Exit(p)
      BY <3>2 DEF Exit
    <3>3. CASE Look(p)
      BY <3>3 DEF Look
    <3>4. CASE RequestFails(p)
      BY <3>4 DEF RequestFails, DownloadRaises
    <3>5. CASE Truncate(p)
      BY <3>5, LoaderAssumption DEF Truncate
    <3>6. CASE WriteLast(p)
      BY <3>6, LoaderAssumption DEF WriteLast, Downloaded
    <3>7. CASE CutOff(p)
      BY <3>7 DEF CutOff
    <3>8. CASE Load(p)
      BY <3>8 DEF Load
    <3>9. CASE AskVersion(p)
      BY <3>9 DEF AskVersion
    <3>10. CASE Crash(p)
      BY <3>10 DEF Crash
    <3> QED
      BY <2>2, <3>1, <3>2, <3>3, <3>4, <3>5, <3>6, <3>7, <3>8, <3>9, <3>10
      DEF Steps
  <2> QED
    BY <2>1, <2>2, NextSteps
<1> QED
  BY <1>1, <1>2, LoaderTypeCorrect, PTL DEF Spec

-----------------------------------------------------------------------------
(* Who downloads, and who has what mapped.                                 *)

\* Whoever writes or loads has seen the file: it does not go away.
FileThere == \A p \in Processes : pc[p] \in {"writing", "loading"} => file # "absent"

\* Whoever is about to download is late; so is whoever is on the way to it.
DownloaderIsLate ==
    \A p \in Processes :
        /\ pc[p] \in {"requesting", "writing"} => late[p]
        /\ pc[p] \in {"looking", "loading"} /\ image[p] # "none" => late[p]
        /\ pc[p] = "asking" /\ image[p] # "package" => late[p]

\* Whoever has the right library mapped downloads no more.
RightLibraryStays ==
    \A p \in Processes :
        image[p] = "package" => pc[p] \in {"asking", "ready", "crashed"}

LoaderInv == TypeOK /\ FileThere /\ DownloaderIsLate /\ RightLibraryStays

\* The three hold together at every step.
LEMMA LoaderInvHolds == Spec => []LoaderInv
<1>1. TypeOK /\ Init => LoaderInv
  BY DEF Init, LoaderInv, FileThere, DownloaderIsLate, RightLibraryStays
<1>2. LoaderInv /\ TypeOK' /\ [Next]_vars => LoaderInv'
  <2> SUFFICES ASSUME LoaderInv, TypeOK', [Next]_vars
               PROVE  FileThere' /\ DownloaderIsLate' /\ RightLibraryStays'
    BY DEF LoaderInv
  <2> USE DEF LoaderInv, TypeOK, FileThere, DownloaderIsLate, RightLibraryStays, Goto
  <2>1. CASE UNCHANGED vars
    BY <2>1 DEF vars
  <2>2. ASSUME NEW p \in Processes, Steps(p)
        PROVE  FileThere' /\ DownloaderIsLate' /\ RightLibraryStays'
    <3>1. CASE Import(p)
      BY <3>1 DEF Import
    <3>2. CASE Exit(p)
      BY <3>2 DEF Exit
    <3>3. CASE Look(p)
      BY <3>3 DEF Look
    <3>4. CASE RequestFails(p)
      BY <3>4 DEF RequestFails, DownloadRaises
    <3>5. CASE Truncate(p)
      BY <3>5 DEF Truncate
    <3>6. CASE WriteLast(p)
      BY <3>6, LoaderAssumption DEF WriteLast, Downloaded
    <3>7. CASE CutOff(p)
      BY <3>7 DEF CutOff, Downloaded, DownloadRaises
    <3>8. CASE Load(p)
      BY <3>8 DEF Load, Version
    <3>9. CASE AskVersion(p)
      BY <3>9 DEF AskVersion
    <3>10. CASE Crash(p)
      BY <3>10 DEF Crash
    <3> QED
      BY <2>2, <3>1, <3>2, <3>3, <3>4, <3>5, <3>6, <3>7, <3>8, <3>9, <3>10
      DEF Steps
  <2> QED
    BY <2>1, <2>2, NextSteps
<1> QED
  BY <1>1, <1>2, LoaderTypeCorrect, PTL DEF Spec

-----------------------------------------------------------------------------
\* The right library changes under a process only through a late one, whatever
\* the number of processes and whenever they are killed.
THEOREM LibrariesOverwrittenByLatecomers == Spec => OverwrittenByLatecomer
<1> DEFINE Step ==
      \A p \in Processes :
          image[p] = "package" /\ overwritten'[p] /\ ~overwritten[p] =>
              \E q \in Processes : q # p /\ late[q] /\ Downloading(q)'
<1>1. LoaderInv /\ [Next]_vars => [Step]_vars
  <2> SUFFICES ASSUME LoaderInv, NEW q \in Processes, Steps(q)
               PROVE  Step
    BY NextSteps
  <2> SUFFICES ASSUME NEW p \in Processes,
                      image[p] = "package", overwritten'[p], ~overwritten[p]
               PROVE  q # p /\ late[q] /\ Downloading(q)'
    OBVIOUS
  <2> USE DEF LoaderInv, TypeOK
  <2>1. Truncate(q)
    BY DEF Steps, Import, Exit, Look, RequestFails, WriteLast, CutOff, Load,
           AskVersion, Crash
  <2>2. late[q] /\ q # p
    BY <2>1 DEF Truncate, DownloaderIsLate, RightLibraryStays
  <2>3. Downloading(q)'
    BY <2>1 DEF Truncate, Goto, Downloading
  <2> QED
    BY <2>2, <2>3
<1> QED
  BY <1>1, LoaderInvHolds, PTL DEF Spec, OverwrittenByLatecomer

\* A process that is killed by the library had it changed under it, or loaded what
\* was cut off or is just being written by a late one.
THEOREM CrashesExplained == Spec => CrashExplained
<1> DEFINE Step ==
      \A p \in Processes :
          pc'[p] = "crashed" /\ pc[p] # "crashed" =>
              \/ overwritten[p] \/ cut
              \/ \E q \in Processes : q # p /\ late[q] /\ Downloading(q)
<1>1. LoaderInv /\ PartialExplained /\ [Next]_vars => [Step]_vars
  <2> SUFFICES ASSUME LoaderInv, PartialExplained,
                      NEW q \in Processes, Steps(q),
                      NEW p \in Processes, pc'[p] = "crashed", pc[p] # "crashed"
               PROVE  \/ overwritten[p] \/ cut
                      \/ \E w \in Processes : w # p /\ late[w] /\ Downloading(w)
    BY NextSteps
  <2> USE DEF LoaderInv, TypeOK, Goto
  <2>1. \/ q = p /\ Crash(p)
        \/ q = p /\ Load(p) /\ image[p] = "none" /\ file \notin Version
    BY DEF Steps, Import, Exit, Look, RequestFails, Truncate, WriteLast, CutOff,
           Load, AskVersion, Crash, Downloaded, DownloadRaises
  <2>2. CASE Crash(p)
    BY <2>2 DEF Crash
  <2>3. CASE Load(p) /\ file \notin Version
    <3>1. file = "partial"
      BY <2>3 DEF Load, FileThere
    <3>2. CASE ~cut
      <4>1. writer # NoProcess /\ Downloading(writer)
        BY <3>1, <3>2 DEF PartialExplained
      <4>2. writer \in Processes /\ writer # p /\ late[writer]
        BY <4>1, <2>3 DEF Load, Downloading, DownloaderIsLate
      <4> QED
        BY <4>1, <4>2
    <3> QED
      BY <3>2
  <2> QED
    BY <2>1, <2>2, <2>3
<1> QED
  BY <1>1, LoaderInvHolds, PartialsExplained, PTL DEF Spec, CrashExplained
=============================================================================

----------------------------- MODULE MediaProofs -----------------------------
(***************************************************************************)
(* What holds of any number of threads that make media messages, for any   *)
(* clock, any size of the pipe and anything ffmpeg has to say.  The steps  *)
(* of each kind of work are first reduced to three numbers: where its with *)
(* statement begins, where it ends, and how many steps there are.          *)
(***************************************************************************)
EXTENDS Media, TLAPS

-----------------------------------------------------------------------------
(* The scripts.                                                            *)

Works == {"video", "audio", "sticker", "mp3"}
Converting == {"sticker", "mp3"}

EnterAt(k) ==
    CASE k = "video" -> 2 [] k = "audio" -> 3 [] k = "sticker" -> 2 [] k = "mp3" -> 1
LeaveAt(k) ==
    CASE k = "video" -> 6 [] k = "audio" -> 5 [] k = "sticker" -> 4 [] k = "mp3" -> 3
LengthOf(k) ==
    CASE k = "video" -> 7 [] k = "audio" -> 5 [] k = "sticker" -> 5 [] k = "mp3" -> 3

\* The calls of ffmpeg are between the two, and a conversion is the only one.
LEMMA Bounds ==
    \A k \in Works :
        /\ EnterAt(k) \in 1 .. 3 /\ LeaveAt(k) \in 3 .. 6 /\ LengthOf(k) \in 3 .. 7
        /\ EnterAt(k) + 2 <= LeaveAt(k) /\ LeaveAt(k) <= LengthOf(k)
        /\ k \in Converting => LeaveAt(k) = EnterAt(k) + 2
        /\ k # "mp3" => EnterAt(k) > 1
BY DEF Works, Converting, EnterAt, LeaveAt, LengthOf

\* What the i-th step of a job is.
StepMeans(j, i) ==
    LET s == Steps(j)[i]
        enter == EnterAt(kind[j])
        leave == LeaveAt(kind[j])
    IN  /\ s = "read" => i = 1 /\ kind[j] # "mp3"
        /\ s = "enter" <=> i = enter
        /\ s = "leave" <=> i = leave
        /\ s = "convert" <=> enter < i /\ i < leave /\ kind[j] \in Converting
        /\ s \in {"probe", "frame"} =>
              enter < i /\ i < leave /\ kind[j] \notin Converting
        /\ s = "upload" => i < enter \/ leave < i

\* Each script has the length and the steps that the numbers say.
LEMMA Script ==
    ASSUME NEW j \in Jobs, kind[j] \in Works
    PROVE  /\ Len(Steps(j)) = LengthOf(kind[j])
           /\ \A i \in 1 .. LengthOf(kind[j]) : StepMeans(j, i)
<1> USE DEF StepMeans, Converting, EnterAt, LeaveAt, LengthOf
<1>1. CASE kind[j] = "video"
  <2>1. Steps(j) = <<"read", "enter", "probe", "probe", "frame", "leave", "upload">>
    BY <1>1 DEF Steps, VideoSteps
  <2> QED
    BY <1>1, <2>1
<1>2. CASE kind[j] = "audio"
  <2>1. Steps(j) = <<"read", "upload", "enter", "probe", "leave">>
    BY <1>2 DEF Steps, AudioSteps
  <2> QED
    BY <1>2, <2>1
<1>3. CASE kind[j] = "sticker"
  <2>1. Steps(j) = <<"read", "enter", "convert", "leave", "upload">>
    BY <1>3 DEF Steps, StickerSteps
  <2> QED
    BY <1>3, <2>1
<1>4. CASE kind[j] = "mp3"
  <2>1. Steps(j) = <<"enter", "convert", "leave">>
    BY <1>4 DEF Steps, Mp3Steps
  <2> QED
    BY <1>4, <2>1
<1> QED
  BY <1>1, <1>2, <1>3, <1>4 DEF Works

\* A job that began, at a step of its script or just past the last.
Working(j) ==
    /\ kind[j] \in Works
    /\ step[j] \in Nat /\ 1 <= step[j] /\ step[j] <= LengthOf(kind[j]) + 1

Within(j) == EnterAt(kind[j]) < step[j] /\ step[j] <= LeaveAt(kind[j])
InCall(j) == EnterAt(kind[j]) < step[j] /\ step[j] < LeaveAt(kind[j])

\* The with statement by its numbers.
LEMMA InsideMeans ==
    ASSUME NEW j \in Jobs, Working(j)
    PROVE  Inside(j) <=> Within(j)
<1> DEFINE enter == EnterAt(kind[j])
           leave == LeaveAt(kind[j])
<1>1. /\ enter \in 1 .. 3 /\ leave \in 3 .. 6 /\ enter < leave
      /\ leave <= LengthOf(kind[j]) /\ LengthOf(kind[j]) \in 3 .. 7
  BY Bounds DEF Working
<1>2. \A i \in 1 .. step[j] - 1 :
          (Steps(j)[i] = "enter" <=> i = enter) /\ (Steps(j)[i] = "leave" <=> i = leave)
  BY <1>1, Script DEF Working, StepMeans
<1>3. ASSUME Inside(j)
      PROVE  Within(j)
  <2>1. PICK i \in 1 .. step[j] - 1 :
            Steps(j)[i] = "enter" /\ \A k \in i .. step[j] - 1 : Steps(j)[k] # "leave"
    BY <1>3 DEF Inside
  <2>2. i = enter
    BY <2>1, <1>2
  <2>3. CASE leave < step[j]
    <3>1. leave \in i .. step[j] - 1 /\ leave \in 1 .. step[j] - 1
      BY <1>1, <2>2, <2>3 DEF Working
    <3> QED
      BY <3>1, <2>1, <1>2
  <2> QED
    BY <1>1, <2>1, <2>2, <2>3 DEF Within, Working
<1>4. ASSUME Within(j)
      PROVE  Inside(j)
  <2>1. enter \in 1 .. step[j] - 1
    BY <1>1, <1>4 DEF Within, Working
  <2>2. \A k \in enter .. step[j] - 1 : k \in 1 .. step[j] - 1 /\ k # leave
    BY <1>1, <1>4 DEF Within, Working
  <2>3. \A k \in enter .. step[j] - 1 : Steps(j)[k] # "leave"
    BY <1>2, <2>2
  <2> QED
    BY <1>2, <2>1, <2>3 DEF Inside
<1> QED
  BY <1>3, <1>4

\* Where a job is when it is about to do a step.
LEMMA AtMeans ==
    ASSUME NEW j \in Jobs, Working(j)
    PROVE  /\ At(j, "read") => step[j] = 1 /\ kind[j] # "mp3"
           /\ At(j, "enter") => step[j] = EnterAt(kind[j])
           /\ At(j, "leave") => step[j] = LeaveAt(kind[j])
           /\ At(j, "convert") => InCall(j) /\ kind[j] \in Converting
           /\ At(j, "probe") \/ At(j, "frame") => InCall(j) /\ kind[j] \notin Converting
           /\ At(j, "upload") => ~Within(j) /\ step[j] # EnterAt(kind[j])
           /\ pc[j] = "ready" /\ step[j] <= Len(Steps(j)) => step[j] <= LengthOf(kind[j])
           /\ step[j] > Len(Steps(j)) => step[j] = LengthOf(kind[j]) + 1
<1>1. Len(Steps(j)) = LengthOf(kind[j]) /\ LengthOf(kind[j]) \in 3 .. 7
  BY Script, Bounds DEF Working
<1>2. ASSUME NEW s, At(j, s)
      PROVE  Steps(j)[step[j]] = s /\ StepMeans(j, step[j])
  BY <1>1, <1>2, Script DEF At, Working
<1>3. EnterAt(kind[j]) \in 1 .. 3 /\ LeaveAt(kind[j]) \in 3 .. 6
  BY Bounds DEF Working
<1>4. /\ At(j, "read") => step[j] = 1 /\ kind[j] # "mp3"
      /\ At(j, "enter") => step[j] = EnterAt(kind[j])
      /\ At(j, "leave") => step[j] = LeaveAt(kind[j])
  BY <1>2 DEF StepMeans
<1>5. /\ At(j, "convert") => InCall(j) /\ kind[j] \in Converting
      /\ At(j, "probe") \/ At(j, "frame") => InCall(j) /\ kind[j] \notin Converting
  BY <1>2 DEF StepMeans, InCall
<1>6. At(j, "upload") => ~Within(j) /\ step[j] # EnterAt(kind[j])
  BY <1>2, <1>3 DEF StepMeans, Within, Working
<1> QED
  BY <1>1, <1>4, <1>5, <1>6 DEF Working

\* A call is a conversion by the kind of work alone.
LEMMA ConvertMeans ==
    ASSUME NEW j \in Jobs, Working(j), InCall(j)
    PROVE  Steps(j)[step[j]] = "convert" <=> kind[j] \in Converting
<1>1. step[j] \in 1 .. LengthOf(kind[j])
  BY Bounds DEF Working, InCall
<1> QED
  BY <1>1, Script DEF Working, InCall, StepMeans
-----------------------------------------------------------------------------
(* The inductive invariant.                                                *)

\* Each place of a thread is at a step that has it.
PlacedAt(j) ==
    /\ pc[j] = "idle" => step[j] = 1
    /\ pc[j] # "idle" => Working(j)
    /\ pc[j] = "opening" => step[j] = EnterAt(kind[j])
    /\ pc[j] = "calling" => InCall(j)
    /\ pc[j] \in {"reading", "removing"} => InCall(j) /\ kind[j] \in Converting
    /\ pc[j] = "unwinding" => Within(j)
    /\ pc[j] = "returned" => step[j] = LengthOf(kind[j]) + 1

Placed == \A j \in Jobs : PlacedAt(j)

\* A child runs while its thread is in call, or was given up.
ChildAt(j) ==
    /\ child[j] \notin {"none", "exited"} =>
          \/ pc[j] = "calling"
          \/ /\ child[j] = "closed" /\ failure[j] = "timeout"
             /\ pc[j] \in {"unwinding", "raised"}
    /\ pc[j] = "calling" => child[j] # "none"
    /\ pc[j] = "reading" => child[j] = "exited" /\ code[j] = 0
    /\ child[j] \in {"checked", "writing"} => kind[j] \in Converting
    /\ child[j] = "writing" => fd[j] # NoJob

\* The name of an output is taken once, at the conversion.
OutAt(j) ==
    /\ out[j] # NoName =>
          /\ kind[j] \in Converting /\ pc[j] # "idle"
          /\ EnterAt(kind[j]) < step[j]
          /\ pc[j] = "ready" => LeaveAt(kind[j]) <= step[j]
    /\ pc[j] \in {"calling", "reading", "removing"} /\ kind[j] \in Converting =>
          out[j] # NoName

Children == \A j \in Jobs : ChildAt(j)
Outs == \A j \in Jobs : OutAt(j)

MediaInv == TypeOK /\ Placed /\ Children /\ Outs

\* A step of a job, but for its beginning.
OneStep(j) ==
    \/ ReadSource(j) \/ Enter(j) \/ FillInput(j) \/ CallProbe(j)
    \/ CallThumbnail(j) \/ CallConvert(j) \/ PopenFails(j) \/ CallReturns(j)
    \/ WaitTimesOut(j) \/ ReadOutput(j) \/ RemoveOutput(j) \/ LocalError(j)
    \/ Leave(j) \/ Upload(j) \/ Return(j) \/ WriteError(j)
    \/ CheckOutput(j) \/ OpenOutput(j) \/ WriteOutput(j) \/ WriteStdout(j)
    \/ CloseStdout(j) \/ ChildExits(j) \/ ChildFails(j)

\* Who takes a step.
LEMMA NextSteps ==
    ASSUME [Next]_vars
    PROVE  \/ UNCHANGED vars
           \/ \E j \in Jobs, k \in Kinds, s \in Sources : Begin(j, k, s)
           \/ \E j \in Jobs : OneStep(j)
           \/ ReplaceSource
BY DEF Next, Thread, Child, OneStep

\* What is known of a job that does a step, in numbers.
LEMMA Here ==
    ASSUME NEW j \in Jobs, Working(j)
    PROVE  /\ Inside(j) <=> Within(j)
           /\ At(j, "read") => step[j] = 1 /\ 1 < EnterAt(kind[j])
           /\ At(j, "enter") => step[j] = EnterAt(kind[j])
           /\ At(j, "leave") => step[j] = LeaveAt(kind[j])
           /\ At(j, "convert") => InCall(j) /\ kind[j] \in Converting
           /\ At(j, "probe") \/ At(j, "frame") => InCall(j) /\ kind[j] \notin Converting
           /\ At(j, "upload") => ~Within(j) /\ step[j] # EnterAt(kind[j])
           /\ \A s : At(j, s) => pc[j] = "ready" /\ step[j] <= LengthOf(kind[j])
           /\ step[j] > Len(Steps(j)) => step[j] = LengthOf(kind[j]) + 1
           /\ InCall(j) => (Steps(j)[step[j]] = "convert" <=> kind[j] \in Converting)
           /\ EnterAt(kind[j]) \in Nat /\ LeaveAt(kind[j]) \in Nat
           /\ LengthOf(kind[j]) \in Nat /\ step[j] \in Nat /\ 1 <= step[j]
           /\ EnterAt(kind[j]) + 2 <= LeaveAt(kind[j])
           /\ LeaveAt(kind[j]) <= LengthOf(kind[j])
           /\ 1 <= EnterAt(kind[j]) /\ LengthOf(kind[j]) <= 7
           /\ kind[j] \in Converting => LeaveAt(kind[j]) = EnterAt(kind[j]) + 2
<1>1. \A s : At(j, s) => pc[j] = "ready" /\ step[j] <= LengthOf(kind[j])
  BY AtMeans DEF At
<1>2. kind[j] \in Works /\ step[j] \in Nat /\ 1 <= step[j]
  BY DEF Working
<1>3. /\ EnterAt(kind[j]) \in Nat /\ LeaveAt(kind[j]) \in Nat /\ LengthOf(kind[j]) \in Nat
      /\ EnterAt(kind[j]) + 2 <= LeaveAt(kind[j]) /\ LeaveAt(kind[j]) <= LengthOf(kind[j])
      /\ 1 <= EnterAt(kind[j]) /\ LengthOf(kind[j]) <= 7
      /\ kind[j] \in Converting => LeaveAt(kind[j]) = EnterAt(kind[j]) + 2
      /\ kind[j] # "mp3" => 1 < EnterAt(kind[j])
  BY <1>2, Bounds
<1> QED
  BY <1>1, <1>2, <1>3, AtMeans, InsideMeans, ConvertMeans

\* A step of one job leaves where the others are.
LEMMA Elsewhere ==
    ASSUME TypeOK, NEW j \in Jobs, OneStep(j), NEW i \in Jobs, i # j
    PROVE  /\ pc'[i] = pc[i] /\ kind'[i] = kind[i] /\ step'[i] = step[i]
           /\ failure'[i] = failure[i] /\ out'[i] = out[i] /\ child'[i] = child[i]
           /\ fd'[i] = fd[i] /\ code'[i] = code[i] /\ buf'[i] = buf[i]
           /\ source'[i] = source[i] /\ read'[i] = read[i] /\ held'[i] = held[i]
           /\ probed'[i] = probed[i] /\ input'[i] = input[i]
BY DEF OneStep, TypeOK, thread, contents, files, process,
    ReadSource, Enter, FillInput, CallProbe, CallThumbnail, CallConvert,
    PopenFails, CallReturns, WaitTimesOut, ReadOutput, RemoveOutput,
    LocalError, Leave, Upload, Return, WriteError, CheckOutput,
    OpenOutput, WriteOutput, WriteStdout, CloseStdout, ChildExits,
    ChildFails, Proceed, Raise, Popen, Becomes, Goto, Advance

\* So does the beginning of one.
LEMMA ElsewhereBegin ==
    ASSUME TypeOK, NEW j \in Jobs, NEW k \in Kinds, NEW s \in Sources, Begin(j, k, s),
           NEW i \in Jobs, i # j
    PROVE  /\ pc'[i] = pc[i] /\ kind'[i] = kind[i] /\ step'[i] = step[i]
           /\ failure'[i] = failure[i] /\ out'[i] = out[i] /\ child'[i] = child[i]
           /\ fd'[i] = fd[i] /\ code'[i] = code[i] /\ buf'[i] = buf[i]
           /\ source'[i] = source[i] /\ read'[i] = read[i] /\ held'[i] = held[i]
           /\ probed'[i] = probed[i] /\ input'[i] = input[i]
BY DEF Begin, TypeOK, Goto, contents, files, process

\* No step takes a thread where its script has no such place.
LEMMA PlacedStep == MediaInv /\ [Next]_vars => Placed'
<1> SUFFICES ASSUME MediaInv, [Next]_vars
             PROVE  Placed'
  OBVIOUS
<1> USE DEF MediaInv, TypeOK, Goto, Advance
<1>1. Placed'
  <2>1. CASE UNCHANGED vars
    BY <2>1 DEF vars, thread, Placed, PlacedAt, Working, InCall, Within
  <2>2. ASSUME NEW j \in Jobs, NEW k \in Kinds, NEW s \in Sources, Begin(j, k, s)
        PROVE  Placed'
    <3>1. ASSUME NEW i \in Jobs, i # j
          PROVE  PlacedAt(i)'
      BY <2>2, <3>1, ElsewhereBegin DEF Placed, PlacedAt, Working, InCall, Within
    <3>2. PlacedAt(j)'
      <4>1. k \in Works /\ LengthOf(k) \in 3 .. 7
        BY Bounds, MediaAssumption DEF Works
      <4>2. pc'[j] = "ready" /\ kind'[j] = k /\ step'[j] = 1
        BY <2>2 DEF Begin, Placed, PlacedAt
      <4> QED
        BY <4>1, <4>2 DEF PlacedAt, Working, InCall, Within
    <3> QED
      BY <3>1, <3>2 DEF Placed
  <2>3. ASSUME NEW j \in Jobs, OneStep(j)
        PROVE  Placed'
    <3>a. ASSUME NEW i \in Jobs, i # j
          PROVE  PlacedAt(i)'
      BY <2>3, <3>a, Elsewhere DEF Placed, PlacedAt, Working, InCall, Within
    <3>b. SUFFICES PlacedAt(j)'
      BY <3>a DEF Placed
    <3>c. PlacedAt(j) /\ PlacedAt(j) /\ (pc[j] # "idle" => Working(j))
      BY DEF Placed, Placed, PlacedAt
    <3>d. CASE UNCHANGED thread
      BY <3>c, <3>d DEF thread, PlacedAt, Working, InCall, Within
    <3>1. CASE ReadSource(j)
      <4>1. Working(j)
        BY <3>c, <3>1 DEF ReadSource, At
      <4> QED
        BY <3>c, <4>1, <3>1, Here
        DEF ReadSource, Proceed, Raise, PlacedAt, Working, InCall, Within
    <3>2. CASE Enter(j)
      <4>1. Working(j)
        BY <3>c, <3>2 DEF Enter, At
      <4> QED
        BY <3>c, <4>1, <3>2, Here
        DEF Enter, Proceed, Raise, PlacedAt, Working, InCall, Within
    <3>3. CASE FillInput(j)
      <4>1. Working(j)
        BY <3>c, <3>3 DEF FillInput, At
      <4> QED
        BY <3>c, <4>1, <3>3, Here
        DEF FillInput, Proceed, Raise, PlacedAt, Working, InCall, Within
    <3>4. CASE CallProbe(j)
      <4>1. Working(j)
        BY <3>c, <3>4 DEF CallProbe, At
      <4> QED
        BY <3>c, <4>1, <3>4, Here
        DEF CallProbe, Popen, PlacedAt, Working, InCall, Within
    <3>5. CASE CallThumbnail(j)
      <4>1. Working(j)
        BY <3>c, <3>5 DEF CallThumbnail, At
      <4> QED
        BY <3>c, <4>1, <3>5, Here
        DEF CallThumbnail, Popen, PlacedAt, Working, InCall, Within
    <3>6. CASE CallConvert(j)
      <4>1. Working(j)
        BY <3>c, <3>6 DEF CallConvert, At
      <4> QED
        BY <3>c, <4>1, <3>6, Here
        DEF CallConvert, Popen, PlacedAt, Working, InCall, Within
    <3>7. CASE PopenFails(j)
      <4>1. Working(j)
        BY <3>c, <3>7 DEF PopenFails, At
      <4> QED
        BY <3>c, <4>1, <3>7, Here
        DEF PopenFails, Raise, PlacedAt, Working, InCall, Within
    <3>8. CASE CallReturns(j)
      <4>1. Working(j)
        BY <3>c, <3>8 DEF CallReturns, At
      <4> QED
        BY <3>c, <4>1, <3>8, Here
        DEF CallReturns, Proceed, Raise, PlacedAt, Working, InCall, Within
    <3>9. CASE WaitTimesOut(j)
      <4>1. Working(j)
        BY <3>c, <3>9 DEF WaitTimesOut, At
      <4> QED
        BY <3>c, <4>1, <3>9, Here
        DEF WaitTimesOut, Raise, PlacedAt, Working, InCall, Within
    <3>10. CASE ReadOutput(j)
      <4>1. Working(j)
        BY <3>c, <3>10 DEF ReadOutput, At
      <4> QED
        BY <3>c, <4>1, <3>10, Here
        DEF ReadOutput, Raise, PlacedAt, Working, InCall, Within
    <3>11. CASE RemoveOutput(j)
      <4>1. Working(j)
        BY <3>c, <3>11 DEF RemoveOutput, At
      <4> QED
        BY <3>c, <4>1, <3>11, Here
        DEF RemoveOutput, Proceed, Raise, PlacedAt, Working, InCall, Within
    <3>12. CASE LocalError(j)
      <4>1. Working(j)
        BY <3>c, <3>12 DEF LocalError, At
      <4> QED
        BY <3>c, <4>1, <3>12, Here
        DEF LocalError, Raise, PlacedAt, Working, InCall, Within
    <3>13. CASE Leave(j)
      <4>1. Working(j)
        BY <3>c, <3>13 DEF Leave, At
      <4> QED
        BY <3>c, <4>1, <3>13, Here
        DEF Leave, Proceed, PlacedAt, Working, InCall, Within
    <3>14. CASE Upload(j)
      <4>1. Working(j)
        BY <3>c, <3>14 DEF Upload, At
      <4> QED
        BY <3>c, <4>1, <3>14, Here
        DEF Upload, Proceed, Raise, PlacedAt, Working, InCall, Within
    <3>15. CASE Return(j)
      <4>1. Working(j)
        BY <3>c, <3>15 DEF Return, At
      <4> QED
        BY <3>c, <4>1, <3>15, Here
        DEF Return, PlacedAt, Working, InCall, Within
    <3>16. CASE WriteError(j)
      BY <3>d, <3>16 DEF WriteError
    <3>17. CASE CheckOutput(j)
      BY <3>d, <3>17 DEF CheckOutput
    <3>18. CASE OpenOutput(j)
      BY <3>d, <3>18 DEF OpenOutput
    <3>19. CASE WriteOutput(j)
      BY <3>d, <3>19 DEF WriteOutput
    <3>20. CASE WriteStdout(j)
      BY <3>d, <3>20 DEF WriteStdout
    <3>21. CASE CloseStdout(j)
      BY <3>d, <3>21 DEF CloseStdout
    <3>22. CASE ChildExits(j)
      BY <3>d, <3>22 DEF ChildExits
    <3>23. CASE ChildFails(j)
      BY <3>d, <3>23 DEF ChildFails
    <3> QED
      BY <2>3, <3>1, <3>2, <3>3, <3>4, <3>5, <3>6, <3>7, <3>8, <3>9, <3>10,
      <3>11, <3>12, <3>13, <3>14, <3>15, <3>16, <3>17, <3>18, <3>19, <3>20,
      <3>21, <3>22, <3>23 DEF OneStep
  <2>4. CASE ReplaceSource
    BY <2>4 DEF ReplaceSource, thread, Placed, PlacedAt, Working, InCall, Within
  <2> QED
    BY <2>1, <2>2, <2>3, <2>4, NextSteps DEF MediaInv
<1> QED
  BY <1>1

\* No step leaves a child behind, but for the timeout.
LEMMA ChildrenStep == MediaInv /\ [Next]_vars => Children'
<1> SUFFICES ASSUME MediaInv, [Next]_vars
             PROVE  Children'
  OBVIOUS
<1> USE DEF MediaInv, TypeOK, Goto, Advance
<1>1. Children'
  <2>1. CASE UNCHANGED vars
    BY <2>1 DEF vars, thread, files, process, Children, ChildAt
  <2>2. ASSUME NEW j \in Jobs, NEW k \in Kinds, NEW s \in Sources, Begin(j, k, s)
        PROVE  Children'
    <3>1. ASSUME NEW i \in Jobs, i # j
          PROVE  ChildAt(i)'
      BY <2>2, <3>1, ElsewhereBegin DEF Children, ChildAt
    <3>2. ChildAt(j)'
      BY <2>2 DEF Begin, Children, ChildAt, Placed, PlacedAt, contents, files, process
    <3> QED
      BY <3>1, <3>2 DEF Children
  <2>3. ASSUME NEW j \in Jobs, OneStep(j)
        PROVE  Children'
    <3>a. ASSUME NEW i \in Jobs, i # j
          PROVE  ChildAt(i)'
      BY <2>3, <3>a, Elsewhere DEF Children, ChildAt
    <3>b. SUFFICES ChildAt(j)'
      BY <3>a DEF Children
    <3>c. ChildAt(j) /\ PlacedAt(j) /\ (pc[j] # "idle" => Working(j))
      BY DEF Children, Placed, PlacedAt
    <3>d. child[j] \notin {"none", "closed", "exited"} => pc[j] = "calling" /\ Working(j)
      BY <3>c DEF ChildAt
    <3>1. CASE ReadSource(j)
      <4>1. Working(j)
        BY <3>c, <3>1 DEF ReadSource, At
      <4> QED
        BY <3>c, <4>1, <3>1, Here
        DEF ReadSource, Proceed, Raise, ChildAt, PlacedAt, At, contents, files,
            process
    <3>2. CASE Enter(j)
      <4>1. Working(j)
        BY <3>c, <3>2 DEF Enter, At
      <4> QED
        BY <3>c, <4>1, <3>2, Here
        DEF Enter, Proceed, Raise, ChildAt, PlacedAt, At, contents, files,
            process
    <3>3. CASE FillInput(j)
      <4>1. Working(j)
        BY <3>c, <3>3 DEF FillInput, At
      <4> QED
        BY <3>c, <4>1, <3>3, Here
        DEF FillInput, Proceed, Raise, ChildAt, PlacedAt, At, contents, files,
            process
    <3>4. CASE CallProbe(j)
      <4>1. Working(j)
        BY <3>c, <3>4 DEF CallProbe, At
      <4> QED
        BY <3>c, <4>1, <3>4, Here
        DEF CallProbe, Popen, ChildAt, PlacedAt, At, contents, files, process
    <3>5. CASE CallThumbnail(j)
      <4>1. Working(j)
        BY <3>c, <3>5 DEF CallThumbnail, At
      <4> QED
        BY <3>c, <4>1, <3>5, Here
        DEF CallThumbnail, Popen, ChildAt, PlacedAt, At, contents, files,
            process
    <3>6. CASE CallConvert(j)
      <4>1. Working(j)
        BY <3>c, <3>6 DEF CallConvert, At
      <4> QED
        BY <3>c, <4>1, <3>6, Here
        DEF CallConvert, Popen, ChildAt, PlacedAt, At, contents, files, process
    <3>7. CASE PopenFails(j)
      <4>1. Working(j)
        BY <3>c, <3>7 DEF PopenFails, At
      <4> QED
        BY <3>c, <4>1, <3>7, Here
        DEF PopenFails, Raise, ChildAt, PlacedAt, At, contents, files, process
    <3>8. CASE CallReturns(j)
      <4>1. Working(j)
        BY <3>c, <3>8 DEF CallReturns, At
      <4> QED
        BY <3>c, <4>1, <3>8, Here
        DEF CallReturns, Proceed, Raise, ChildAt, PlacedAt, At, contents, files,
            process
    <3>9. CASE WaitTimesOut(j)
      <4>1. Working(j)
        BY <3>c, <3>9 DEF WaitTimesOut, At
      <4> QED
        BY <3>c, <4>1, <3>9, Here
        DEF WaitTimesOut, Raise, ChildAt, PlacedAt, At, contents, files, process
    <3>10. CASE ReadOutput(j)
      <4>1. Working(j)
        BY <3>c, <3>10 DEF ReadOutput, At
      <4> QED
        BY <3>c, <4>1, <3>10, Here
        DEF ReadOutput, Raise, ChildAt, PlacedAt, At, contents, files, process
    <3>11. CASE RemoveOutput(j)
      <4>1. Working(j)
        BY <3>c, <3>11 DEF RemoveOutput, At
      <4> QED
        BY <3>c, <4>1, <3>11, Here
        DEF RemoveOutput, Proceed, Raise, ChildAt, PlacedAt, At, contents,
            files, process
    <3>12. CASE LocalError(j)
      <4>1. Working(j)
        BY <3>c, <3>12 DEF LocalError, At
      <4> QED
        BY <3>c, <4>1, <3>12, Here
        DEF LocalError, Raise, ChildAt, PlacedAt, At, contents, files, process
    <3>13. CASE Leave(j)
      <4>1. Working(j)
        BY <3>c, <3>13 DEF Leave, At
      <4> QED
        BY <3>c, <4>1, <3>13, Here
        DEF Leave, Proceed, ChildAt, PlacedAt, At, contents, files, process
    <3>14. CASE Upload(j)
      <4>1. Working(j)
        BY <3>c, <3>14 DEF Upload, At
      <4> QED
        BY <3>c, <4>1, <3>14, Here
        DEF Upload, Proceed, Raise, ChildAt, PlacedAt, At, contents, files,
            process
    <3>15. CASE Return(j)
      <4>1. Working(j)
        BY <3>c, <3>15 DEF Return, At
      <4> QED
        BY <3>c, <4>1, <3>15, Here
        DEF Return, ChildAt, PlacedAt, At, contents, files, process
    <3>16. CASE WriteError(j)
      BY <3>c, <3>d, <3>16, Here
      DEF WriteError, ChildAt, PlacedAt, thread, contents, files
    <3>17. CASE CheckOutput(j)
      BY <3>c, <3>d, <3>17, Here
      DEF CheckOutput, Becomes, ChildAt, PlacedAt, thread, contents, files
    <3>18. CASE OpenOutput(j)
      <4>1. fd'[j] # NoJob
        BY <3>18, MediaAssumption DEF OpenOutput
      <4> QED
        BY <3>c, <3>d, <4>1, <3>18
        DEF OpenOutput, Becomes, ChildAt, PlacedAt, thread, contents, files
    <3>19. CASE WriteOutput(j)
      BY <3>c, <3>d, <3>19, Here
      DEF WriteOutput, Becomes, ChildAt, PlacedAt, thread, contents, files
    <3>20. CASE WriteStdout(j)
      BY <3>c, <3>d, <3>20, Here
      DEF WriteStdout, Becomes, ChildAt, PlacedAt, thread, contents, files
    <3>21. CASE CloseStdout(j)
      BY <3>c, <3>d, <3>21, Here
      DEF CloseStdout, Becomes, ChildAt, PlacedAt, thread, contents, files
    <3>22. CASE ChildExits(j)
      BY <3>c, <3>d, <3>22, Here
      DEF ChildExits, Becomes, ChildAt, PlacedAt, thread, contents, files
    <3>23. CASE ChildFails(j)
      BY <3>c, <3>d, <3>23, Here
      DEF ChildFails, Becomes, ChildAt, PlacedAt, thread, contents, files
    <3> QED
      BY <2>3, <3>1, <3>2, <3>3, <3>4, <3>5, <3>6, <3>7, <3>8, <3>9, <3>10,
      <3>11, <3>12, <3>13, <3>14, <3>15, <3>16, <3>17, <3>18, <3>19, <3>20,
      <3>21, <3>22, <3>23 DEF OneStep
  <2>4. CASE ReplaceSource
    BY <2>4 DEF ReplaceSource, thread, files, process, Children, ChildAt
  <2> QED
    BY <2>1, <2>2, <2>3, <2>4, NextSteps DEF MediaInv
<1> QED
  BY <1>1

\* No job takes a second name.
LEMMA OutsStep == MediaInv /\ [Next]_vars => Outs'
<1> SUFFICES ASSUME MediaInv, [Next]_vars
             PROVE  Outs'
  OBVIOUS
<1> USE DEF MediaInv, TypeOK, Goto, Advance
<1>1. Outs'
  <2>1. CASE UNCHANGED vars
    BY <2>1 DEF vars, thread, files, process, Outs, OutAt
  <2>2. ASSUME NEW j \in Jobs, NEW k \in Kinds, NEW s \in Sources, Begin(j, k, s)
        PROVE  Outs'
    <3>1. ASSUME NEW i \in Jobs, i # j
          PROVE  OutAt(i)'
      BY <2>2, <3>1, ElsewhereBegin DEF Outs, OutAt
    <3>2. OutAt(j)'
      BY <2>2 DEF Begin, Outs, OutAt, Placed, PlacedAt, contents, files, process
    <3> QED
      BY <3>1, <3>2 DEF Outs
  <2>3. ASSUME NEW j \in Jobs, OneStep(j)
        PROVE  Outs'
    <3>a. ASSUME NEW i \in Jobs, i # j
          PROVE  OutAt(i)'
      BY <2>3, <3>a, Elsewhere DEF Outs, OutAt
    <3>b. SUFFICES OutAt(j)'
      BY <3>a DEF Outs
    <3>c. OutAt(j) /\ PlacedAt(j) /\ (pc[j] # "idle" => Working(j))
      BY DEF Outs, Placed, PlacedAt
    <3>1. CASE ReadSource(j)
      <4>1. Working(j)
        BY <3>c, <3>1 DEF ReadSource, At
      <4> QED
        BY <3>c, <4>1, <3>1, Here
       
        DEF ReadSource, Proceed, Raise, OutAt, PlacedAt, InCall, Within, At,
            contents, files, process
    <3>2. CASE Enter(j)
      <4>1. Working(j)
        BY <3>c, <3>2 DEF Enter, At
      <4> QED
        BY <3>c, <4>1, <3>2, Here
       
        DEF Enter, Proceed, Raise, OutAt, PlacedAt, InCall, Within, At,
            contents, files, process
    <3>3. CASE FillInput(j)
      <4>1. Working(j)
        BY <3>c, <3>3 DEF FillInput, At
      <4> QED
        BY <3>c, <4>1, <3>3, Here
       
        DEF FillInput, Proceed, Raise, OutAt, PlacedAt, InCall, Within, At,
            contents, files, process
    <3>4. CASE CallProbe(j)
      <4>1. Working(j)
        BY <3>c, <3>4 DEF CallProbe, At
      <4> QED
        BY <3>c, <4>1, <3>4, Here
       
        DEF CallProbe, Popen, OutAt, PlacedAt, InCall, Within, At, contents,
            files, process
    <3>5. CASE CallThumbnail(j)
      <4>1. Working(j)
        BY <3>c, <3>5 DEF CallThumbnail, At
      <4> QED
        BY <3>c, <4>1, <3>5, Here
       
        DEF CallThumbnail, Popen, OutAt, PlacedAt, InCall, Within, At, contents,
            files, process
    <3>6. CASE CallConvert(j)
      <4>1. Working(j)
        BY <3>c, <3>6 DEF CallConvert, At
      <4>2. out'[j] # NoName
        <5>1. PICK t \in Ticks : out' = [out EXCEPT ![j] = <<t, Suffix(j)>>]
          BY <3>6 DEF CallConvert
        <5>2. out'[j] = <<t, Suffix(j)>>
          BY <5>1
        <5> QED
          BY <5>2 DEF NoName
      <4>3. InCall(j) /\ kind[j] \in Converting
        BY <4>1, <3>6, Here DEF CallConvert
      <4>4. pc'[j] = "calling" /\ step' = step /\ kind' = kind
        BY <3>6 DEF CallConvert, Popen
      <4> QED
        BY <4>2, <4>3, <4>4 DEF OutAt, InCall
    <3>7. CASE PopenFails(j)
      <4>1. Working(j)
        BY <3>c, <3>7 DEF PopenFails, At
      <4> QED
        BY <3>c, <4>1, <3>7, Here
       
        DEF PopenFails, Raise, OutAt, PlacedAt, InCall, Within, At, contents,
            files, process
    <3>8. CASE CallReturns(j)
      <4>1. Working(j)
        BY <3>c, <3>8 DEF CallReturns, At
      <4> QED
        BY <3>c, <4>1, <3>8, Here
       
        DEF CallReturns, Proceed, Raise, OutAt, PlacedAt, InCall, Within, At,
            contents, files, process
    <3>9. CASE WaitTimesOut(j)
      <4>1. Working(j)
        BY <3>c, <3>9 DEF WaitTimesOut, At
      <4> QED
        BY <3>c, <4>1, <3>9, Here
       
        DEF WaitTimesOut, Raise, OutAt, PlacedAt, InCall, Within, At, contents,
            files, process
    <3>10. CASE ReadOutput(j)
      <4>1. Working(j)
        BY <3>c, <3>10 DEF ReadOutput, At
      <4> QED
        BY <3>c, <4>1, <3>10, Here
       
        DEF ReadOutput, Raise, OutAt, PlacedAt, InCall, Within, At, contents,
            files, process
    <3>11. CASE RemoveOutput(j)
      <4>1. Working(j)
        BY <3>c, <3>11 DEF RemoveOutput, At
      <4> QED
        BY <3>c, <4>1, <3>11, Here
       
        DEF RemoveOutput, Proceed, Raise, OutAt, PlacedAt, InCall, Within, At,
            contents, files, process
    <3>12. CASE LocalError(j)
      <4>1. Working(j)
        BY <3>c, <3>12 DEF LocalError, At
      <4> QED
        BY <3>c, <4>1, <3>12, Here
       
        DEF LocalError, Raise, OutAt, PlacedAt, InCall, Within, At, contents,
            files, process
    <3>13. CASE Leave(j)
      <4>1. Working(j)
        BY <3>c, <3>13 DEF Leave, At
      <4> QED
        BY <3>c, <4>1, <3>13, Here
       
        DEF Leave, Proceed, OutAt, PlacedAt, InCall, Within, At, contents,
            files, process
    <3>14. CASE Upload(j)
      <4>1. Working(j)
        BY <3>c, <3>14 DEF Upload, At
      <4> QED
        BY <3>c, <4>1, <3>14, Here
       
        DEF Upload, Proceed, Raise, OutAt, PlacedAt, InCall, Within, At,
            contents, files, process
    <3>15. CASE Return(j)
      <4>1. Working(j)
        BY <3>c, <3>15 DEF Return, At
      <4> QED
        BY <3>c, <4>1, <3>15, Here
        DEF Return, OutAt, PlacedAt, InCall, Within, At, contents, files, process
    <3>16. CASE WriteError(j)
      BY <3>c, <3>16 DEF WriteError, OutAt, thread, files
    <3>17. CASE CheckOutput(j)
      BY <3>c, <3>17 DEF CheckOutput, OutAt, thread, files
    <3>18. CASE OpenOutput(j)
      BY <3>c, <3>18 DEF OpenOutput, OutAt, thread, files
    <3>19. CASE WriteOutput(j)
      BY <3>c, <3>19 DEF WriteOutput, OutAt, thread, files
    <3>20. CASE WriteStdout(j)
      BY <3>c, <3>20 DEF WriteStdout, OutAt, thread, files
    <3>21. CASE CloseStdout(j)
      BY <3>c, <3>21 DEF CloseStdout, OutAt, thread, files
    <3>22. CASE ChildExits(j)
      BY <3>c, <3>22 DEF ChildExits, OutAt, thread, files
    <3>23. CASE ChildFails(j)
      BY <3>c, <3>23 DEF ChildFails, OutAt, thread, files
    <3> QED
      BY <2>3, <3>1, <3>2, <3>3, <3>4, <3>5, <3>6, <3>7, <3>8, <3>9, <3>10,
      <3>11, <3>12, <3>13, <3>14, <3>15, <3>16, <3>17, <3>18, <3>19, <3>20,
      <3>21, <3>22, <3>23 DEF OneStep
  <2>4. CASE ReplaceSource
    BY <2>4 DEF ReplaceSource, thread, files, process, Outs, OutAt
  <2> QED
    BY <2>1, <2>2, <2>3, <2>4, NextSteps DEF MediaInv
<1> QED
  BY <1>1

\* A child that is started has the types that it should.
LEMMA PopenTypes ==
    ASSUME TypeOK, NEW j \in Jobs, NEW n \in Noise, Popen(j, n)
    PROVE  /\ pc' \in [Jobs -> {"idle", "ready", "opening", "calling", "reading",
                        "removing", "unwinding", "returned", "raised"}]
           /\ probed' \in [Jobs -> SUBSET (Versions \cup {0})]
           /\ child' \in [Jobs -> {"none", "started", "checked", "writing",
                           "finishing", "closed", "exited"}]
           /\ code' \in [Jobs -> {0, 1}]
           /\ noise' \in [Jobs -> Nat]
           /\ pipe' \in [Jobs -> 0 .. PipeSize]
           /\ UNCHANGED <<kind, source, step, failure, version, read, held, fd>>
<1> DEFINE seen == IF Given(j) = "path" THEN version ELSE held[j]
<1>1. seen \in Versions \cup {0}
  BY DEF TypeOK
<1> HIDE DEF seen
<1>2. probed' = [probed EXCEPT ![j] = @ \cup {seen}]
  BY DEF Popen, seen
<1>3. probed' \in [Jobs -> SUBSET (Versions \cup {0})]
  BY <1>1, <1>2 DEF TypeOK
<1>4. noise' \in [Jobs -> Nat] /\ pipe' \in [Jobs -> 0 .. PipeSize]
  BY MediaAssumption DEF TypeOK, Popen
<1> QED
  BY <1>3, <1>4 DEF TypeOK, Popen, Goto

\* Every step keeps the types.
LEMMA TypeStep == MediaInv /\ Placed' /\ [Next]_vars => TypeOK'
<1> SUFFICES ASSUME MediaInv, Placed', [Next]_vars
             PROVE  TypeOK'
  OBVIOUS
<1> USE DEF MediaInv, TypeOK, Goto, Advance
<1>1. TypeOK'
  <2>1. CASE UNCHANGED vars
    BY <2>1 DEF vars, thread, contents, files, process
  <2>2. ASSUME NEW j \in Jobs, NEW k \in Kinds, NEW s \in Sources, Begin(j, k, s)
        PROVE  TypeOK'
    BY <2>2 DEF Begin, contents, files, process
  <2>3. ASSUME NEW j \in Jobs, OneStep(j)
        PROVE  TypeOK'
    <3>a. /\ PlacedAt(j) /\ ChildAt(j) /\ OutAt(j)
          /\ pc[j] # "idle" => Working(j)
      BY DEF Placed, Children, Outs, PlacedAt
    <3>b. step' \in [Jobs -> 1 .. 8]
      <4>1. step' = step \/ step' = [step EXCEPT ![j] = @ + 1]
        BY <2>3
        DEF OneStep, thread, ReadSource, Enter, FillInput, CallProbe,
            CallThumbnail, CallConvert,
           PopenFails, CallReturns, WaitTimesOut, ReadOutput, RemoveOutput,
           LocalError, Leave, Upload, Return, WriteError, CheckOutput,
           OpenOutput, WriteOutput, WriteStdout, CloseStdout, ChildExits,
           ChildFails, Proceed, Raise, Popen, Becomes, Goto, Advance
      <4>2. ASSUME NEW i \in Jobs
            PROVE  step'[i] \in 1 .. 8
        <5>1. pc'[i] = "idle" => step'[i] = 1
          BY DEF Placed, PlacedAt
        <5>2. pc'[i] # "idle" => Working(i)'
          BY DEF Placed, PlacedAt
        <5>3. kind'[i] \in Works => LengthOf(kind'[i]) \in 3 .. 7
          BY Bounds
        <5>4. CASE pc'[i] = "idle"
          BY <5>1, <5>4
        <5>5. CASE pc'[i] # "idle"
          <6>1. kind'[i] \in Works /\ step'[i] \in Nat /\ 1 <= step'[i]
                /\ step'[i] <= LengthOf(kind'[i]) + 1
            BY <5>2, <5>5 DEF Working
          <6>2. LengthOf(kind'[i]) \in 3 .. 7
            BY <5>3, <6>1
          <6> HIDE DEF TypeOK, MediaInv
          <6> QED
            BY <6>1, <6>2
        <5> QED
          BY <5>4, <5>5
      <4> QED
        BY <4>1, <4>2
    <3>1. CASE ReadSource(j)
      <4>1. Content(source[j]) \in Versions \cup {0}
        BY DEF Content
      <4>2. read' \in [Jobs -> Versions \cup {0}]
        BY <3>1, <4>1 DEF ReadSource
      <4> QED
        BY <3>1, <3>b, <4>2 DEF ReadSource, Proceed, Raise, files, process
    <3>2. CASE Enter(j)
      BY <3>2, <3>a, <3>b DEF Enter, Proceed, Raise, thread, contents, files, process
    <3>3. CASE FillInput(j)
      BY <3>3, <3>a, <3>b
      DEF FillInput, Proceed, Raise, thread, contents, files, process
    <3>4. CASE CallProbe(j)
      <4>1. PICK n \in Noise : Popen(j, n)
        BY <3>4 DEF CallProbe
      <4> QED
        BY <3>4, <4>1, PopenTypes DEF CallProbe, files
    <3>5. CASE CallThumbnail(j)
      <4>1. PICK n \in Noise : Popen(j, n)
        BY <3>5 DEF CallThumbnail
      <4> QED
        BY <3>5, <4>1, PopenTypes DEF CallThumbnail, files
    <3>6. CASE CallConvert(j)
      <4>1. PICK n \in Noise : Popen(j, n)
        BY <3>6 DEF CallConvert
      <4>2. PICK t \in Ticks : out' = [out EXCEPT ![j] = <<t, Suffix(j)>>]
        BY <3>6 DEF CallConvert
      <4>3. <<t, Suffix(j)>> \in Names
        BY DEF Suffix, Names
      <4>4. out' \in [Jobs -> Names \cup {NoName}]
        BY <4>2, <4>3
      <4> QED
        BY <3>6, <4>1, <4>4, PopenTypes DEF CallConvert
    <3>7. CASE PopenFails(j)
      BY <3>7, <3>a, <3>b DEF PopenFails, Raise, thread, contents, files, process
    <3>8. CASE CallReturns(j)
      BY <3>8, <3>a, <3>b
      DEF CallReturns, Proceed, Raise, thread, contents, files, process
    <3>9. CASE WaitTimesOut(j)
      BY <3>9, <3>a, <3>b DEF WaitTimesOut, Raise, thread, contents, files, process
    <3>10. CASE ReadOutput(j)
      <4>1. out[j] \in Names
        BY <3>a, <3>10 DEF ReadOutput, PlacedAt, OutAt
      <4>2. buf' \in [Jobs -> SUBSET Jobs]
        BY <3>10, <4>1 DEF ReadOutput
      <4> QED
        BY <3>10, <3>b, <4>2 DEF ReadOutput, Raise, contents, process
    <3>11. CASE RemoveOutput(j)
      <4>1. out[j] \in Names
        BY <3>a, <3>11 DEF RemoveOutput, PlacedAt, OutAt
      <4>2. dir' \in [Names -> Jobs \cup {NoJob}]
        BY <3>11, <4>1 DEF RemoveOutput
      <4>3. failure' \in [Jobs -> {"none", "source", "init", "input", "popen",
                           "returncode", "timeout", "output", "local", "upload"}]
        BY <3>11 DEF RemoveOutput, Proceed, Raise
      <4>4. pc' \in [Jobs -> {"idle", "ready", "opening", "calling", "reading",
                        "removing", "unwinding", "returned", "raised"}]
        BY <3>11 DEF RemoveOutput, Proceed, Raise
      <4>5. UNCHANGED <<kind, source, contents, input, out, buf, data, process>>
        BY <3>11 DEF RemoveOutput, Proceed, Raise
      <4> HIDE DEF Goto, Advance
      <4> QED
        BY <3>b, <4>2, <4>3, <4>4, <4>5 DEF contents, process
    <3>12. CASE LocalError(j)
      BY <3>12, <3>a, <3>b DEF LocalError, Raise, thread, contents, files, process
    <3>13. CASE Leave(j)
      <4>1. input' \in [Jobs -> {"absent", "open", "whole"}]
        BY <3>13 DEF Leave
      <4>2. pc' \in [Jobs -> {"idle", "ready", "opening", "calling", "reading",
                        "removing", "unwinding", "returned", "raised"}]
        BY <3>13 DEF Leave, Proceed
      <4> QED
        BY <3>13, <3>b, <4>1, <4>2 DEF Leave, Proceed, contents, process
    <3>14. CASE Upload(j)
      BY <3>14, <3>a, <3>b
      DEF Upload, Proceed, Raise, thread, contents, files, process
    <3>15. CASE Return(j)
      BY <3>15, <3>a, <3>b DEF Return, thread, contents, files, process
    <3>16. CASE WriteError(j)
      <4>1. noise' \in [Jobs -> Nat]
        BY <3>16 DEF WriteError
      <4>2. pipe' \in [Jobs -> 0 .. PipeSize]
        BY <3>16, MediaAssumption DEF WriteError
      <4> QED
        BY <3>16, <4>1, <4>2 DEF WriteError, thread, contents, files
    <3>17. CASE CheckOutput(j)
      BY <3>17, <3>a, <3>b DEF CheckOutput, Becomes, thread, contents, files, process
    <3>18. CASE OpenOutput(j)
      <4>1. out[j] \in Names
        BY <3>a, <3>18 DEF OpenOutput, PlacedAt, ChildAt, OutAt
      <4> DEFINE f == IF dir[out[j]] = NoJob THEN j ELSE dir[out[j]]
      <4>2. f \in Jobs
        BY <4>1
      <4>3. /\ dir' = [dir EXCEPT ![out[j]] = f] /\ data' = [data EXCEPT ![f] = {}]
            /\ fd' = [fd EXCEPT ![j] = f]
        BY <3>18 DEF OpenOutput
      <4> HIDE DEF f
      <4>4. /\ dir' \in [Names -> Jobs \cup {NoJob}] /\ data' \in [Jobs -> SUBSET Jobs]
            /\ fd' \in [Jobs -> Jobs \cup {NoJob}]
        BY <4>1, <4>2, <4>3
      <4> QED
        BY <3>18, <4>4 DEF OpenOutput, Becomes, thread, contents
    <3>19. CASE WriteOutput(j)
      BY <3>19, <3>a, <3>b DEF WriteOutput, Becomes, thread, contents, files, process
    <3>20. CASE WriteStdout(j)
      BY <3>20, <3>a, <3>b DEF WriteStdout, Becomes, thread, contents, files, process
    <3>21. CASE CloseStdout(j)
      BY <3>21, <3>a, <3>b DEF CloseStdout, Becomes, thread, contents, files, process
    <3>22. CASE ChildExits(j)
      BY <3>22, <3>a, <3>b DEF ChildExits, Becomes, thread, contents, files, process
    <3>23. CASE ChildFails(j)
      BY <3>23, <3>a, <3>b DEF ChildFails, Becomes, thread, contents, files, process
    <3> QED
      BY <2>3, <3>1, <3>2, <3>3, <3>4, <3>5, <3>6, <3>7, <3>8, <3>9, <3>10,
      <3>11, <3>12, <3>13, <3>14, <3>15, <3>16, <3>17, <3>18, <3>19, <3>20,
      <3>21, <3>22, <3>23 DEF OneStep
  <2>4. CASE ReplaceSource
    BY <2>4 DEF ReplaceSource, thread, files, process
  <2> QED
    BY <2>1, <2>2, <2>3, <2>4, NextSteps DEF MediaInv
<1> QED
  BY <1>1

\* The invariant holds of every behaviour.
LEMMA MediaInvHolds == Spec => []MediaInv
<1>1. Init => MediaInv
  <2> SUFFICES ASSUME Init
               PROVE  MediaInv
    OBVIOUS
  <2> USE DEF Init
  <2>1. TypeOK
    BY MediaAssumption DEF TypeOK
  <2>2. Placed /\ Children /\ Outs
    BY MediaAssumption DEF Placed, PlacedAt, Children, ChildAt, Outs, OutAt
  <2> QED
    BY <2>1, <2>2 DEF MediaInv
<1>2. MediaInv /\ [Next]_vars => MediaInv'
  BY PlacedStep, ChildrenStep, OutsStep, TypeStep DEF MediaInv
<1> QED
  BY <1>1, <1>2, PTL DEF Spec

\* The types of files and processes, through any interleaving of the jobs.
THEOREM MediaTypeCorrect == Spec => []TypeOK
<1>1. MediaInv => TypeOK
  BY DEF MediaInv
<1> QED
  BY <1>1, MediaInvHolds, PTL

-----------------------------------------------------------------------------
(* What a job leaves behind.                                               *)

\* A temporary input exists from __init__ to __exit__, and after an __init__
\* that failed to fill it.
InputAt(j) ==
    input[j] # "absent" =>
        \/ pc[j] = "opening"
        \/ /\ pc[j] \in {"ready", "calling", "reading", "removing", "unwinding"}
           /\ Within(j)
        \/ pc[j] = "raised" /\ failure[j] = "input"

Inputs == \A j \in Jobs : InputAt(j)

\* What the contents of a message are, where the builder read the file itself.
ProbedAt(j) ==
    /\ pc[j] = "idle" => probed[j] = {}
    /\ kind[j] = "audio" \/ (kind[j] = "video" /\ source[j] = "bytes") =>
          /\ step[j] <= EnterAt(kind[j]) => probed[j] = {}
          /\ step[j] > EnterAt(kind[j]) =>
                held[j] = read[j] /\ probed[j] \subseteq {read[j]}
          /\ pc[j] = "calling" \/ step[j] > EnterAt(kind[j]) + 1 =>
                probed[j] = {read[j]}

Contents == \A j \in Jobs : ProbedAt(j)

\* No step forgets a temporary input, but for one that could not be filled.
LEMMA InputsStep == MediaInv /\ Inputs /\ [Next]_vars => Inputs'
<1> SUFFICES ASSUME MediaInv, Inputs, [Next]_vars
             PROVE  Inputs'
  OBVIOUS
<1> USE DEF MediaInv, TypeOK, Goto, Advance
<1>1. Inputs'
  <2>1. CASE UNCHANGED vars
    BY <2>1 DEF vars, thread, files, Within, Inputs, InputAt
  <2>2. ASSUME NEW j \in Jobs, NEW k \in Kinds, NEW s \in Sources, Begin(j, k, s)
        PROVE  Inputs'
    <3>1. ASSUME NEW i \in Jobs, i # j
          PROVE  InputAt(i)'
      BY <2>2, <3>1, ElsewhereBegin DEF Inputs, InputAt, Within
    <3>2. InputAt(j)'
      BY <2>2
      DEF Begin, Inputs, InputAt, Within, Placed, PlacedAt, contents, files,
          process
    <3> QED
      BY <3>1, <3>2 DEF Inputs
  <2>3. ASSUME NEW j \in Jobs, OneStep(j)
        PROVE  Inputs'
    <3>a. ASSUME NEW i \in Jobs, i # j
          PROVE  InputAt(i)'
      BY <2>3, <3>a, Elsewhere DEF Inputs, InputAt, Within
    <3>b. SUFFICES InputAt(j)'
      BY <3>a DEF Inputs
    <3>c. InputAt(j) /\ PlacedAt(j) /\ (pc[j] # "idle" => Working(j))
      BY DEF Inputs, Placed, PlacedAt
    <3>1. CASE ReadSource(j)
      <4>1. Working(j)
        BY <3>c, <3>1 DEF ReadSource, At
      <4> QED
        BY <3>c, <4>1, <3>1, Here
       
        DEF ReadSource, Proceed, Raise, InputAt, PlacedAt, InCall, Within,
            contents, files, process
    <3>2. CASE Enter(j)
      <4>1. Working(j)
        BY <3>c, <3>2 DEF Enter, At
      <4> QED
        BY <3>c, <4>1, <3>2, Here
       
        DEF Enter, Proceed, Raise, InputAt, PlacedAt, InCall, Within, contents,
            files, process
    <3>3. CASE FillInput(j)
      <4>1. Working(j)
        BY <3>c, <3>3 DEF FillInput, At
      <4> QED
        BY <3>c, <4>1, <3>3, Here
       
        DEF FillInput, Proceed, Raise, InputAt, PlacedAt, InCall, Within,
            contents, files, process
    <3>4. CASE CallProbe(j)
      <4>1. Working(j)
        BY <3>c, <3>4 DEF CallProbe, At
      <4> QED
        BY <3>c, <4>1, <3>4, Here
       
        DEF CallProbe, Popen, InputAt, PlacedAt, InCall, Within, contents,
            files, process
    <3>5. CASE CallThumbnail(j)
      <4>1. Working(j)
        BY <3>c, <3>5 DEF CallThumbnail, At
      <4> QED
        BY <3>c, <4>1, <3>5, Here
       
        DEF CallThumbnail, Popen, InputAt, PlacedAt, InCall, Within, contents,
            files, process
    <3>6. CASE CallConvert(j)
      <4>1. Working(j)
        BY <3>c, <3>6 DEF CallConvert, At
      <4> QED
        BY <3>c, <4>1, <3>6, Here
       
        DEF CallConvert, Popen, InputAt, PlacedAt, InCall, Within, contents,
            files, process
    <3>7. CASE PopenFails(j)
      <4>1. Working(j)
        BY <3>c, <3>7 DEF PopenFails, At
      <4> QED
        BY <3>c, <4>1, <3>7, Here
       
        DEF PopenFails, Raise, InputAt, PlacedAt, InCall, Within, contents,
            files, process
    <3>8. CASE CallReturns(j)
      <4>1. Working(j)
        BY <3>c, <3>8 DEF CallReturns, At
      <4> QED
        BY <3>c, <4>1, <3>8, Here
       
        DEF CallReturns, Proceed, Raise, InputAt, PlacedAt, InCall, Within,
            contents, files, process
    <3>9. CASE WaitTimesOut(j)
      <4>1. Working(j)
        BY <3>c, <3>9 DEF WaitTimesOut, At
      <4> QED
        BY <3>c, <4>1, <3>9, Here
       
        DEF WaitTimesOut, Raise, InputAt, PlacedAt, InCall, Within, contents,
            files, process
    <3>10. CASE ReadOutput(j)
      <4>1. Working(j)
        BY <3>c, <3>10 DEF ReadOutput, At
      <4> QED
        BY <3>c, <4>1, <3>10, Here
       
        DEF ReadOutput, Raise, InputAt, PlacedAt, InCall, Within, contents,
            files, process
    <3>11. CASE RemoveOutput(j)
      <4>1. Working(j)
        BY <3>c, <3>11 DEF RemoveOutput, At
      <4> QED
        BY <3>c, <4>1, <3>11, Here
       
        DEF RemoveOutput, Proceed, Raise, InputAt, PlacedAt, InCall, Within,
            contents, files, process
    <3>12. CASE LocalError(j)
      <4>1. Working(j)
        BY <3>c, <3>12 DEF LocalError, At
      <4> QED
        BY <3>c, <4>1, <3>12, Here
       
        DEF LocalError, Raise, InputAt, PlacedAt, InCall, Within, contents,
            files, process
    <3>13. CASE Leave(j)
      <4>1. Working(j)
        BY <3>c, <3>13 DEF Leave, At
      <4> QED
        BY <3>c, <4>1, <3>13, Here
       
        DEF Leave, Proceed, InputAt, PlacedAt, InCall, Within, contents, files,
            process
    <3>14. CASE Upload(j)
      <4>1. Working(j)
        BY <3>c, <3>14 DEF Upload, At
      <4> QED
        BY <3>c, <4>1, <3>14, Here
       
        DEF Upload, Proceed, Raise, InputAt, PlacedAt, InCall, Within, contents,
            files, process
    <3>15. CASE Return(j)
      <4>1. Working(j)
        BY <3>c, <3>15 DEF Return, At
      <4> QED
        BY <3>c, <4>1, <3>15, Here
        DEF Return, InputAt, PlacedAt, InCall, Within, contents, files, process
    <3>16. CASE WriteError(j)
      BY <3>c, <3>16 DEF WriteError, InputAt, Within, thread, files
    <3>17. CASE CheckOutput(j)
      BY <3>c, <3>17 DEF CheckOutput, InputAt, Within, thread, files
    <3>18. CASE OpenOutput(j)
      BY <3>c, <3>18 DEF OpenOutput, InputAt, Within, thread, files
    <3>19. CASE WriteOutput(j)
      BY <3>c, <3>19 DEF WriteOutput, InputAt, Within, thread, files
    <3>20. CASE WriteStdout(j)
      BY <3>c, <3>20 DEF WriteStdout, InputAt, Within, thread, files
    <3>21. CASE CloseStdout(j)
      BY <3>c, <3>21 DEF CloseStdout, InputAt, Within, thread, files
    <3>22. CASE ChildExits(j)
      BY <3>c, <3>22 DEF ChildExits, InputAt, Within, thread, files
    <3>23. CASE ChildFails(j)
      BY <3>c, <3>23 DEF ChildFails, InputAt, Within, thread, files
    <3> QED
      BY <2>3, <3>1, <3>2, <3>3, <3>4, <3>5, <3>6, <3>7, <3>8, <3>9, <3>10,
      <3>11, <3>12, <3>13, <3>14, <3>15, <3>16, <3>17, <3>18, <3>19, <3>20,
      <3>21, <3>22, <3>23 DEF OneStep
  <2>4. CASE ReplaceSource
    BY <2>4 DEF ReplaceSource, thread, files, Within, Inputs, InputAt
  <2> QED
    BY <2>1, <2>2, <2>3, <2>4, NextSteps DEF MediaInv
<1> QED
  BY <1>1

\* What ffprobe sees is what was read.
LEMMA ContentsStep == MediaInv /\ Contents /\ [Next]_vars => Contents'
<1> SUFFICES ASSUME MediaInv, Contents, [Next]_vars
             PROVE  Contents'
  OBVIOUS
<1> USE DEF MediaInv, TypeOK, Goto, Advance
<1>1. Contents'
  <2>1. CASE UNCHANGED vars
    BY <2>1 DEF vars, thread, contents, Contents, ProbedAt
  <2>2. ASSUME NEW j \in Jobs, NEW k \in Kinds, NEW s \in Sources, Begin(j, k, s)
        PROVE  Contents'
    <3>1. ASSUME NEW i \in Jobs, i # j
          PROVE  ProbedAt(i)'
      BY <2>2, <3>1, ElsewhereBegin DEF Contents, ProbedAt
    <3>2. ProbedAt(j)'
      <4>1. k \in Works /\ EnterAt(k) \in 1 .. 3
        BY Bounds, MediaAssumption DEF Works
      <4>2. /\ pc'[j] = "ready" /\ kind'[j] = k /\ step'[j] = 1
            /\ probed'[j] = {} /\ ~ (step'[j] > EnterAt(kind'[j]))
            /\ ~ (step'[j] > EnterAt(kind'[j]) + 1)
        BY <2>2, <4>1 DEF Begin, Contents, ProbedAt, Placed, PlacedAt, contents
      <4> QED
        BY <4>2 DEF ProbedAt
    <3> QED
      BY <3>1, <3>2 DEF Contents
  <2>3. ASSUME NEW j \in Jobs, OneStep(j)
        PROVE  Contents'
    <3>a. ASSUME NEW i \in Jobs, i # j
          PROVE  ProbedAt(i)'
      BY <2>3, <3>a, Elsewhere DEF Contents, ProbedAt
    <3>b. SUFFICES ProbedAt(j)'
      BY <3>a DEF Contents
    <3>c. ProbedAt(j) /\ PlacedAt(j) /\ (pc[j] # "idle" => Working(j))
      BY DEF Contents, Placed, PlacedAt
    <3>1. CASE ReadSource(j)
      <4>1. Working(j)
        BY <3>c, <3>1 DEF ReadSource, At
      <4> QED
        BY <3>c, <4>1, <3>1, Here
       
        DEF ReadSource, Proceed, Raise, ProbedAt, PlacedAt, InCall, Within,
            Converting, At, contents, files, process
    <3>2. CASE Enter(j)
      <4>1. Working(j)
        BY <3>c, <3>2 DEF Enter, At
      <4> QED
        BY <3>c, <4>1, <3>2, Here
       
        DEF Enter, Proceed, Raise, Given, ProbedAt, PlacedAt, InCall, Within,
            Converting, At, contents, files, process
    <3>3. CASE FillInput(j)
      <4>1. Working(j)
        BY <3>c, <3>3 DEF FillInput, At
      <4> QED
        BY <3>c, <4>1, <3>3, Here
       
        DEF FillInput, Proceed, Raise, Given, ProbedAt, PlacedAt, InCall,
            Within, Converting, At, contents, files, process
    <3>4. CASE CallProbe(j)
      <4>1. Working(j)
        BY <3>c, <3>4 DEF CallProbe, At
      <4>2. PICK n \in Noise : Popen(j, n)
        BY <3>4 DEF CallProbe
      <4>3. InCall(j)
        BY <4>1, <3>4, Here DEF CallProbe
      <4>4. kind[j] = "audio" \/ (kind[j] = "video" /\ source[j] = "bytes") =>
                probed'[j] = probed[j] \cup {held[j]}
        BY <4>2 DEF Popen, Given
      <4>5. UNCHANGED <<kind, source, step, read, held>> /\ pc'[j] = "calling"
        BY <4>2 DEF Popen
      <4>6. /\ step[j] \in Nat /\ EnterAt(kind[j]) \in Nat
            /\ EnterAt(kind[j]) < step[j]
        BY <4>1, <4>3, Here DEF InCall
      <4> QED
        BY <3>c, <4>4, <4>5, <4>6 DEF ProbedAt
    <3>5. CASE CallThumbnail(j)
      <4>1. Working(j)
        BY <3>c, <3>5 DEF CallThumbnail, At
      <4>2. PICK n \in Noise : Popen(j, n)
        BY <3>5 DEF CallThumbnail
      <4>3. InCall(j)
        BY <4>1, <3>5, Here DEF CallThumbnail
      <4>4. kind[j] = "audio" \/ (kind[j] = "video" /\ source[j] = "bytes") =>
                probed'[j] = probed[j] \cup {held[j]}
        BY <4>2 DEF Popen, Given
      <4>5. UNCHANGED <<kind, source, step, read, held>> /\ pc'[j] = "calling"
        BY <4>2 DEF Popen
      <4>6. /\ step[j] \in Nat /\ EnterAt(kind[j]) \in Nat
            /\ EnterAt(kind[j]) < step[j]
        BY <4>1, <4>3, Here DEF InCall
      <4> QED
        BY <3>c, <4>4, <4>5, <4>6 DEF ProbedAt
    <3>6. CASE CallConvert(j)
      <4>1. Working(j)
        BY <3>c, <3>6 DEF CallConvert, At
      <4> QED
        BY <3>c, <4>1, <3>6, Here
       
        DEF CallConvert, Popen, ProbedAt, PlacedAt, InCall, Within, Converting,
            At, contents, files, process
    <3>7. CASE PopenFails(j)
      <4>1. Working(j)
        BY <3>c, <3>7 DEF PopenFails, At
      <4> QED
        BY <3>c, <4>1, <3>7, Here
       
        DEF PopenFails, Raise, ProbedAt, PlacedAt, InCall, Within, Converting,
            At, contents, files, process
    <3>8. CASE CallReturns(j)
      <4>1. Working(j)
        BY <3>c, <3>8 DEF CallReturns, At
      <4> QED
        BY <3>c, <4>1, <3>8, Here
       
        DEF CallReturns, Proceed, Raise, ProbedAt, PlacedAt, InCall, Within,
            Converting, At, contents, files, process
    <3>9. CASE WaitTimesOut(j)
      <4>1. Working(j)
        BY <3>c, <3>9 DEF WaitTimesOut, At
      <4> QED
        BY <3>c, <4>1, <3>9, Here
       
        DEF WaitTimesOut, Raise, ProbedAt, PlacedAt, InCall, Within, Converting,
            At, contents, files, process
    <3>10. CASE ReadOutput(j)
      <4>1. Working(j)
        BY <3>c, <3>10 DEF ReadOutput, At
      <4> QED
        BY <3>c, <4>1, <3>10, Here
       
        DEF ReadOutput, Raise, ProbedAt, PlacedAt, InCall, Within, Converting,
            At, contents, files, process
    <3>11. CASE RemoveOutput(j)
      <4>1. Working(j)
        BY <3>c, <3>11 DEF RemoveOutput, At
      <4> QED
        BY <3>c, <4>1, <3>11, Here
       
        DEF RemoveOutput, Proceed, Raise, ProbedAt, PlacedAt, InCall, Within,
            Converting, At, contents, files, process
    <3>12. CASE LocalError(j)
      <4>1. Working(j)
        BY <3>c, <3>12 DEF LocalError, At
      <4> QED
        BY <3>c, <4>1, <3>12, Here
       
        DEF LocalError, Raise, ProbedAt, PlacedAt, InCall, Within, Converting,
            At, contents, files, process
    <3>13. CASE Leave(j)
      <4>1. Working(j)
        BY <3>c, <3>13 DEF Leave, At
      <4> QED
        BY <3>c, <4>1, <3>13, Here
       
        DEF Leave, Proceed, ProbedAt, PlacedAt, InCall, Within, Converting, At,
            contents, files, process
    <3>14. CASE Upload(j)
      <4>1. Working(j)
        BY <3>c, <3>14 DEF Upload, At
      <4> QED
        BY <3>c, <4>1, <3>14, Here
       
        DEF Upload, Proceed, Raise, ProbedAt, PlacedAt, InCall, Within,
            Converting, At, contents, files, process
    <3>15. CASE Return(j)
      <4>1. Working(j)
        BY <3>c, <3>15 DEF Return, At
      <4> QED
        BY <3>c, <4>1, <3>15, Here
       
        DEF Return, ProbedAt, PlacedAt, InCall, Within, Converting, At,
            contents, files, process
    <3>16. CASE WriteError(j)
      BY <3>c, <3>16 DEF WriteError, ProbedAt, thread, contents
    <3>17. CASE CheckOutput(j)
      BY <3>c, <3>17 DEF CheckOutput, ProbedAt, thread, contents
    <3>18. CASE OpenOutput(j)
      BY <3>c, <3>18 DEF OpenOutput, ProbedAt, thread, contents
    <3>19. CASE WriteOutput(j)
      BY <3>c, <3>19 DEF WriteOutput, ProbedAt, thread, contents
    <3>20. CASE WriteStdout(j)
      BY <3>c, <3>20 DEF WriteStdout, ProbedAt, thread, contents
    <3>21. CASE CloseStdout(j)
      BY <3>c, <3>21 DEF CloseStdout, ProbedAt, thread, contents
    <3>22. CASE ChildExits(j)
      BY <3>c, <3>22 DEF ChildExits, ProbedAt, thread, contents
    <3>23. CASE ChildFails(j)
      BY <3>c, <3>23 DEF ChildFails, ProbedAt, thread, contents
    <3> QED
      BY <2>3, <3>1, <3>2, <3>3, <3>4, <3>5, <3>6, <3>7, <3>8, <3>9, <3>10,
      <3>11, <3>12, <3>13, <3>14, <3>15, <3>16, <3>17, <3>18, <3>19, <3>20,
      <3>21, <3>22, <3>23 DEF OneStep
  <2>4. CASE ReplaceSource
    BY <2>4 DEF ReplaceSource, thread, Contents, ProbedAt
  <2> QED
    BY <2>1, <2>2, <2>3, <2>4, NextSteps DEF MediaInv
<1> QED
  BY <1>1

\* Inputs and contents, of every behaviour.
LEMMA ContentsHold == Spec => [](Inputs /\ Contents)
<1>1. Init => Inputs /\ Contents
  <2> SUFFICES ASSUME Init
               PROVE  Inputs /\ Contents
    OBVIOUS
  <2> QED
    BY DEF Init, Inputs, InputAt, Contents, ProbedAt
<1>2. MediaInv /\ Inputs /\ Contents /\ [Next]_vars => (Inputs /\ Contents)'
  BY InputsStep, ContentsStep
<1> QED
  BY <1>1, <1>2, MediaInvHolds, PTL DEF Spec

\* The duration and the thumbnail of a message are those of the file that is
\* uploaded with it, unless a video was named and not given.
THEOREM ProbedAndUploaded == Spec => []ProbedIsUploaded
<1>1. MediaInv /\ Contents => ProbedIsUploaded
  <2> SUFFICES ASSUME MediaInv, Contents, NEW j \in Jobs, pc[j] = "returned",
                      kind[j] \in {"video", "audio"},
                      ~ (kind[j] = "video" /\ source[j] # "bytes")
               PROVE  probed[j] = {read[j]}
    BY DEF ProbedIsUploaded
  <2>1. Working(j) /\ step[j] = LengthOf(kind[j]) + 1
    BY DEF MediaInv, Placed, PlacedAt
  <2>2. step[j] > EnterAt(kind[j]) + 1
    BY <2>1, Here
  <2>3. kind[j] = "audio" \/ (kind[j] = "video" /\ source[j] = "bytes")
    OBVIOUS
  <2>4. ProbedAt(j)
    BY DEF Contents
  <2> QED
    BY <2>2, <2>3, <2>4 DEF ProbedAt
<1> QED
  BY <1>1, MediaInvHolds, ContentsHold, PTL

-----------------------------------------------------------------------------
(* Outputs.                                                                *)

\* The steps that touch outputs.
LEMMA FileSteps ==
    ASSUME NEW j \in Jobs, OneStep(j)
    PROVE  \/ UNCHANGED <<out, dir, data, fd>>
           \/ CallConvert(j) \/ OpenOutput(j) \/ WriteOutput(j) \/ RemoveOutput(j)
BY DEF OneStep, thread, contents, files, process,
    ReadSource, Enter, FillInput, CallProbe, CallThumbnail, CallConvert,
    PopenFails, CallReturns, WaitTimesOut, ReadOutput, RemoveOutput,
    LocalError, Leave, Upload, Return, WriteError, CheckOutput,
    OpenOutput, WriteOutput, WriteStdout, CloseStdout, ChildExits,
    ChildFails, Proceed, Raise, Popen, Becomes, Goto, Advance

\* A name once taken is kept.
LEMMA NamesKept ==
    ASSUME MediaInv, [Next]_vars, NEW i \in Jobs, out[i] # NoName
    PROVE  out'[i] = out[i]
<1> USE DEF MediaInv, TypeOK
<1>1. CASE UNCHANGED vars
  BY <1>1 DEF vars, files
<1>2. ASSUME NEW j \in Jobs, NEW k \in Kinds, NEW s \in Sources, Begin(j, k, s)
      PROVE  out'[i] = out[i]
  BY <1>2 DEF Begin, files
<1>3. ASSUME NEW j \in Jobs, OneStep(j)
      PROVE  out'[i] = out[i]
  <2>1. CASE CallConvert(j)
    <3>1. i # j
      <4>1. pc[j] = "ready" /\ Working(j)
        BY <2>1 DEF CallConvert, At, Placed, PlacedAt
      <4>2. step[j] < LeaveAt(kind[j]) /\ step[j] \in Nat /\ LeaveAt(kind[j]) \in Nat
        BY <2>1, <4>1, Here DEF CallConvert, InCall
      <4> QED
        BY <4>1, <4>2 DEF Outs, OutAt
    <3> QED
      BY <2>1, <3>1 DEF CallConvert
  <2>2. CASE OpenOutput(j) \/ WriteOutput(j) \/ RemoveOutput(j)
    BY <2>2 DEF OpenOutput, WriteOutput, RemoveOutput
  <2> QED
    BY <1>3, <2>1, <2>2, FileSteps
<1>4. CASE ReplaceSource
  BY <1>4 DEF ReplaceSource, files
<1> QED
  BY <1>1, <1>2, <1>3, <1>4, NextSteps

\* So is what it is shared with.
LEMMA SharedKept ==
    ASSUME MediaInv, [Next]_vars, NEW i \in Jobs, out[i] # NoName, Shared(i)
    PROVE  Shared(i)'
<1>1. PICK k \in Jobs \ {i} : out[k] = out[i]
  BY DEF Shared
<1>2. out'[k] = out'[i]
  BY <1>1, NamesKept
<1> QED
  BY <1>1, <1>2 DEF Shared

\* A file is in the directory under the name that its first writer took.
Owned == \A n \in Names : dir[n] # NoJob => out[dir[n]] = n

\* A child writes to a file of the name it was given, and only after it checked.
OpenAt(k) ==
    fd[k] # NoJob =>
        /\ out[k] # NoName /\ out[fd[k]] = out[k]
        /\ child[k] \in {"writing", "finishing", "closed", "exited"}

\* What is in a file was written through the descriptor of who wrote it.
Written == \A j, k \in Jobs : k \in data[j] => fd[k] = j

Opened == \A k \in Jobs : OpenAt(k)

\* A conversion that did well has written its own file, alone.
WroteAt(j) ==
    kind[j] \in Converting /\ pc[j] \in {"calling", "reading"} =>
        /\ child[j] = "writing" => Shared(j) \/ fd[j] = j
        /\ child[j] \in {"finishing", "closed", "exited"} /\ code[j] = 0 =>
              Shared(j) \/ data[j] = {j}

Wrote == \A j \in Jobs : WroteAt(j)

\* What was read from the output is what the conversion wrote.
ReadAt(j) ==
    pc[j] = "removing" \/ buf[j] # {} =>
        out[j] # NoName /\ (buf[j] = {j} \/ Shared(j))

Reads == \A j \in Jobs : ReadAt(j)

\* An output outlives its conversion where that failed.
LeftAt(j) ==
    out[j] # NoName /\ dir[out[j]] # NoJob =>
        \/ Shared(j)
        \/ pc[j] \in {"calling", "reading", "removing"}
        \/ pc[j] \in {"unwinding", "raised"} /\ failure[j] \in {"returncode", "timeout"}

Lefts == \A j \in Jobs : LeftAt(j)

FilesInv == Owned /\ Opened /\ Written /\ Wrote /\ Reads /\ Lefts

\* The files, through any step.
LEMMA OwnedStep == MediaInv /\ Owned /\ [Next]_vars => Owned'
<1> SUFFICES ASSUME MediaInv, Owned, [Next]_vars, NEW n \in Names, dir'[n] # NoJob
             PROVE  out'[dir'[n]] = n
  BY DEF Owned
<1> USE DEF MediaInv, TypeOK
<1>0. n # NoName
  <2>1. PICK t \in Ticks, s \in {".webp", ".mp3"} : n = <<t, s>>
    BY DEF Names
  <2> QED
    BY <2>1 DEF NoName
<1>1. CASE UNCHANGED <<dir, out>>
  BY <1>1 DEF Owned
<1>2. ASSUME NEW j \in Jobs, OneStep(j)
      PROVE  out'[dir'[n]] = n
  <2>1. CASE dir'[n] = dir[n]
    <3>1. dir[n] \in Jobs /\ out[dir[n]] = n
      BY <2>1 DEF Owned
    <3> QED
      BY <1>0, <2>1, <3>1, NamesKept
  <2>2. CASE OpenOutput(j) /\ n = out[j]
    <3> DEFINE f == IF dir[out[j]] = NoJob THEN j ELSE dir[out[j]]
    <3>1. f \in Jobs /\ out[f] = n
      BY <2>2 DEF Owned
    <3>2. dir'[n] = f
      BY <2>2 DEF OpenOutput
    <3> QED
      BY <1>0, <3>1, <3>2, NamesKept
  <2>3. CASE OpenOutput(j) /\ n # out[j]
    BY <2>1, <2>3 DEF OpenOutput
  <2>4. CASE RemoveOutput(j)
    BY <2>1, <2>4 DEF RemoveOutput
  <2> QED
    BY <1>2, <2>1, <2>2, <2>3, <2>4, FileSteps DEF CallConvert, WriteOutput
<1>3. CASE UNCHANGED vars
  BY <1>1, <1>3 DEF vars, files
<1>4. ASSUME NEW j \in Jobs, NEW k \in Kinds, NEW s \in Sources, Begin(j, k, s)
      PROVE  UNCHANGED <<dir, out>>
  BY <1>4 DEF Begin, files
<1>5. CASE ReplaceSource
  BY <1>1, <1>5 DEF ReplaceSource, files
<1> QED
  BY <1>1, <1>2, <1>3, <1>4, <1>5, NextSteps

\* The steps of a child.
LEMMA ChildSteps ==
    ASSUME NEW j \in Jobs, OneStep(j)
    PROVE  \/ UNCHANGED <<child, code>>
           \/ CallProbe(j) \/ CallThumbnail(j) \/ CallConvert(j)
           \/ CheckOutput(j) \/ OpenOutput(j) \/ WriteOutput(j) \/ WriteStdout(j)
           \/ ChildFails(j) \/ CloseStdout(j) \/ ChildExits(j)
BY
DEF OneStep, process, ReadSource, Enter, FillInput, CallProbe, CallThumbnail,
    CallConvert,
    PopenFails, CallReturns, WaitTimesOut, ReadOutput, RemoveOutput,
    LocalError, Leave, Upload, Return, WriteError, CheckOutput,
    OpenOutput, WriteOutput, WriteStdout, CloseStdout, ChildExits,
    ChildFails, Proceed, Raise, Popen, Becomes, Goto, Advance

LEMMA OpenedStep == MediaInv /\ Owned /\ Opened /\ [Next]_vars => Opened'
<1> SUFFICES ASSUME MediaInv, Owned, Opened, [Next]_vars, NEW k \in Jobs, fd'[k] # NoJob
             PROVE  OpenAt(k)'
  BY DEF Opened, OpenAt
<1> USE DEF MediaInv, TypeOK
<1>1. ASSUME fd'[k] = fd[k], child'[k] = child[k]
      PROVE  OpenAt(k)'
  <2>1. /\ fd[k] \in Jobs /\ out[k] # NoName /\ out[fd[k]] = out[k]
        /\ child[k] \in {"writing", "finishing", "closed", "exited"}
    BY <1>1 DEF Opened, OpenAt
  <2>2. out'[k] = out[k] /\ out'[fd[k]] = out[k]
    BY <2>1, NamesKept
  <2> QED
    BY <1>1, <2>1, <2>2 DEF OpenAt
<1>2. ASSUME NEW j \in Jobs, OneStep(j)
      PROVE  OpenAt(k)'
  <2>1. CASE k # j
    BY <1>1, <1>2, <2>1, Elsewhere
  <2>2. CASE OpenOutput(j) /\ k = j
    <3> DEFINE f == IF dir[out[j]] = NoJob THEN j ELSE dir[out[j]]
    <3>1. out[j] \in Names /\ out[j] # NoName
      BY <2>2 DEF OpenOutput, Children, ChildAt, Outs, OutAt
    <3>2. f \in Jobs /\ out[f] = out[j]
      BY <3>1 DEF Owned
    <3>3. fd'[j] = f /\ child'[j] = "writing"
      BY <2>2 DEF OpenOutput, Becomes
    <3>4. out'[j] = out[j] /\ out'[f] = out[j]
      BY <3>1, <3>2, NamesKept
    <3> HIDE DEF f
    <3> QED
      BY <2>2, <3>1, <3>3, <3>4 DEF OpenAt
  <2>3. CASE ~ OpenOutput(j) /\ k = j
    <3>1. fd'[j] = fd[j]
      BY <1>2, <2>3, FileSteps
      DEF CallConvert, Popen, WriteOutput, RemoveOutput, process
    <3>2. /\ out[j] # NoName /\ out[fd[j]] = out[j] /\ fd[j] \in Jobs
          /\ child[j] \in {"writing", "finishing", "closed", "exited"}
      BY <2>3, <3>1 DEF Opened, OpenAt
    <3>3. ~ CallProbe(j) /\ ~ CallThumbnail(j) /\ ~ CallConvert(j)
      <4>1. SUFFICES ASSUME CallProbe(j) \/ CallThumbnail(j) \/ CallConvert(j)
                     PROVE  FALSE
        OBVIOUS
      <4>2. pc[j] = "ready" /\ Working(j)
        BY <4>1 DEF CallProbe, CallThumbnail, CallConvert, At, Placed, PlacedAt
      <4>3. /\ InCall(j) /\ step[j] \in Nat /\ LeaveAt(kind[j]) \in Nat
        BY <4>1, <4>2, Here DEF CallProbe, CallThumbnail, CallConvert
      <4> QED
        BY <3>2, <4>2, <4>3 DEF Outs, OutAt, InCall
    <3>4. child'[j] \in {"writing", "finishing", "closed", "exited"}
      BY <1>2, <2>3, <3>2, <3>3, ChildSteps
      DEF CheckOutput, WriteOutput, WriteStdout, ChildFails, CloseStdout, ChildExits,
          Becomes
    <3>5. out'[j] = out[j] /\ out'[fd[j]] = out[j]
      BY <3>2, NamesKept
    <3> QED
      BY <2>3, <3>1, <3>2, <3>4, <3>5 DEF OpenAt
  <2> QED
    BY <2>1, <2>2, <2>3
<1>3. CASE UNCHANGED vars
  BY <1>1, <1>3 DEF vars, process
<1>4. ASSUME NEW j \in Jobs, NEW kk \in Kinds, NEW s \in Sources, Begin(j, kk, s)
      PROVE  UNCHANGED <<fd, child>>
  BY <1>4 DEF Begin, process
<1>5. CASE ReplaceSource
  BY <1>1, <1>5 DEF ReplaceSource, process
<1> QED
  BY <1>1, <1>2, <1>3, <1>4, <1>5, NextSteps

LEMMA WrittenStep == MediaInv /\ Opened /\ Written /\ [Next]_vars => Written'
<1> SUFFICES ASSUME MediaInv, Opened, Written, [Next]_vars,
                    NEW j \in Jobs, NEW k \in Jobs, k \in data'[j]
             PROVE  fd'[k] = j
  BY DEF Written
<1> USE DEF MediaInv, TypeOK
<1>1. ASSUME data'[j] = data[j], fd'[k] = fd[k]
      PROVE  fd'[k] = j
  BY <1>1 DEF Written
<1>2. ASSUME NEW i \in Jobs, OneStep(i)
      PROVE  fd'[k] = j
  <2>1. CASE OpenOutput(i)
    <3> DEFINE f == IF dir[out[i]] = NoJob THEN i ELSE dir[out[i]]
    <3>1. data' = [data EXCEPT ![f] = {}] /\ fd' = [fd EXCEPT ![i] = f]
      BY <2>1 DEF OpenOutput
    <3> HIDE DEF f
    <3>2. k \in data[j]
      BY <3>1
    <3>3. fd[k] = j /\ fd[k] # NoJob
      BY <3>2, MediaAssumption DEF Written
    <3>4. k # i
      BY <2>1, <3>3 DEF OpenOutput, Opened, OpenAt
    <3> QED
      BY <3>1, <3>3, <3>4
  <2>2. CASE WriteOutput(i)
    <3>1. data' = [data EXCEPT ![fd[i]] = @ \cup {i}] /\ fd' = fd
      BY <2>2 DEF WriteOutput
    <3>2. CASE k \in data[j]
      BY <3>1, <3>2 DEF Written
    <3>3. CASE k \notin data[j]
      <4>1. fd[i] = j /\ k = i
        BY <3>1, <3>3
      <4> QED
        BY <3>1, <4>1
    <3> QED
      BY <3>2, <3>3
  <2>3. CASE UNCHANGED <<data, fd>>
    BY <1>1, <2>3
  <2> QED
    BY <1>2, <2>1, <2>2, <2>3, FileSteps DEF CallConvert, Popen, RemoveOutput, process
<1>3. CASE UNCHANGED vars
  BY <1>1, <1>3 DEF vars, files, process
<1>4. ASSUME NEW i \in Jobs, NEW kk \in Kinds, NEW s \in Sources, Begin(i, kk, s)
      PROVE  UNCHANGED <<data, fd>>
  BY <1>4 DEF Begin, files, process
<1>5. CASE ReplaceSource
  BY <1>1, <1>5 DEF ReplaceSource, files, process
<1> QED
  BY <1>1, <1>2, <1>3, <1>4, <1>5, NextSteps

\* A job touches the file of another only under their common name.
LEMMA DataElsewhere ==
    ASSUME MediaInv, Owned, Opened, NEW j \in Jobs, OneStep(j), NEW i \in Jobs, i # j,
           data'[i] # data[i]
    PROVE  Shared(i)
<1> USE DEF MediaInv, TypeOK
<1>1. CASE OpenOutput(j)
  <2>1. out[j] \in Names
    BY <1>1 DEF OpenOutput, Children, ChildAt, Outs, OutAt, Placed, PlacedAt
  <2>2. dir[out[j]] = i
    BY <1>1 DEF OpenOutput
  <2>3. out[i] = out[j]
    BY <2>1, <2>2, MediaAssumption DEF Owned
  <2> QED
    BY <2>3 DEF Shared
<1>2. CASE WriteOutput(j)
  <2>1. fd[j] = i
    BY <1>2 DEF WriteOutput
  <2>2. out[i] = out[j]
    BY <2>1, MediaAssumption DEF Opened, OpenAt
  <2> QED
    BY <2>2 DEF Shared
<1> QED
  BY <1>1, <1>2, FileSteps DEF CallConvert, RemoveOutput

LEMMA WroteStep ==
    MediaInv /\ Owned /\ Opened /\ Written /\ Wrote /\ [Next]_vars => Wrote'
<1> SUFFICES ASSUME MediaInv, Owned, Opened, Written, Wrote, [Next]_vars, NEW i \in Jobs,
                    kind'[i] \in Converting, pc'[i] \in {"calling", "reading"}
             PROVE  WroteAt(i)'
  BY DEF Wrote, WroteAt
<1> USE DEF MediaInv, TypeOK
<1>1. ASSUME kind'[i] = kind[i], pc'[i] = pc[i]
      PROVE  out[i] # NoName /\ (Shared(i) => Shared(i)')
  <2>1. out[i] # NoName
    BY <1>1 DEF Outs, OutAt
  <2> QED
    BY <2>1, SharedKept
<1>2. ASSUME kind'[i] = kind[i], pc'[i] = pc[i], child'[i] = child[i], code'[i] = code[i],
             fd'[i] = fd[i], data'[i] = data[i] \/ Shared(i)
      PROVE  WroteAt(i)'
  BY <1>1, <1>2 DEF Wrote, WroteAt
<1>3. ASSUME NEW j \in Jobs, OneStep(j), i # j
      PROVE  WroteAt(i)'
  BY <1>2, <1>3, Elsewhere, DataElsewhere
<1>4. ASSUME OneStep(i)
      PROVE  WroteAt(i)'
  <2>1. CASE OpenOutput(i)
    <3> DEFINE f == IF dir[out[i]] = NoJob THEN i ELSE dir[out[i]]
    <3>1. fd'[i] = f /\ child'[i] = "writing" /\ kind' = kind /\ pc' = pc
      BY <2>1 DEF OpenOutput, Becomes, thread
    <3>2. out[i] \in Names
      BY <2>1 DEF OpenOutput, Children, ChildAt, Outs, OutAt, Placed, PlacedAt
    <3>3. f # i => Shared(i)
      BY <3>2 DEF Owned, Shared
    <3> HIDE DEF f
    <3> QED
      BY <1>1, <3>1, <3>3 DEF WroteAt
  <2>2. CASE WriteOutput(i)
    <3>1. /\ kind' = kind /\ pc' = pc /\ child[i] = "writing" /\ child'[i] = "finishing"
          /\ data' = [data EXCEPT ![fd[i]] = @ \cup {i}]
      BY <2>2 DEF WriteOutput, Becomes, thread
    <3>2. Shared(i) \/ fd[i] = i
      BY <3>1 DEF Wrote, WroteAt
    <3>3. CASE ~ Shared(i)
      <4>1. ASSUME NEW k \in data[i]
            PROVE  k = i
        <5>1. k \in Jobs /\ fd[k] = i
          BY DEF Written
        <5>2. out[k] = out[i]
          BY <5>1, MediaAssumption DEF Opened, OpenAt
        <5> QED
          BY <3>3, <5>1, <5>2 DEF Shared
      <4>2. data'[i] = data[i] \cup {i}
        BY <3>1, <3>2, <3>3
      <4>3. data'[i] = {i}
        BY <4>1, <4>2
      <4> QED
        BY <3>1, <4>3 DEF WroteAt
    <3> QED
      BY <1>1, <3>1, <3>3 DEF WroteAt
  <2>3. CASE CallProbe(i) \/ CallThumbnail(i) \/ CallConvert(i)
    <3>1. child'[i] = "started"
      BY <2>3 DEF CallProbe, CallThumbnail, CallConvert, Popen
    <3> QED
      BY <3>1 DEF WroteAt
  <2>4. CASE CheckOutput(i) \/ ChildFails(i)
    <3>1. child'[i] = "checked" \/ (child'[i] = "finishing" /\ code'[i] = 1)
      BY <2>4 DEF CheckOutput, ChildFails, Becomes
    <3> QED
      BY <3>1 DEF WroteAt
  <2>5. ~ WriteStdout(i)
    <3>1. SUFFICES ASSUME WriteStdout(i)
                   PROVE  FALSE
      OBVIOUS
    <3>2. kind[i] \in Converting /\ Working(i) /\ InCall(i)
      BY <3>1 DEF WriteStdout, Children, ChildAt, Placed, PlacedAt, thread
    <3> QED
      BY <3>1, <3>2, Here DEF WriteStdout
  <2>6. CASE CloseStdout(i) \/ ChildExits(i)
    <3>1. /\ UNCHANGED <<kind, pc, code, fd, data>>
          /\ child[i] \in {"finishing", "closed"} /\ child'[i] \in {"closed", "exited"}
      BY <2>6 DEF CloseStdout, ChildExits, Becomes, thread, files
    <3> QED
      BY <1>1, <3>1 DEF Wrote, WroteAt
  <2>7. CASE /\ UNCHANGED <<child, code>>
             /\ ~ (CallProbe(i) \/ CallThumbnail(i) \/ CallConvert(i))
    <3>1. ~ OpenOutput(i) /\ ~ WriteOutput(i)
      BY <2>7 DEF OpenOutput, WriteOutput, Becomes
    <3>2. UNCHANGED <<fd, data>>
      BY <1>4, <2>7, <3>1, FileSteps DEF RemoveOutput, process
    <3>3. kind' = kind /\ pc[i] \in {"calling", "reading"}
      BY <1>4, <2>7, <3>1 DEF OneStep, thread, Goto,
        ReadSource, Enter, FillInput, CallProbe, CallThumbnail, CallConvert,
        PopenFails, CallReturns, WaitTimesOut, ReadOutput, RemoveOutput,
        LocalError, Leave, Upload, Return, WriteError, CheckOutput,
        OpenOutput, WriteOutput, WriteStdout, CloseStdout, ChildExits,
        ChildFails, Proceed, Raise, Popen, Becomes, Advance
    <3>4. out[i] # NoName /\ (Shared(i) => Shared(i)')
      <4>1. out[i] # NoName
        BY <3>3 DEF Outs, OutAt
      <4> QED
        BY <4>1, SharedKept
    <3> QED
      BY <2>7, <3>2, <3>3, <3>4 DEF Wrote, WroteAt
  <2> QED
    BY <1>4, <2>1, <2>2, <2>3, <2>4, <2>5, <2>6, <2>7, ChildSteps
<1>5. CASE UNCHANGED vars
  BY <1>2, <1>5 DEF vars, thread, files, process
<1>6. ASSUME NEW j \in Jobs, NEW k \in Kinds, NEW s \in Sources, Begin(j, k, s)
      PROVE  WroteAt(i)'
  <2>1. i # j
    BY <1>6 DEF Begin, Goto
  <2>2. data' = data
    BY <1>6 DEF Begin, files
  <2> QED
    BY <1>2, <1>6, <2>1, <2>2, ElsewhereBegin
<1>7. CASE ReplaceSource
  BY <1>2, <1>7 DEF ReplaceSource, thread, files, process
<1> QED
  BY <1>3, <1>4, <1>5, <1>6, <1>7, NextSteps

LEMMA ReadsStep ==
    MediaInv /\ Owned /\ Wrote /\ Reads /\ [Next]_vars => Reads'
<1> SUFFICES ASSUME MediaInv, Owned, Wrote, Reads, [Next]_vars, NEW i \in Jobs,
                    pc'[i] = "removing" \/ buf'[i] # {}
             PROVE  ReadAt(i)'
  BY DEF Reads, ReadAt
<1> USE DEF MediaInv, TypeOK
<1>1. ASSUME buf'[i] = buf[i], pc'[i] = pc[i] \/ pc'[i] # "removing"
      PROVE  ReadAt(i)'
  <2>1. out[i] # NoName /\ (buf[i] = {i} \/ Shared(i))
    BY <1>1 DEF Reads, ReadAt
  <2> QED
    BY <1>1, <2>1, NamesKept, SharedKept DEF ReadAt
<1>2. ASSUME NEW j \in Jobs, OneStep(j), i # j
      PROVE  ReadAt(i)'
  BY <1>1, <1>2, Elsewhere
<1>3. ASSUME OneStep(i)
      PROVE  ReadAt(i)'
  <2>1. CASE ReadOutput(i) /\ dir[out[i]] # NoJob
    <3>1. /\ pc[i] = "reading" /\ out' = out
          /\ buf' = [buf EXCEPT ![i] = data[dir[out[i]]]]
      BY <2>1 DEF ReadOutput
    <3>2. out[i] \in Names /\ out[i] # NoName /\ kind[i] \in Converting
      BY <3>1 DEF Outs, OutAt, Placed, PlacedAt
    <3>3. dir[out[i]] \in Jobs /\ out[dir[out[i]]] = out[i]
      BY <2>1, <3>2 DEF Owned
    <3>4. child[i] = "exited" /\ code[i] = 0
      BY <3>1 DEF Children, ChildAt
    <3>5. Shared(i) \/ data[i] = {i}
      BY <3>1, <3>2, <3>4 DEF Wrote, WroteAt
    <3>6. Shared(i) \/ dir[out[i]] = i
      BY <3>3 DEF Shared
    <3>7. buf'[i] = {i} \/ Shared(i)
      BY <3>1, <3>5, <3>6
    <3> QED
      BY <3>1, <3>2, <3>7, SharedKept DEF ReadAt
  <2>2. CASE ReadOutput(i) /\ dir[out[i]] = NoJob
    BY <1>1, <2>2 DEF ReadOutput, Raise, Goto
  <2>3. CASE ~ ReadOutput(i)
    <3>1. buf' = buf /\ (pc'[i] = "removing" => pc[i] = "removing")
      BY <1>3, <2>3 DEF OneStep, thread, files, Goto,
        ReadSource, Enter, FillInput, CallProbe, CallThumbnail, CallConvert,
        PopenFails, CallReturns, WaitTimesOut, ReadOutput, RemoveOutput,
        LocalError, Leave, Upload, Return, WriteError, CheckOutput,
        OpenOutput, WriteOutput, WriteStdout, CloseStdout, ChildExits,
        ChildFails, Proceed, Raise, Popen, Becomes, Advance
    <3> QED
      BY <1>1, <3>1
  <2> QED
    BY <2>1, <2>2, <2>3
<1>4. CASE UNCHANGED vars
  BY <1>1, <1>4 DEF vars, thread, files
<1>5. ASSUME NEW j \in Jobs, NEW k \in Kinds, NEW s \in Sources, Begin(j, k, s)
      PROVE  ReadAt(i)'
  BY <1>1, <1>5 DEF Begin, Goto, files
<1>6. CASE ReplaceSource
  BY <1>1, <1>6 DEF ReplaceSource, thread, files
<1> QED
  BY <1>2, <1>3, <1>4, <1>5, <1>6, NextSteps

LEMMA LeftsStep == MediaInv /\ Lefts /\ [Next]_vars => Lefts'
<1> SUFFICES ASSUME MediaInv, Lefts, [Next]_vars, NEW i \in Jobs,
                    out'[i] # NoName, dir'[out'[i]] # NoJob
             PROVE  LeftAt(i)'
  BY DEF Lefts, LeftAt
<1> USE DEF MediaInv, TypeOK
<1>1. ASSUME pc'[i] = pc[i], failure'[i] = failure[i], out'[i] = out[i],
             dir[out[i]] # NoJob
      PROVE  LeftAt(i)'
  BY <1>1, SharedKept DEF Lefts, LeftAt
<1>2. ASSUME NEW j \in Jobs, OneStep(j), i # j
      PROVE  LeftAt(i)'
  <2>1. pc'[i] = pc[i] /\ failure'[i] = failure[i] /\ out'[i] = out[i]
    BY <1>2, Elsewhere
  <2>2. CASE dir[out[i]] # NoJob
    BY <1>1, <2>1, <2>2
  <2>3. CASE dir[out[i]] = NoJob
    <3>1. OpenOutput(j)
      BY <1>2, <2>1, <2>3, FileSteps DEF CallConvert, WriteOutput, RemoveOutput
    <3>2. out[j] = out[i] /\ out'[j] = out[j]
      BY <2>1, <2>3, <3>1 DEF OpenOutput
    <3> QED
      BY <1>2, <2>1, <3>2 DEF LeftAt, Shared
  <2> QED
    BY <2>2, <2>3
<1>3. ASSUME OneStep(i)
      PROVE  LeftAt(i)'
  <2>1. CASE CallConvert(i)
    BY <2>1 DEF CallConvert, Popen, Goto, LeftAt
  <2>2. CASE OpenOutput(i)
    <3>1. pc' = pc /\ pc[i] = "calling"
      BY <2>2 DEF OpenOutput, thread, Children, ChildAt
    <3> QED
      BY <3>1 DEF LeftAt
  <2>3. CASE RemoveOutput(i)
    <3>1. out[i] \in Names /\ out' = out
      BY <2>3 DEF RemoveOutput, Outs, OutAt, Placed, PlacedAt
    <3> QED
      BY <2>3, <3>1 DEF RemoveOutput
  <2>4. CASE UNCHANGED <<out, dir>> /\ ~ RemoveOutput(i)
    <3>1. \/ Shared(i)
          \/ pc[i] \in {"calling", "reading", "removing"}
          \/ pc[i] \in {"unwinding", "raised"} /\ failure[i] \in {"returncode", "timeout"}
      BY <2>4 DEF Lefts, LeftAt
    <3>2. Shared(i) => Shared(i)'
      BY <2>4, SharedKept
    <3>3. ASSUME ~ Shared(i)
          PROVE  \/ pc'[i] \in {"calling", "reading", "removing"}
                 \/ /\ pc'[i] \in {"unwinding", "raised"}
                    /\ failure'[i] \in {"returncode", "timeout"}
      <4>1. CASE CallReturns(i)
        <5>1. Working(i) /\ InCall(i) /\ kind[i] \in Converting
          BY <2>4, <4>1 DEF CallReturns, Placed, PlacedAt, Outs, OutAt
        <5> QED
          BY <4>1, <5>1, Here DEF CallReturns, Raise, Goto, Proceed
      <4>2. CASE WaitTimesOut(i)
        BY <4>2 DEF WaitTimesOut, Raise, Goto
      <4>3. CASE ReadOutput(i)
        BY <2>4, <4>3 DEF ReadOutput, Goto
      <4>4. CASE Leave(i)
        BY <3>1, <3>3, <4>4 DEF Leave, Goto, Proceed, At
      <4>5. CASE /\ ~ CallReturns(i) /\ ~ WaitTimesOut(i)
                 /\ ~ ReadOutput(i) /\ ~ Leave(i)
        <5>1. pc'[i] = pc[i] /\ failure'[i] = failure[i]
          BY <1>3, <2>4, <3>1, <3>3, <4>5 DEF OneStep, At, thread,
            ReadSource, Enter, FillInput, CallProbe, CallThumbnail, CallConvert,
        PopenFails, CallReturns, WaitTimesOut, ReadOutput, RemoveOutput,
        LocalError, Leave, Upload, Return, WriteError, CheckOutput,
        OpenOutput, WriteOutput, WriteStdout, CloseStdout, ChildExits,
        ChildFails, Proceed, Raise, Popen, Becomes, Advance
        <5> QED
          BY <3>1, <3>3, <5>1
      <4> QED
        BY <4>1, <4>2, <4>3, <4>4, <4>5
    <3> QED
      BY <3>1, <3>2, <3>3 DEF LeftAt
  <2> QED
    BY <1>3, <2>1, <2>2, <2>3, <2>4, FileSteps DEF WriteOutput
<1>4. CASE UNCHANGED vars
  BY <1>1, <1>4 DEF vars, thread, files
<1>5. ASSUME NEW j \in Jobs, NEW k \in Kinds, NEW s \in Sources, Begin(j, k, s)
      PROVE  LeftAt(i)'
  <2>1. UNCHANGED <<out, dir>> /\ pc[j] = "idle" /\ pc' = [pc EXCEPT ![j] = "ready"]
        /\ failure' = failure
    BY <1>5 DEF Begin, Goto, files
  <2>2. i # j
    BY <2>1 DEF Outs, OutAt
  <2> QED
    BY <1>1, <2>1, <2>2
<1>6. CASE ReplaceSource
  BY <1>1, <1>6 DEF ReplaceSource, thread, files
<1> QED
  BY <1>2, <1>3, <1>4, <1>5, <1>6, NextSteps

\* All of it, of every behaviour.
LEMMA FilesInvHolds == Spec => []FilesInv
<1>1. Init => FilesInv
  <2> SUFFICES ASSUME Init
               PROVE  FilesInv
    OBVIOUS
  <2> USE DEF Init
  <2>1. Owned /\ Opened /\ Written
    BY DEF Owned, Opened, OpenAt, Written
  <2>2. Wrote /\ Reads /\ Lefts
    BY DEF Wrote, WroteAt, Reads, ReadAt, Lefts, LeftAt, Converting
  <2> QED
    BY <2>1, <2>2 DEF FilesInv
<1>2. MediaInv /\ FilesInv /\ [Next]_vars => FilesInv'
  BY OwnedStep, OpenedStep, WrittenStep, WroteStep, ReadsStep, LeftsStep DEF FilesInv
<1> QED
  BY <1>1, <1>2, MediaInvHolds, PTL DEF Spec

\* What a conversion hands back is what its own ffmpeg wrote, whole and alone,
\* unless another took the same name from the clock.
THEOREM OwnOutput == Spec => []OutputIsOwn
<1>1. FilesInv => OutputIsOwn
  BY DEF FilesInv, Reads, ReadAt, OutputIsOwn
<1> QED
  BY <1>1, FilesInvHolds, PTL

\* A job that returned leaves no temporary input, no child and no output.
THEOREM CleanReturns == Spec => []ReturnsClean
<1>1. MediaInv /\ Inputs /\ FilesInv => ReturnsClean
  <2> SUFFICES ASSUME MediaInv, Inputs, FilesInv, NEW j \in Jobs, pc[j] = "returned"
               PROVE  /\ input[j] = "absent"
                      /\ child[j] \in {"none", "exited"}
                      /\ out[j] # NoName => dir[out[j]] = NoJob \/ Shared(j)
    BY DEF ReturnsClean
  <2>1. input[j] = "absent"
    BY DEF Inputs, InputAt
  <2>2. child[j] \in {"none", "exited"}
    BY DEF MediaInv, Children, ChildAt
  <2>3. out[j] # NoName => dir[out[j]] = NoJob \/ Shared(j)
    BY DEF FilesInv, Lefts, LeftAt
  <2> QED
    BY <2>1, <2>2, <2>3
<1> QED
  BY <1>1, MediaInvHolds, ContentsHold, FilesInvHolds, PTL

\* What a job that raised leaves behind tells where it failed.
THEOREM LeftoversTell == Spec => []LeftoversExplained
<1>1. MediaInv /\ Inputs /\ FilesInv => LeftoversExplained
  <2> SUFFICES ASSUME MediaInv, Inputs, FilesInv, NEW j \in Jobs, pc[j] = "raised"
               PROVE  /\ input[j] # "absent" => failure[j] = "input"
                      /\ child[j] \notin {"none", "exited"} => failure[j] = "timeout"
                      /\ out[j] # NoName /\ dir[out[j]] # NoJob =>
                            failure[j] \in {"returncode", "timeout"} \/ Shared(j)
    BY DEF LeftoversExplained
  <2>1. input[j] # "absent" => failure[j] = "input"
    BY DEF Inputs, InputAt
  <2>2. child[j] \notin {"none", "exited"} => failure[j] = "timeout"
    BY DEF MediaInv, Children, ChildAt
  <2>3. out[j] # NoName /\ dir[out[j]] # NoJob =>
            failure[j] \in {"returncode", "timeout"} \/ Shared(j)
    BY DEF FilesInv, Lefts, LeftAt
  <2> QED
    BY <2>1, <2>2, <2>3
<1> QED
  BY <1>1, MediaInvHolds, ContentsHold, FilesInvHolds, PTL

=============================================================================

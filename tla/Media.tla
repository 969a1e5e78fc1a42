------------------------------- MODULE Media -------------------------------
(***************************************************************************)
(* Threads that make media messages with ffmpeg: utils/ffmpeg.py and       *)
(* utils/iofile.py as the builders of client.py use them.  A job is one    *)
(* builder's work on one file.  It is a list of steps (Steps); each call   *)
(* of FFmpeg.call starts a child process that shares the directory of      *)
(* temporary files with the children of every other job.                   *)
(***************************************************************************)
EXTENDS Integers, Sequences, FiniteSets

CONSTANTS
    Jobs,       \* one builder's work each
    Kinds,      \* which work: video, audio, sticker, mp3
    Sources,    \* what a file is given as: bytes, path, url
    Ticks,      \* the readings of time.time()
    Versions,   \* the contents that a path or URL has one after the other
    Noise,      \* the amounts a child may write to stderr
    PipeSize,   \* how much of it fits the pipe
    NoJob

ASSUME MediaAssumption ==
    /\ Kinds \subseteq {"video", "audio", "sticker", "mp3"}
    /\ Sources \subseteq {"bytes", "path", "url"}
    /\ Versions \subseteq Nat /\ 1 \in Versions
    /\ Noise \subseteq Nat /\ PipeSize \in Nat
    /\ NoJob \notin Jobs

VARIABLES
    pc,         \* where the thread of each job is
    kind, source, step,
    failure,    \* what it raised
    version,    \* the content behind paths and URLs at the moment
    read,       \* the content the builder read, and will upload
    input,      \* FFmpeg's temporary input: absent, open or whole
    held,       \* the content in it
    probed,     \* the contents ffprobe and ffmpeg saw
    out,        \* the name cv_to_webp or to_mp3 took from the clock
    buf,        \* what it read from the file of that name
    dir,        \* which job's file each name leads to
    data,       \* whose conversions have written to the file of each job
    child,      \* the child process of each job
    fd,         \* the file it has open for output
    code,       \* its return code
    noise, pipe \* what it has still to write to stderr, what is in the pipe

thread == <<pc, kind, source, step, failure>>
contents == <<version, read, held, probed>>
files == <<input, out, buf, dir, data>>
process == <<child, fd, code, noise, pipe>>
vars == <<thread, contents, files, process>>

NoName == <<>>
Names == Ticks \X {".webp", ".mp3"}

\* Mutant: a second probe for a second thumbnail.
VideoStepsTwice ==
    <<"read", "enter", "probe", "probe", "frame", "probe", "frame", "leave",
      "upload">>

\* The builders, as the steps that touch files, processes or WhatsApp.
VideoSteps ==
    <<"read", "enter", "probe", "probe", "frame", "leave", "upload">>
AudioSteps == <<"read", "upload", "enter", "probe", "leave">>
StickerSteps == <<"read", "enter", "convert", "leave", "upload">>
Mp3Steps == <<"enter", "convert", "leave">>

Steps(j) ==
    CASE kind[j] = "video" -> VideoSteps
      [] kind[j] = "audio" -> AudioSteps
      [] kind[j] = "sticker" -> StickerSteps
      [] kind[j] = "mp3" -> Mp3Steps

Suffix(j) == IF kind[j] = "sticker" THEN ".webp" ELSE ".mp3"

\* Mutant: the audio builder too hands its file to FFmpeg as it was given.
GivenUnread(j) == IF kind[j] = "sticker" THEN "bytes" ELSE source[j]

\* What FFmpeg is given: the builders of stickers and audio have read the
\* file, the one of videos hands it on.
Given(j) == IF kind[j] \in {"video", "mp3"} THEN source[j] ELSE "bytes"

\* Within the with statement, from a successful __init__ to __exit__.
Inside(j) ==
    \E i \in 1 .. step[j] - 1 :
        /\ Steps(j)[i] = "enter"
        /\ \A k \in i .. step[j] - 1 : Steps(j)[k] # "leave"

At(j, s) == pc[j] = "ready" /\ step[j] <= Len(Steps(j)) /\ Steps(j)[step[j]] = s

TypeOK ==
    /\ pc \in [Jobs -> {"idle", "ready", "opening", "calling", "reading",
                        "removing", "unwinding", "returned", "raised"}]
    /\ kind \in [Jobs -> Kinds \cup {"none"}]
    /\ source \in [Jobs -> Sources \cup {"none"}]
    /\ step \in [Jobs -> 1 .. 8]
    /\ failure \in [Jobs -> {"none", "source", "init", "input", "popen", "returncode",
                             "timeout", "output", "local", "upload"}]
    /\ version \in Versions
    /\ read \in [Jobs -> Versions \cup {0}]
    /\ held \in [Jobs -> Versions \cup {0}]
    /\ probed \in [Jobs -> SUBSET (Versions \cup {0})]
    /\ input \in [Jobs -> {"absent", "open", "whole"}]
    /\ out \in [Jobs -> Names \cup {NoName}]
    /\ buf \in [Jobs -> SUBSET Jobs]
    /\ dir \in [Names -> Jobs \cup {NoJob}]
    /\ data \in [Jobs -> SUBSET Jobs]
    /\ child \in [Jobs -> {"none", "started", "checked", "writing",
                           "finishing", "closed", "exited"}]
    /\ fd \in [Jobs -> Jobs \cup {NoJob}]
    /\ code \in [Jobs -> {0, 1}]
    /\ noise \in [Jobs -> Nat]
    /\ pipe \in [Jobs -> 0 .. PipeSize]

Init ==
    /\ pc = [j \in Jobs |-> "idle"]
    /\ kind = [j \in Jobs |-> "none"]
    /\ source = [j \in Jobs |-> "none"]
    /\ step = [j \in Jobs |-> 1]
    /\ failure = [j \in Jobs |-> "none"]
    /\ version = 1
    /\ read = [j \in Jobs |-> 0]
    /\ held = [j \in Jobs |-> 0]
    /\ probed = [j \in Jobs |-> {}]
    /\ input = [j \in Jobs |-> "absent"]
    /\ out = [j \in Jobs |-> NoName]
    /\ buf = [j \in Jobs |-> {}]
    /\ dir = [n \in Names |-> NoJob]
    /\ data = [j \in Jobs |-> {}]
    /\ child = [j \in Jobs |-> "none"]
    /\ fd = [j \in Jobs |-> NoJob]
    /\ code = [j \in Jobs |-> 0]
    /\ noise = [j \in Jobs |-> 0]
    /\ pipe = [j \in Jobs |-> 0]
-----------------------------------------------------------------------------
(* The thread of a job.                                                    *)

Goto(j, p) == pc' = [pc EXCEPT ![j] = p]
Advance(j) == step' = [step EXCEPT ![j] = @ + 1]

Proceed(j) ==
    /\ Goto(j, "ready")
    /\ Advance(j)
    /\ UNCHANGED <<kind, source, failure>>

\* Mutant: nothing unwinds, as without a with statement.
RaiseThrough(j, why) ==
    /\ failure' = [failure EXCEPT ![j] = why]
    /\ Goto(j, "raised")
    /\ UNCHANGED <<kind, source, step>>

\* An exception passes the end of the with statement, if the job is in it.
Raise(j, why) ==
    /\ failure' = [failure EXCEPT ![j] = why]
    /\ Goto(j, IF Inside(j) THEN "unwinding" ELSE "raised")
    /\ UNCHANGED <<kind, source, step>>

\* The content of what FFmpeg or the builder is given, read now.
Content(given) == IF given = "bytes" THEN 0 ELSE version

Begin(j, k, s) ==
    /\ pc[j] = "idle"
    /\ Goto(j, "ready")
    /\ kind' = [kind EXCEPT ![j] = k]
    /\ source' = [source EXCEPT ![j] = s]
    /\ UNCHANGED <<step, failure, contents, files, process>>

\* get_bytes_from_name_or_url.
ReadSource(j) ==
    /\ At(j, "read")
    /\ \/ /\ read' = [read EXCEPT ![j] = Content(source[j])]
          /\ Proceed(j)
       \/ /\ source[j] # "bytes"
          /\ Raise(j, "source")
          /\ UNCHANGED read
    /\ UNCHANGED <<version, held, probed, files, process>>

\* FFmpeg.__init__: a name is used as it is; for bytes and URLs a temporary
\* file is created under a name that mktemp found free.
Enter(j) ==
    /\ At(j, "enter")
    /\ \/ /\ Given(j) = "path"
          /\ Proceed(j)
          /\ UNCHANGED input
       \/ /\ Given(j) # "path"
          /\ input' = [input EXCEPT ![j] = "open"]
          /\ Goto(j, "opening")
          /\ UNCHANGED <<kind, source, step, failure>>
       \/ /\ Given(j) # "path"
          /\ Raise(j, "init")
          /\ UNCHANGED input
    /\ UNCHANGED <<contents, out, buf, dir, data, process>>

\* The bytes are written to it, or first downloaded: when that fails the
\* object does not exist yet and nothing removes the file.
FillInput(j) ==
    /\ pc[j] = "opening"
    /\ \/ /\ input' = [input EXCEPT ![j] = "whole"]
          /\ held' = [held EXCEPT ![j] = IF Given(j) = "url" THEN version ELSE read[j]]
          /\ Proceed(j)
       \/ /\ Raise(j, "input")
          /\ UNCHANGED <<input, held>>
    /\ UNCHANGED <<version, read, probed, out, buf, dir, data, process>>

\* The child opens its input soon after it is started.
Popen(j, n) ==
    /\ child' = [child EXCEPT ![j] = "started"]
    /\ code' = [code EXCEPT ![j] = 0]
    /\ noise' = [noise EXCEPT ![j] = n]
    /\ pipe' = [pipe EXCEPT ![j] = 0]
    /\ probed' = [probed EXCEPT ![j] = @ \cup
                    {IF Given(j) = "path" THEN version ELSE held[j]}]
    /\ Goto(j, "calling")
    /\ UNCHANGED <<kind, source, step, failure, version, read, held, fd>>

\* extract_info, which extract_thumbnail calls first.
CallProbe(j) ==
    /\ At(j, "probe")
    /\ \E n \in Noise : Popen(j, n)
    /\ UNCHANGED files

\* The frame itself of extract_thumbnail.
CallThumbnail(j) ==
    /\ At(j, "frame")
    /\ \E n \in Noise : Popen(j, n)
    /\ UNCHANGED files

\* cv_to_webp and to_mp3 name their output by the clock.
CallConvert(j) ==
    /\ At(j, "convert")
    /\ \E t \in Ticks : out' = [out EXCEPT ![j] = <<t, Suffix(j)>>]
    /\ \E n \in Noise : Popen(j, n)
    /\ UNCHANGED <<input, buf, dir, data>>

\* The executable is not found.
PopenFails(j) ==
    /\ At(j, "probe") \/ At(j, "frame") \/ At(j, "convert")
    /\ Raise(j, "popen")
    /\ UNCHANGED <<contents, files, process>>

\* Mutant: call does not look at the return code.
CallReturnsUnchecked(j) ==
    /\ pc[j] = "calling"
    /\ child[j] = "exited"
    /\ IF Steps(j)[step[j]] = "convert"
       THEN Goto(j, "reading") /\ UNCHANGED <<kind, source, step, failure>>
       ELSE Proceed(j)
    /\ UNCHANGED <<contents, files, process>>

\* call: stdout has ended and wait has the child's return code.
CallReturns(j) ==
    /\ pc[j] = "calling"
    /\ child[j] = "exited"
    /\ \/ code[j] # 0 /\ Raise(j, "returncode")
       \/ /\ code[j] = 0 /\ Steps(j)[step[j]] = "convert"
          /\ Goto(j, "reading")
          /\ UNCHANGED <<kind, source, step, failure>>
       \/ code[j] = 0 /\ Steps(j)[step[j]] # "convert" /\ Proceed(j)
    /\ UNCHANGED <<contents, files, process>>

\* stdout has ended and the child does not in ten seconds.
WaitTimesOut(j) ==
    /\ pc[j] = "calling"
    /\ child[j] = "closed"
    /\ Raise(j, "timeout")
    /\ UNCHANGED <<contents, files, process>>

ReadOutput(j) ==
    /\ pc[j] = "reading"
    /\ \/ /\ dir[out[j]] # NoJob
          /\ buf' = [buf EXCEPT ![j] = data[dir[out[j]]]]
          /\ Goto(j, "removing")
          /\ UNCHANGED <<kind, source, step, failure>>
       \/ /\ dir[out[j]] = NoJob
          /\ Raise(j, "output")
          /\ UNCHANGED buf
    /\ UNCHANGED <<contents, input, out, dir, data, process>>

\* Mutant: the output is not removed.
KeepOutput(j) ==
    /\ pc[j] = "removing"
    /\ Proceed(j)
    /\ UNCHANGED <<contents, files, process>>

RemoveOutput(j) ==
    /\ pc[j] = "removing"
    /\ \/ dir[out[j]] # NoJob /\ Proceed(j)
       \/ dir[out[j]] = NoJob /\ Raise(j, "output")
    /\ dir' = [dir EXCEPT ![out[j]] = NoJob]
    /\ UNCHANGED <<contents, input, out, buf, data, process>>

\* The answer of ffprobe has no duration, the image does not open.
LocalError(j) ==
    /\ pc[j] = "ready"
    /\ Inside(j)
    /\ Raise(j, "local")
    /\ UNCHANGED <<contents, files, process>>

\* FFmpeg.__exit__: a temporary input is removed, a name given is left alone.
Leave(j) ==
    /\ \/ At(j, "leave") /\ Proceed(j)
       \/ /\ pc[j] = "unwinding"
          /\ Goto(j, "raised")
          /\ UNCHANGED <<kind, source, step, failure>>
    /\ input' = [input EXCEPT ![j] = "absent"]
    /\ UNCHANGED <<contents, out, buf, dir, data, process>>

Upload(j) ==
    /\ At(j, "upload")
    /\ Proceed(j) \/ Raise(j, "upload")
    /\ UNCHANGED <<contents, files, process>>

Return(j) ==
    /\ pc[j] = "ready"
    /\ step[j] > Len(Steps(j))
    /\ Goto(j, "returned")
    /\ UNCHANGED <<kind, source, step, failure, contents, files, process>>
-----------------------------------------------------------------------------
(* ffmpeg and ffprobe.  Nobody reads stderr while the child runs.          *)

Becomes(j, s) == child' = [child EXCEPT ![j] = s]

\* A piece of stderr goes into the pipe; a full pipe blocks the child.
WriteError(j) ==
    /\ child[j] \in {"started", "checked", "writing", "finishing"}
    /\ noise[j] > 0 /\ pipe[j] < PipeSize
    /\ noise' = [noise EXCEPT ![j] = @ - 1]
    /\ pipe' = [pipe EXCEPT ![j] = @ + 1]
    /\ UNCHANGED <<thread, contents, files, child, fd, code>>

\* Mutant: with stdin inherited ffmpeg asks whether to overwrite and waits.
AskOutput(j) ==
    /\ child[j] = "started" /\ Steps(j)[step[j]] = "convert"
    /\ dir[out[j]] = NoJob
    /\ Becomes(j, "checked")
    /\ UNCHANGED <<thread, contents, files, fd, code, noise, pipe>>

\* Without -y and with nothing to ask on stdin an output that exists is refused.
CheckOutput(j) ==
    /\ child[j] = "started" /\ Steps(j)[step[j]] = "convert"
    /\ \/ dir[out[j]] = NoJob /\ Becomes(j, "checked") /\ UNCHANGED code
       \/ /\ dir[out[j]] # NoJob
          /\ Becomes(j, "finishing")
          /\ code' = [code EXCEPT ![j] = 1]
    /\ UNCHANGED <<thread, contents, files, fd, noise, pipe>>

\* The output is opened and truncated: a new file, or one that another child
\* created since.
OpenOutput(j) ==
    /\ child[j] = "checked"
    /\ LET f == IF dir[out[j]] = NoJob THEN j ELSE dir[out[j]]
       IN  /\ dir' = [dir EXCEPT ![out[j]] = f]
           /\ data' = [data EXCEPT ![f] = {}]
           /\ fd' = [fd EXCEPT ![j] = f]
    /\ Becomes(j, "writing")
    /\ UNCHANGED <<thread, contents, input, out, buf, code, noise, pipe>>

WriteOutput(j) ==
    /\ child[j] = "writing"
    /\ data' = [data EXCEPT ![fd[j]] = @ \cup {j}]
    /\ Becomes(j, "finishing")
    /\ UNCHANGED <<thread, contents, input, out, buf, dir, fd, code, noise, pipe>>

\* ffprobe, and ffmpeg for a thumbnail, write to stdout, which call reads.
WriteStdout(j) ==
    /\ child[j] = "started" /\ Steps(j)[step[j]] # "convert"
    /\ Becomes(j, "finishing")
    /\ UNCHANGED <<thread, contents, files, fd, code, noise, pipe>>

\* The input is not what it should be, the disk is full.
ChildFails(j) ==
    /\ child[j] \in {"started", "writing"}
    /\ Becomes(j, "finishing")
    /\ code' = [code EXCEPT ![j] = 1]
    /\ UNCHANGED <<thread, contents, files, fd, noise, pipe>>

CloseStdout(j) ==
    /\ child[j] = "finishing" /\ noise[j] = 0
    /\ Becomes(j, "closed")
    /\ UNCHANGED <<thread, contents, files, fd, code, noise, pipe>>

ChildExits(j) ==
    /\ child[j] = "closed"
    /\ Becomes(j, "exited")
    /\ UNCHANGED <<thread, contents, files, fd, code, noise, pipe>>

\* Somebody replaces what a path or URL stands for.
ReplaceSource ==
    /\ version + 1 \in Versions
    /\ version' = version + 1
    /\ UNCHANGED <<thread, read, held, probed, files, process>>
-----------------------------------------------------------------------------
Thread(j) ==
    \/ ReadSource(j) \/ Enter(j) \/ FillInput(j)
    \/ CallProbe(j) \/ CallThumbnail(j) \/ CallConvert(j) \/ PopenFails(j)
    \/ CallReturns(j) \/ WaitTimesOut(j)
    \/ ReadOutput(j) \/ RemoveOutput(j)
    \/ LocalError(j) \/ Leave(j) \/ Upload(j) \/ Return(j)

Child(j) ==
    \/ WriteError(j) \/ CheckOutput(j) \/ OpenOutput(j) \/ WriteOutput(j)
    \/ WriteStdout(j) \/ CloseStdout(j) \/ ChildExits(j)

Next ==
    \/ \E j \in Jobs :
          \/ \E k \in Kinds, s \in Sources : Begin(j, k, s)
          \/ Thread(j)
          \/ Child(j)
          \/ ChildFails(j)
    \/ ReplaceSource

Spec == Init /\ [][Next]_vars

\* A child that can go on does; none has to fail.
Fairness == \A j \in Jobs : WF_vars(Thread(j)) /\ WF_vars(Child(j))

FairSpec == Spec /\ Fairness
-----------------------------------------------------------------------------
(* Safety.                                                                 *)

Ended(j) == pc[j] \in {"returned", "raised"}

\* Another conversion to the same format began in the same tick of the clock.
Shared(j) == \E k \in Jobs \ {j} : out[k] = out[j]

\* What a conversion hands back is what its own ffmpeg wrote, whole and alone,
\* unless it shares its name with another.
OutputIsOwn ==
    \A j \in Jobs :
        pc[j] = "removing" \/ buf[j] # {} => buf[j] = {j} \/ Shared(j)

\* A job that returned leaves nothing behind: no input, no child, no output.
ReturnsClean ==
    \A j \in Jobs :
        pc[j] = "returned" =>
            /\ input[j] = "absent"
            /\ child[j] \in {"none", "exited"}
            /\ out[j] # NoName => dir[out[j]] = NoJob \/ Shared(j)

\* What a job that raised leaves behind tells where it failed: a temporary
\* input where it was being filled, a child that outlived the ten seconds, an
\* output of a conversion that failed or was given up.
LeftoversExplained ==
    \A j \in Jobs :
        pc[j] = "raised" =>
            /\ input[j] # "absent" => failure[j] = "input"
            /\ child[j] \notin {"none", "exited"} => failure[j] = "timeout"
            /\ out[j] # NoName /\ dir[out[j]] # NoJob =>
                  failure[j] \in {"returncode", "timeout"} \/ Shared(j)

\* The duration and the thumbnail of a message are those of the file that is
\* uploaded with it, unless a video was named and not given.
ProbedIsUploaded ==
    \A j \in Jobs :
        pc[j] = "returned" /\ kind[j] \in {"video", "audio"} =>
            \/ probed[j] = {read[j]}
            \/ kind[j] = "video" /\ source[j] # "bytes"

-----------------------------------------------------------------------------
(* Liveness.                                                               *)

\* The child has more to say than the pipe of stderr holds, which is read only
\* after stdout ends: it waits for call, and call waits for it.
Choked(j) == pc[j] = "calling" /\ noise[j] > 0 /\ pipe[j] = PipeSize

\* Every job ends, in a return or an exception, unless its child chokes.
JobEnds == \A j \in Jobs : pc[j] = "ready" ~> Ended(j) \/ Choked(j)
=============================================================================

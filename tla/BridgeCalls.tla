----------------------------- MODULE BridgeCalls -----------------------------
(***************************************************************************)
(* Methods of one NewClient called from many threads: the program's own    *)
(* and those whatsmeow's goroutines run event handlers on.  A method makes *)
(* its calls to the Go library one after the other; ctypes lets go of the  *)
(* GIL for each, so the calls of other threads interleave with it, and a   *)
(* panic in any of them ends the process for all.                          *)
(*                                                                         *)
(* stage[t] is where the call of thread t is: idle, python (before or      *)
(* between two calls to Go), go (inside the export script[t][pos[t]]),     *)
(* returned or raised.                                                     *)
(***************************************************************************)
EXTENDS ExportTable, Sequences

CONSTANTS
    Threads,    \* one method call each
    Called      \* the methods that are called

ASSUME CalledAssumption == Called \subseteq Methods

VARIABLES
    known,      \* the client's uuid is in the Go map (see Sessions)
    stage,      \* where each call is
    script,     \* the path it takes through its method
    pos,        \* the index of its current or next export
    effects,    \* the indexes of the exports that WhatsApp carried out
    process     \* running, or why it ended

vars == <<known, stage, script, pos, effects, process>>

AllScripts == UNION {Scripts[m] : m \in Called}

TypeOK ==
    /\ known \in BOOLEAN
    /\ stage \in [Threads -> {"idle", "python", "go", "returned", "raised"}]
    /\ script \in [Threads -> AllScripts \cup {<<>>}]
    /\ pos \in [Threads -> Nat \ {0}]
    /\ \A t \in Threads : pos[t] <= Len(script[t]) + 1
    /\ effects \in [Threads -> SUBSET Nat]
    /\ \A t \in Threads : effects[t] \subseteq 1 .. Len(script[t])
    /\ process \in {"running", "nilClient", "panic"}

Init ==
    /\ known = FALSE
    /\ stage = [t \in Threads |-> "idle"]
    /\ script = [t \in Threads |-> <<>>]
    /\ pos = [t \in Threads |-> 1]
    /\ effects = [t \in Threads |-> {}]
    /\ process = "running"

Running == process = "running"
Op(t) == script[t][pos[t]]
Goto(t, s) == stage' = [stage EXCEPT ![t] = s]

\* snakechat stores the client in the map.
StoreClient ==
    /\ Running
    /\ ~known
    /\ known' = TRUE
    /\ UNCHANGED <<stage, script, pos, effects, process>>

\* Mutant: a thread's next call starts at the position its last one ended at.
CallOnward(t, s) ==
    /\ Running
    /\ stage[t] \in {"idle", "returned"}
    /\ script' = [script EXCEPT ![t] = s]
    /\ Goto(t, "python")
    /\ UNCHANGED <<known, pos, effects, process>>

Call(t, s) ==
    /\ Running
    /\ stage[t] = "idle"
    /\ script' = [script EXCEPT ![t] = s]
    /\ Goto(t, "python")
    /\ UNCHANGED <<known, pos, effects, process>>

\* The method fails on its own: a required field that is not set, a file that
\* is not found, an image that does not open, ffmpeg.
LocalError(t) ==
    /\ Running
    /\ stage[t] = "python"
    /\ Goto(t, "raised")
    /\ UNCHANGED <<known, script, pos, effects, process>>

\* Into the next export: its lookup of the client comes back nil before
\* snakechat stored it, and the use of nil is a panic.
Enter(t) ==
    /\ Running
    /\ stage[t] = "python"
    /\ pos[t] <= Len(script[t])
    /\ \/ /\ Op(t) \in Uncallable
          /\ Goto(t, "raised")
          /\ UNCHANGED process
       \/ /\ Op(t) \notin Uncallable /\ known
          /\ Goto(t, "go")
          /\ UNCHANGED process
       \/ /\ Op(t) \notin Uncallable /\ ~known
          /\ process' = "nilClient"
          /\ UNCHANGED stage
    /\ UNCHANGED <<known, script, pos, effects>>

\* What whatsmeow makes of an operation: done, refused, or done although the
\* answer was lost, which it reports as an error.
Outcomes(op) == IF Tells[op] = "silent" THEN {"done"}
                ELSE {"done", "refused", "lost"}

\* Mutant: exports do not look at the error whatsmeow returns.
AnswersUnchecked(op, o) == {"success"}

\* Mutant: every export takes the error from the wrong, nil variable.
AnswersWrongError(op, o) ==
    IF o = "done" \/ Tells[op] = "silent" THEN {"success"} ELSE {"panic"}

\* What the export may make of it.
Answers(op, o) ==
    CASE Tells[op] \in {"silent", "dropped"} -> {"success"}
      [] Tells[op] = "reported" -> IF o = "done" THEN {"success"} ELSE {"error"}
      [] Tells[op] = "panics" -> IF o = "done" THEN {"success"} ELSE {"panic"}
      [] Tells[op] = "always" -> IF o = "done" THEN {"panic"} ELSE {"error"}
      [] Tells[op] = "never" -> {"panic"}
      [] Tells[op] = "partly" ->
            IF o = "done" THEN {"success", "panic"} ELSE {"error"}

\* Mutant: no method looks at the error of the answer.
LeaveUnchecked(t, o) ==
    /\ Running
    /\ stage[t] = "go"
    /\ effects' = IF o = "refused" THEN effects
                  ELSE [effects EXCEPT ![t] = @ \cup {pos[t]}]
    /\ \E a \in Answers(Op(t), o) :
          IF a = "panic"
          THEN process' = "panic" /\ UNCHANGED <<stage, pos>>
          ELSE /\ Goto(t, "python")
               /\ pos' = [pos EXCEPT ![t] = @ + 1]
               /\ UNCHANGED process
    /\ UNCHANGED <<known, script>>

\* What the method makes of the answer: it goes on, or it raises.
Leave(t, o) ==
    /\ Running
    /\ stage[t] = "go"
    /\ effects' = IF o = "refused" THEN effects
                  ELSE [effects EXCEPT ![t] = @ \cup {pos[t]}]
    /\ \E a \in Answers(Op(t), o) :
          \/ /\ a = "panic"
             /\ process' = "panic"
             /\ UNCHANGED <<stage, pos>>
          \/ /\ a # "panic"
             /\ Op(t) \in Mangled \/ (a = "error" /\ Op(t) \notin Returned)
             /\ Goto(t, "raised")
             /\ UNCHANGED <<pos, process>>
          \/ /\ a # "panic"
             /\ Op(t) \notin Mangled
             /\ a = "success" \/ Op(t) \in Returned
             /\ Goto(t, "python")
             /\ pos' = [pos EXCEPT ![t] = @ + 1]
             /\ UNCHANGED process
    /\ UNCHANGED <<known, script>>

Return(t) ==
    /\ Running
    /\ stage[t] = "python"
    /\ pos[t] > Len(script[t])
    /\ Goto(t, "returned")
    /\ UNCHANGED <<known, script, pos, effects, process>>

Next ==
    \/ StoreClient
    \/ \E t \in Threads :
          \/ \E m \in Called : \E s \in Scripts[m] : Call(t, s)
          \/ LocalError(t)
          \/ Enter(t)
          \/ \E o \in {"done", "refused", "lost"} :
                stage[t] = "go" /\ o \in Outcomes(Op(t)) /\ Leave(t, o)
          \/ Return(t)

Spec == Init /\ [][Next]_vars
-----------------------------------------------------------------------------
(* Safety.                                                                 *)

\* Operations a method may have failed to do although it returned: their
\* errors are dropped in Go or handed over as a plain return value.
Unacknowledged ==
    {"JoinGroupWithInvite", "SendChatPresence", "GetProfilePicture",
     "BuildPollVote", "SetGroupName", "LeaveGroup"}

\* A method that returned has had every operation on its way done, unless it
\* is one of the six whose errors do not surface.
ReturnedIsDone ==
    \A t \in Threads :
        stage[t] = "returned" =>
            \A i \in 1 .. Len(script[t]) :
                i \in effects[t] \/ script[t][i] \in Unacknowledged

\* Whatever is done last stands on operations that were done before it: no
\* message goes out without its upload, no group without its key.
NothingDangling ==
    \A t \in Threads : \A i \in effects[t] : 1 .. i \subseteq effects[t]

\* Exports that end the process: on an error of whatsmeow, or, the upload to a
\* newsletter, whatever became of it.
FatalExports ==
    {"SetGroupLocked", "SetGroupTopic", "CreateGroup", "UploadNewsletter"}

\* Exports that end it only once whatsmeow did what they ask for.
FatalWhenDone ==
    {"NewsletterSendReaction", "GetNewsletterMessageUpdate",
     "GetNewsletterMessages"}

\* The only calls that end the process, with every thread in it, are made
\* before connect or are one of seven exports, three of which survive an error
\* of whatsmeow and die of its success.
DeathExplained ==
    /\ process = "nilClient" => ~known
    /\ process = "panic" =>
          \E t \in Threads :
              /\ stage[t] = "go"
              /\ \/ Op(t) \in FatalExports
                 \/ Op(t) \in FatalWhenDone /\ pos[t] \in effects[t]

\* The example that reacts to every message of a newsletter in a loop takes it
\* that a reaction WhatsApp accepted returns to the program.
ReactionReturns ==
    \A t \in Threads :
        stage[t] = "go" /\ Op(t) = "NewsletterSendReaction"
                        /\ pos[t] \in effects[t] => Running
=============================================================================

----------------------------- MODULE Execution -----------------------------
(***************************************************************************)
(* ShellExecutor.Execute (internal/daemon/executor.go): one command, the   *)
(* child it may leave behind, the pipes of its two output streams, the     *)
(* goroutine that captures each, and the goroutine of the run, which waits *)
(* for all of them.  Scheduler takes all this for one step, ExecutionEnds. *)
(*                                                                         *)
(* A pipe holds a few bytes; who writes to a full one stands still until   *)
(* it is read, and who reads gets an end of file once nobody holds the     *)
(* other end open.  The n-th byte written to a stream is the number n.     *)
(***************************************************************************)
EXTENDS Integers, Sequences

CONSTANTS
    Limit,          \* maxCapturedOutputBytes
    Chunk,          \* the size of the buffer a Read may fill
    PipeSize,       \* what the operating system buffers
    MaxOutput,      \* bound: bytes written to a stream
    MaxFaults       \* bound: system calls of Execute that fail

ASSUME SizesAssumption == {Limit, Chunk, PipeSize} \subseteq Nat \ {0}
ASSUME ExecutionBoundsAssumption == {MaxOutput, MaxFaults} \subseteq Nat

VARIABLES
    pc,             \* where Execute stands
    canceled,       \* whether its ctx is cancelled
    proc,           \* the command and its child: "none", "alive", "ended"
    holds,          \* the streams each of them has open
    want,           \* the stream it is writing to, or "none"
    written,        \* bytes written to each stream
    capture,        \* the goroutine and the capturedStream of each
    exit,           \* how the command ended
    result,         \* the ExecutionResult
    faults

procVars == <<proc, holds, want, written, exit>>
vars == <<pc, canceled, procVars, capture, result, faults>>

Streams == {"stdout", "stderr"}
Procs == {"command", "child"}
Exits == {"none", "zero", "nonzero", "signal"}
NoCode == -1                    \* ExitCode is nil
NoOutput == "none"              \* Output is nil

Captured ==
    [at : {"none", "reading", "sent"}, got : Nat, text : Seq(Nat),
     truncated : BOOLEAN, failed : BOOLEAN]

Works == UNCHANGED faults
Fails == faults < MaxFaults /\ faults' = faults + 1

NoResult == [status |-> "none", code |-> NoCode, why |-> "none", output |-> NoOutput]

\* A result without output, for a command that was never started.
Failed(why) == [NoResult EXCEPT !.status = "failed", !.why = why]

-----------------------------------------------------------------------------
(* The command and its child.                                              *)

Gone(p) ==
    /\ proc' = [proc EXCEPT ![p] = "ended"]
    /\ holds' = [holds EXCEPT ![p] = {}]
    /\ want' = [want EXCEPT ![p] = "none"]

\* A command that goes to the background inherits some of the streams.
Fork ==
    /\ proc["command"] = "alive" /\ proc["child"] = "none" /\ want["command"] = "none"
    /\ proc' = [proc EXCEPT !["child"] = "alive"]
    /\ \E S \in SUBSET holds["command"] : holds' = [holds EXCEPT !["child"] = S]
    /\ UNCHANGED <<pc, canceled, want, written, exit, capture, result, faults>>

BeginWrite(p, s) ==
    /\ proc[p] = "alive" /\ want[p] = "none" /\ s \in holds[p]
    /\ written[s] < MaxOutput
    /\ want' = [want EXCEPT ![p] = s]
    /\ UNCHANGED <<pc, canceled, proc, holds, written, exit, capture, result, faults>>

\* One byte; there must be room for it in the pipe.
Write(p, s) ==
    /\ want[p] = s /\ written[s] - capture[s].got < PipeSize
    /\ written' = [written EXCEPT ![s] = @ + 1]
    /\ want' = [want EXCEPT ![p] = "none"]
    /\ UNCHANGED <<pc, canceled, proc, holds, exit, capture, result, faults>>

CloseStream(p, s) ==
    /\ want[p] = "none" /\ s \in holds[p]
    /\ holds' = [holds EXCEPT ![p] = @ \ {s}]
    /\ UNCHANGED <<pc, canceled, proc, want, written, exit, capture, result, faults>>

Exit(p) ==
    /\ proc[p] = "alive" /\ want[p] = "none"
    /\ Gone(p)
    /\ IF p = "command" THEN exit' \in {"zero", "nonzero"} ELSE UNCHANGED exit
    /\ UNCHANGED <<pc, canceled, written, capture, result, faults>>

\* Mutant: it is Wait that looks at the ctx.
KillInWait ==
    /\ canceled /\ pc = "wait" /\ proc["command"] = "alive"
    /\ Gone("command") /\ exit' = "signal"
    /\ UNCHANGED <<pc, canceled, written, capture, result, faults>>

\* exec.CommandContext: a goroutine that Start began kills the command, and
\* only the command, once the ctx is cancelled.
Kill ==
    /\ canceled /\ proc["command"] = "alive"
    /\ Gone("command") /\ exit' = "signal"
    /\ UNCHANGED <<pc, canceled, written, capture, result, faults>>

-----------------------------------------------------------------------------
(* readCapturedStream, in a goroutine of its own for each stream.          *)

\* The n bytes that come after the first `got'.
Bytes(got, n) == [i \in 1..n |-> got + i]

Kept(c, n, m) ==
    [c EXCEPT !.got = @ + n, !.text = @ \o Bytes(c.got, m),
              !.truncated = IF m < n THEN TRUE ELSE @]

\* Mutant: the buffer keeps a byte less than the limit.
KeepBelow(c, n) ==
    LET room == Limit - Len(c.text) IN
    CASE room <= 0             -> Kept(c, n, 0)
      [] room > 0 /\ n >= room -> Kept(c, n, room - 1)
      [] room > 0 /\ n < room  -> Kept(c, n, n)

\* The switch of the loop: a Read of n bytes finds no room left, less room than
\* it needs, or enough.
Keep(c, n) ==
    LET room == Limit - Len(c.text) IN
    CASE room <= 0             -> Kept(c, n, 0)
      [] room > 0 /\ n > room  -> Kept(c, n, room)
      [] room > 0 /\ n <= room -> Kept(c, n, n)

\* Mutant: standard error is captured when standard output has been.
ReadInTurn(s) ==
    /\ capture[s].at = "reading"
    /\ s = "stderr" => capture["stdout"].at = "sent"
    /\ \E n \in 1..Chunk :
          /\ n <= written[s] - capture[s].got
          /\ capture' = [capture EXCEPT ![s] = Keep(@, n)]
    /\ UNCHANGED <<pc, canceled, procVars, result, faults>>

Read(s) ==
    /\ capture[s].at = "reading"
    /\ \E n \in 1..Chunk :
          /\ n <= written[s] - capture[s].got
          /\ capture' = [capture EXCEPT ![s] = Keep(@, n)]
    /\ UNCHANGED <<pc, canceled, procVars, result, faults>>

\* EOF, and likewise any other error, ends the loop with what there is; the
\* channel has room for it.
ReadEOF(s) ==
    /\ capture[s].at = "reading"
    /\ written[s] = capture[s].got /\ \A p \in Procs : s \notin holds[p]
    /\ capture' = [capture EXCEPT ![s].at = "sent"]
    /\ UNCHANGED <<pc, canceled, procVars, result, faults>>

ReadFails(s) ==
    /\ capture[s].at = "reading" /\ Fails
    /\ capture' = [capture EXCEPT ![s].at = "sent", ![s].failed = TRUE]
    /\ UNCHANGED <<pc, canceled, procVars, result>>

-----------------------------------------------------------------------------
(* Execute.                                                                *)

\* The pipes, and Start; it refuses a ctx that is cancelled already.
Start ==
    /\ pc = "start"
    /\ \/ /\ Works /\ ~canceled
          /\ pc' = "stdout"
          /\ proc' = [proc EXCEPT !["command"] = "alive"]
          /\ holds' = [holds EXCEPT !["command"] = Streams]
          /\ capture' = [s \in Streams |-> [capture[s] EXCEPT !.at = "reading"]]
          /\ UNCHANGED result
       \/ /\ Fails \/ (Works /\ canceled)
          /\ pc' = "done" /\ result' = Failed("start")
          /\ UNCHANGED <<proc, holds, capture>>
    /\ UNCHANGED <<canceled, want, written, exit>>

\* Mutant: the command is not waited for.
ReceiveAll ==
    /\ pc \in Streams /\ capture[pc].at = "sent"
    /\ pc' = IF pc = "stdout" THEN "stderr" ELSE "decide"
    /\ UNCHANGED <<canceled, procVars, capture, result, faults>>

\* <-stdoutCh and then <-stderrCh
Receive ==
    /\ pc \in Streams /\ capture[pc].at = "sent"
    /\ pc' = IF pc = "stdout" THEN "stderr" ELSE "wait"
    /\ UNCHANGED <<canceled, procVars, capture, result, faults>>

\* cmd.Wait; an error that is no exit status leaves neither status nor code.
Wait ==
    /\ pc = "wait" /\ proc["command"] = "ended"
    /\ pc' = "decide"
    /\ \/ Works /\ UNCHANGED exit
       \/ Fails /\ exit' = "none"
    /\ UNCHANGED <<canceled, proc, holds, want, written, capture, result>>

\* exitCodeFromCommand: negative codes, of killed processes, are none.
ExitCode(e) == CASE e = "zero" -> 0 [] e = "nonzero" -> 1 [] OTHER -> NoCode

\* buildRunOutput
Output ==
    IF \A s \in Streams : capture[s].text = <<>> /\ ~capture[s].truncated
    THEN NoOutput
    ELSE [s \in Streams |-> [text |-> capture[s].text, truncated |-> capture[s].truncated]]

\* What Wait says.  Mutant: nothing else counts.
WhyByStatus == IF exit = "none" THEN "wait" ELSE IF exit = "zero" THEN "none" ELSE "exit"

\* The switch of Execute: the first reason that applies.
Why ==
    CASE canceled -> "ctx"
      [] ~canceled /\ (\E s \in Streams : capture[s].failed) -> "read"
      [] OTHER -> WhyByStatus

Decide ==
    /\ pc = "decide"
    /\ pc' = "done"
    /\ result' = [status |-> IF Why = "none" THEN "succeeded" ELSE "failed",
                  code |-> ExitCode(exit), why |-> Why, output |-> Output]
    /\ UNCHANGED <<canceled, procVars, capture, faults>>

\* replace or a shutdown, at any moment.
Cancel ==
    /\ ~canceled /\ pc # "done"
    /\ canceled' = TRUE
    /\ UNCHANGED <<pc, procVars, capture, result, faults>>

-----------------------------------------------------------------------------
Init ==
    /\ pc = "start" /\ canceled = FALSE
    /\ proc = [p \in Procs |-> "none"]
    /\ holds = [p \in Procs |-> {}]
    /\ want = [p \in Procs |-> "none"]
    /\ written = [s \in Streams |-> 0]
    /\ capture = [s \in Streams |->
          [at |-> "none", got |-> 0, text |-> <<>>, truncated |-> FALSE, failed |-> FALSE]]
    /\ exit = "none"
    /\ result = NoResult
    /\ faults = 0

ProcStep(p) == \E s \in Streams : BeginWrite(p, s) \/ Write(p, s) \/ CloseStream(p, s)

CaptureStep(s) == Read(s) \/ ReadEOF(s)

ExecuteStep == Start \/ Receive \/ Wait \/ Decide

Next ==
    \/ \E p \in Procs : ProcStep(p) \/ Exit(p)
    \/ Fork \/ Kill \/ Cancel
    \/ \E s \in Streams : CaptureStep(s) \/ ReadFails(s)
    \/ ExecuteStep

Spec == Init /\ [][Next]_vars

(***************************************************************************)
(* Fairness: goroutines are scheduled, a write for which there is room     *)
(* takes place, and a kill kills.  That a child ends, or closes the        *)
(* streams, is an assumption about commands; that the command ends by      *)
(* itself is none.                                                         *)
(***************************************************************************)
FairSpec ==
    /\ Spec
    /\ WF_vars(ExecuteStep) /\ WF_vars(Kill) /\ WF_vars(Exit("child"))
    /\ \A s \in Streams : WF_vars(CaptureStep(s))
    /\ \A p \in Procs, s \in Streams : WF_vars(Write(p, s))

-----------------------------------------------------------------------------
(* Properties.                                                             *)

\* Every variable stays in its type; exit codes are never negative.
TypeOK ==
    /\ pc \in {"start", "stdout", "stderr", "wait", "decide", "done"}
    /\ canceled \in BOOLEAN
    /\ proc \in [Procs -> {"none", "alive", "ended"}]
    /\ holds \in [Procs -> SUBSET Streams]
    /\ want \in [Procs -> Streams \cup {"none"}]
    /\ written \in [Streams -> Nat]
    /\ capture \in [Streams -> Captured]
    /\ exit \in Exits
    /\ result.status \in {"none", "succeeded", "failed"}
    /\ result.code \in Nat \cup {NoCode}
    /\ faults \in Nat

\* However a stream is cut into reads, what is kept of it is its beginning, up
\* to the limit, and it is called truncated exactly when there was more.
CaptureIsPrefix ==
    \A s \in Streams :
        LET c == capture[s] IN
        /\ c.text = Bytes(0, IF c.got <= Limit THEN c.got ELSE Limit)
        /\ c.truncated <=> c.got > Limit

\* A run that is reported to have succeeded was not cancelled, its command
\* ended with zero, and all that was written to its streams has been read.
SucceededIsComplete ==
    result.status = "succeeded" =>
        /\ exit = "zero"
        /\ \A s \in Streams : capture[s].got = written[s] /\ ~capture[s].failed
        /\ ~canceled

\* Execute returns when the command has ended, killed or not: the handle it
\* frees is what keeps the next run of a job from starting beside it.
NoCommandOutlivesExecute == pc = "done" => proc["command"] # "alive"

ReadFailed == \E s \in Streams : capture[s].failed

\* A cancelled Execute returns even if the command would never end, full pipes
\* or not, once its children are gone; so it does unless a pipe cannot be read.
CancelEndsExecute == canceled ~> pc = "done" \/ ReadFailed

\* Execute returns if its command ends whenever it is not standing still: neither
\* it nor its child is kept waiting by a full pipe that nobody reads.
ExecuteReturns == WF_vars(Exit("command")) => <>(pc = "done" \/ ReadFailed)

=============================================================================

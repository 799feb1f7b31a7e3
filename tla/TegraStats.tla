------------------------------ MODULE TegraStats ------------------------------
(***************************************************************************)
(* TegraStatsSensor: the one sensor with a process of its own.  The        *)
(* constructor forks tegrastats with its output on a pipe; sample() drains *)
(* the pipe without blocking and parses whole lines; anything that goes    *)
(* wrong disables the sensor and terminates the child, by SIGTERM, polling *)
(* and finally SIGKILL.  The child runs concurrently: it writes, exits or  *)
(* ignores SIGTERM as it likes.                                            *)
(*                                                                         *)
(* The output is a stream of pieces: line k is the pieces 2k-1 and 2k, the *)
(* second one with the newline.  Of a field of raw_ only the line it was   *)
(* taken from is kept.                                                     *)
(***************************************************************************)
EXTENDS Naturals, SequencesExt, FiniteSets

CONSTANTS
  Lines,                    \* bound: lines the child may write
  Fields,                   \* the fields of raw_, one per regular expression
  Matches,                  \* the fields each line has a match for
  Polls                     \* kTerminationPollCount

ASSUME TegraAssumption ==
  /\ Lines \in Nat
  /\ Matches \in [1..Lines -> SUBSET Fields]
  /\ Polls \in Nat \ {0}

VARIABLES
  enabled,                  \* enabled_
  read_fd,                  \* read_fd_ >= 0
  child_pid,                \* child_pid_ > 0
  read_buffer,              \* read_buffer_
  raw,                      \* raw_: the line each field was taken from, 0 for none
  parsed,                   \* parsed_at_least_one_line
  pc,                       \* the step the agent's thread is at
  attempt,                  \* waitpid() calls of terminate_child_process()
  then,                     \* what disable() returns to
  frame,                    \* the same of the frame's fields
  result,                   \* what the last sample() returned
  child,                    \* "none", "running", "zombie" or "reaped"
  deaf,                     \* the child ignores SIGTERM
  signals,                  \* signals sent to the child
  written,                  \* pieces the child has written
  pipe,                     \* pieces not yet read
  stray                     \* history: signals sent to a pid no longer ours

sensorVars == <<enabled, read_fd, child_pid, read_buffer, raw, parsed, frame, result>>
threadVars == <<pc, attempt, then>>
childVars  == <<child, deaf, signals, written, pipe, stray>>
vars       == <<sensorVars, threadVars, childVars>>

Init ==
  /\ enabled = FALSE /\ read_fd = FALSE /\ child_pid = FALSE
  /\ read_buffer = <<>> /\ pipe = <<>>
  /\ raw = [f \in Fields |-> 0] /\ frame = raw
  /\ parsed = FALSE /\ result = FALSE
  /\ pc = "new" /\ attempt = 0 /\ then = "none"
  /\ child = "none" /\ deaf \in BOOLEAN
  /\ signals = {} /\ stray = {}
  /\ written = 0

-----------------------------------------------------------------------------
(* Terminating the child.                                                  *)

\* kill(child_pid, signal)
Kill(signal) ==
  IF child \in {"running", "zombie"}
    THEN signals' = signals \union {signal} /\ UNCHANGED stray
    ELSE stray' = stray \union {signal} /\ UNCHANGED signals

\* The agent's thread enters terminate_child_process().
Terminate(return) ==
  /\ Kill("TERM")
  /\ pc' = "poll" /\ attempt' = 0 /\ then' = return

\* disable() up to terminate_child_process(), or all of it without a child.
Disable(return) ==
  /\ read_fd' = FALSE
  /\ IF child_pid
       THEN Terminate(return) /\ UNCHANGED <<enabled, result>>
       ELSE /\ enabled' = FALSE
            /\ pc' = IF return = "destroyed" THEN "destroyed" ELSE "idle"
            /\ result' = (return = "true")
            /\ UNCHANGED <<attempt, then, signals, stray>>

\* terminate_child_process() returned: the rest of disable(), of launch() or
\* of sample(), which fills in the frame when it goes on.
Terminated ==
  /\ pc' = IF then = "destroyed" THEN "destroyed" ELSE "idle"
  /\ child_pid' = FALSE
  /\ enabled' = FALSE
  /\ result' = (then = "true")
  /\ frame' = IF then = "true" THEN raw ELSE frame
  /\ UNCHANGED <<read_fd, read_buffer, raw, parsed, attempt, then>>

\* waitpid() answers with the child, and its zombie is gone.
Reaped == child = "zombie" /\ child' = "reaped"

\* Mutant of GoneAlready: only a reaped child ends the polling.
GoneAlreadyIgnored == FALSE
\* waitpid() fails: there is no such child any more.
GoneAlready == child \in {"none", "reaped"}

\* waitpid() ends the wait.
WaitOver == Reaped \/ (GoneAlready /\ UNCHANGED child)

\* Mutant of SendKill: hopes that SIGTERM will do.
SendKillForgotten == UNCHANGED <<signals, stray>>
SendKill == Kill("KILL")

\* The loop's last turn.
LastAttempt == attempt = Polls - 1

\* One turn of the polling loop.
Poll ==
  /\ pc = "poll"
  /\ \/ /\ WaitOver
        /\ Terminated
        /\ UNCHANGED <<signals, stray>>
     \/ /\ child # "zombie" /\ ~GoneAlready
        /\ IF LastAttempt
             THEN pc' = "reap" /\ SendKill /\ UNCHANGED attempt
             ELSE attempt' = attempt + 1 /\ UNCHANGED <<pc, signals, stray>>
        /\ UNCHANGED <<sensorVars, then, child>>
  /\ UNCHANGED <<deaf, written, pipe>>

\* The blocking waitpid() after SIGKILL; the child is still there.
Reap ==
  /\ pc = "reap"
  /\ Reaped
  /\ Terminated
  /\ UNCHANGED <<deaf, signals, written, pipe, stray>>

-----------------------------------------------------------------------------
(* The constructor, sample() and the destructor.                           *)

\* launch(): pipe() or fork() fails, fcntl() fails with the child running
\* already, or all is well.
Launch ==
  /\ pc = "new"
  /\ \/ /\ pc' = "idle"
        /\ UNCHANGED <<enabled, read_fd, child_pid, attempt, then, child, signals, stray>>
     \/ /\ child' = "running"
        /\ signals' = {"TERM"}
        /\ pc' = "poll" /\ attempt' = 0 /\ then' = "launch"
        /\ UNCHANGED <<enabled, read_fd, child_pid, stray>>
     \/ /\ child' = "running"
        /\ enabled' = TRUE /\ read_fd' = TRUE /\ child_pid' = TRUE
        /\ pc' = "idle"
        /\ UNCHANGED <<attempt, then, signals, stray>>
  /\ UNCHANGED <<read_buffer, raw, parsed, frame, result, deaf, written, pipe>>

\* Mutant of Carry: each sample() starts with an empty buffer.
CarryNothing == read_buffer' = <<>>
\* read_buffer_ carries an unfinished line from one sample() to the next.
Carry == UNCHANGED read_buffer

Sample ==
  /\ pc = "idle"
  /\ IF enabled
       THEN pc' = "read" /\ parsed' = FALSE /\ Carry /\ UNCHANGED result
       ELSE result' = FALSE /\ UNCHANGED <<pc, parsed, read_buffer>>
  /\ UNCHANGED <<enabled, read_fd, child_pid, raw, frame, attempt, then, childVars>>

\* read() of a non-blocking pipe: some bytes, no bytes and a closed end, or an
\* error.
ReadBytes ==
  /\ pc = "read" /\ pipe # <<>>
  /\ \E n \in 1..Len(pipe) :
       /\ read_buffer' = read_buffer \o SubSeq(pipe, 1, n)
       /\ pipe' = SubSeq(pipe, n + 1, Len(pipe))
  /\ pc' = "parse"
  /\ UNCHANGED <<enabled, read_fd, child_pid, raw, parsed, frame, result, attempt, then,
                 child, deaf, signals, written, stray>>

ReadEnds ==
  /\ pc = "read"
  /\ pipe = <<>> /\ child # "running"
  /\ Disable("false")
  /\ UNCHANGED <<child_pid, read_buffer, raw, parsed, frame, child, deaf, written, pipe>>

\* Any errno but EAGAIN.
ReadFails ==
  /\ pc = "read"
  /\ Disable("false")
  /\ UNCHANGED <<child_pid, read_buffer, raw, parsed, frame, child, deaf, written, pipe>>

\* EAGAIN: the pipe is drained.  Only without a new line is the child looked at.
ReadWouldBlock ==
  /\ pc = "read"
  /\ pipe = <<>> /\ child = "running"
  /\ IF parsed
       THEN pc' = "idle" /\ frame' = raw /\ result' = TRUE
       ELSE pc' = "wait" /\ UNCHANGED <<frame, result>>
  /\ UNCHANGED <<enabled, read_fd, child_pid, read_buffer, raw, parsed, attempt, then,
                 childVars>>

IsNewline(piece) == piece % 2 = 0

\* The line the buffer starts with, up to its newline.
FirstLine ==
  SubSeq(read_buffer, 1, CHOOSE i \in 1..Len(read_buffer) :
                           /\ IsNewline(read_buffer[i])
                           /\ \A j \in 1..(i - 1) : ~IsNewline(read_buffer[j]))

HasLine == \E i \in 1..Len(read_buffer) : IsNewline(read_buffer[i])

\* The fields that have a match in the line, if it is whole.
MatchedIn(line) ==
  LET k == Last(line) \div 2
  IN  IF line = <<2 * k - 1, 2 * k>> THEN Matches[k] ELSE {}

\* Assign these fields of raw_ from the line.
Take(line, fields) ==
  raw' = [f \in Fields |-> IF f \in fields THEN Last(line) \div 2 ELSE raw[f]]

\* parse_line(): a line updates the fields it matches and leaves the others.
ParseLine(line) ==
  /\ Take(line, MatchedIn(line))
  /\ parsed' = (MatchedIn(line) # {} \/ parsed)

Parse ==
  /\ pc = "parse" /\ HasLine
  /\ read_buffer' = SubSeq(read_buffer, Len(FirstLine) + 1, Len(read_buffer))
  /\ ParseLine(FirstLine)
  /\ UNCHANGED <<enabled, read_fd, child_pid, frame, result, threadVars, childVars>>

ParsedAll ==
  /\ pc = "parse" /\ ~HasLine
  /\ pc' = "read"
  /\ UNCHANGED <<sensorVars, attempt, then, childVars>>

\* Mutant of DisableNonBlocking: forgets the child it did not wait for.
DisableNonBlockingForgets ==
  /\ read_fd' = FALSE /\ enabled' = FALSE /\ child_pid' = FALSE
  /\ Kill("TERM")
  /\ IF child = "zombie" THEN child' = "reaped" ELSE UNCHANGED child

\* disable_non_blocking(): a child that is not gone at once is left to the
\* destructor.  (waitpid() cannot fail here: nobody has reaped it.)
DisableNonBlocking ==
  /\ read_fd' = FALSE /\ enabled' = FALSE
  /\ Kill("TERM")
  /\ \/ Reaped /\ child_pid' = FALSE
     \/ child = "running" /\ UNCHANGED <<child, child_pid>>

\* parse_line() throws, some fields already assigned.
ParseThrows ==
  /\ pc = "parse" /\ HasLine
  /\ read_buffer' = SubSeq(read_buffer, Len(FirstLine) + 1, Len(read_buffer))
  /\ \E fields \in SUBSET MatchedIn(FirstLine) : Take(FirstLine, fields)
  /\ DisableNonBlocking
  /\ pc' = "idle" /\ result' = FALSE
  /\ UNCHANGED <<parsed, frame, attempt, then, deaf, written, pipe>>

\* Mutant of WaitForChild: notices the exit and carries on.
WaitForChildOnly ==
  /\ pc = "wait"
  /\ Reaped \/ (child # "zombie" /\ UNCHANGED child)
  /\ pc' = "idle" /\ frame' = raw /\ result' = TRUE
  /\ UNCHANGED <<enabled, read_fd, child_pid, read_buffer, raw, parsed, attempt, then,
                 deaf, signals, written, pipe, stray>>

\* waitpid(WNOHANG): a child found dead is reaped here, and disable() signals
\* and waits for its pid once more.
WaitForChild ==
  /\ pc = "wait"
  /\ \/ /\ Reaped
        /\ read_fd' = FALSE
        /\ stray' = stray \union {"TERM"}
        /\ pc' = "poll" /\ attempt' = 0 /\ then' = "true"
        /\ UNCHANGED <<enabled, frame, result, signals>>
     \/ /\ child # "zombie"
        /\ pc' = "idle" /\ frame' = raw /\ result' = TRUE
        /\ UNCHANGED <<enabled, read_fd, attempt, then, child, signals, stray>>
  /\ UNCHANGED <<child_pid, read_buffer, raw, parsed, deaf, written, pipe>>

\* Mutant of Destroy: does not wait for the child.
DestroyNonBlocking ==
  /\ pc = "idle" /\ pc' = "destroyed" /\ result' = FALSE
  /\ IF child_pid
       THEN DisableNonBlocking
       ELSE /\ read_fd' = FALSE /\ enabled' = FALSE
            /\ UNCHANGED <<child, child_pid, signals, stray>>
  /\ UNCHANGED <<read_buffer, raw, parsed, frame, attempt, then, deaf, written, pipe>>

Destroy ==
  /\ pc = "idle"
  /\ Disable("destroyed")
  /\ UNCHANGED <<child_pid, read_buffer, raw, parsed, frame, child, deaf, written, pipe>>

\* The steps of a call in progress.
ThreadStep ==
  \/ Launch \/ ReadBytes \/ ReadEnds \/ ReadFails \/ ReadWouldBlock
  \/ Parse \/ ParsedAll \/ ParseThrows \/ WaitForChild \/ Poll \/ Reap

-----------------------------------------------------------------------------
(* The child: external.                                                    *)

Write ==
  /\ child = "running" /\ read_fd
  /\ written < 2 * Lines
  /\ written' = written + 1
  /\ pipe' = Append(pipe, written')
  /\ UNCHANGED <<sensorVars, threadVars, child, deaf, signals, stray>>

\* Exits by itself: a failed exec, a crash, SIGPIPE.
ChildExits ==
  /\ child = "running"
  /\ child' = "zombie"
  /\ UNCHANGED <<sensorVars, threadVars, deaf, signals, written, pipe, stray>>

Killable == "KILL" \in signals \/ ("TERM" \in signals /\ ~deaf)

ChildKilled ==
  /\ child = "running" /\ Killable
  /\ child' = "zombie"
  /\ UNCHANGED <<sensorVars, threadVars, deaf, signals, written, pipe, stray>>

Next == ThreadStep \/ Sample \/ Destroy \/ Write \/ ChildExits \/ ChildKilled

\* A call in progress goes on, and a signal that cannot be ignored kills.
Spec == Init /\ [][Next]_vars /\ WF_vars(ThreadStep) /\ WF_vars(ChildKilled)

-----------------------------------------------------------------------------
(* Properties.                                                             *)

\* A child that still exists is known to the sensor, or being terminated, and
\* an enabled sensor has its pipe and a child that was not waited for: sample()
\* reads and waits for what is really its own, and the destructor leaves neither
\* process, zombie nor descriptor behind, also after a half-way failure of
\* launch() or a parse error.  When sample() has reaped a dead child, disable()
\* signals its pid once more, though it may belong to another process by then:
\* it is only ever that one SIGTERM, and the pid is never touched again.
ChildAccountedFor ==
  /\ child \in {"running", "zombie"} => child_pid \/ pc \in {"poll", "reap"}
  /\ enabled /\ pc = "idle" => read_fd /\ child_pid /\ child \in {"running", "zombie"}
  /\ pc = "destroyed" => child \notin {"running", "zombie"} /\ ~read_fd
  /\ "KILL" \notin stray
  /\ stray # {} => pc \in {"poll", "idle", "destroyed"}
  /\ stray # {} /\ pc # "poll" => ~enabled /\ ~child_pid

\* However the pipe splits the output and however many samples it takes, each
\* field of raw_ is the one of the last whole line read that has it: a line
\* without the field leaves it as it was.
LinesIntact ==
  pc = "idle" /\ enabled =>
    \A f \in Fields :
      LET read == {k \in 1..Lines : f \in Matches[k] /\ 2 * k <= written - Len(pipe)}
      IN  raw[f] = IF read = {} THEN 0 ELSE Max(read)

\* sample() and the destructor return, even when the child ignores SIGTERM.
CallReturns == []<>(pc \in {"idle", "destroyed"})
=============================================================================

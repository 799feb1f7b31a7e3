--------------------------- MODULE TegraStatsProofs ---------------------------
(***************************************************************************)
(* Proofs about TegraStats, for every amount of output, whatever fields    *)
(* each line has, and for every kTerminationPollCount: no process, zombie  *)
(* or descriptor is lost, and no line of the child is split, skipped or    *)
(* repeated.                                                               *)
(***************************************************************************)
EXTENDS TegraStats, SequenceTheorems, TLAPS

-----------------------------------------------------------------------------
(* The child process.                                                      *)

\* The values the sensor's flags, the thread and the child take.
ChildType ==
  /\ enabled \in BOOLEAN /\ read_fd \in BOOLEAN /\ child_pid \in BOOLEAN
  /\ pc \in {"new", "idle", "read", "parse", "wait", "poll", "reap", "destroyed"}
  /\ child \in {"none", "running", "zombie", "reaped"}

Exists == child \in {"running", "zombie"}
Terminating == pc \in {"poll", "reap"}

\* Who knows of the child at every step, not only between two calls.
ChildInv ==
  /\ ChildType
  /\ pc = "new" => child = "none" /\ ~enabled /\ ~child_pid /\ ~read_fd
  /\ pc \in {"read", "parse", "wait"} => enabled
  /\ pc = "destroyed" => ~child_pid
  /\ pc \in {"poll", "reap", "destroyed"} => ~read_fd
  /\ pc = "reap" => Exists
  /\ Exists => child_pid \/ Terminating
  /\ child_pid /\ ~Terminating => Exists
  /\ enabled /\ ~Terminating => read_fd /\ child_pid
  /\ stray # {} =>
       /\ "KILL" \notin stray /\ ~Exists
       /\ pc \in {"poll", "idle", "destroyed"}
       /\ pc # "poll" => ~enabled /\ ~child_pid

\* Nothing has been launched.
LEMMA InitChild == Init => ChildInv
  BY DEF Init, ChildInv, ChildType, Exists, Terminating

\* Every step of a call, of the child and of a signal keeps it.
LEMMA NextChild == ChildInv /\ [Next]_vars => ChildInv'
<1> SUFFICES ASSUME ChildInv, [Next]_vars PROVE ChildInv'  OBVIOUS
<1> USE DEF ChildInv, ChildType, Exists, Terminating
<1>1. CASE Launch
  <2>1. /\ child = "none" /\ ~enabled /\ ~child_pid /\ ~read_fd /\ stray = {}
        /\ stray' = stray
    BY <1>1 DEF Launch
  <2>2. CASE pc' = "idle" /\ UNCHANGED <<enabled, read_fd, child_pid, child>>
    BY <2>1, <2>2
  <2>3. CASE /\ child' = "running" /\ pc' = "poll"
             /\ UNCHANGED <<enabled, read_fd, child_pid>>
    BY <2>1, <2>3
  <2>4. CASE /\ child' = "running" /\ pc' = "idle"
             /\ enabled' = TRUE /\ read_fd' = TRUE /\ child_pid' = TRUE
    BY <2>1, <2>4
  <2> QED  BY <1>1, <2>2, <2>3, <2>4 DEF Launch
<1>2. CASE ReadBytes \/ ReadWouldBlock \/ Parse \/ ParsedAll
  BY <1>2 DEF ReadBytes, ReadWouldBlock, Parse, ParsedAll, sensorVars, threadVars, childVars
<1>3. CASE ReadEnds \/ ReadFails
  BY <1>3 DEF ReadEnds, ReadFails, Disable, Terminate, Kill
<1>4. CASE ParseThrows
  <2>1. pc = "parse" /\ enabled /\ child_pid /\ Exists /\ stray = {}
    BY <1>4 DEF ParseThrows
  <2>2. pc' = "idle" /\ read_fd' = FALSE /\ enabled' = FALSE /\ stray' = {}
    BY <1>4, <2>1 DEF ParseThrows, DisableNonBlocking, Kill
  <2>3. CASE child' = "reaped" /\ child_pid' = FALSE
    BY <2>2, <2>3
  <2>4. CASE child = "running" /\ UNCHANGED <<child, child_pid>>
    BY <2>1, <2>2, <2>4
  <2> QED  BY <1>4, <2>3, <2>4 DEF ParseThrows, DisableNonBlocking, Reaped
<1>5. CASE WaitForChild
  BY <1>5 DEF WaitForChild, Reaped
<1>6. CASE Poll
  <2>1. pc = "poll" /\ ~read_fd  BY <1>6 DEF Poll
  <2>2. CASE WaitOver /\ Terminated /\ UNCHANGED stray
    <3>1. ~Exists'  BY <2>2 DEF WaitOver, Reaped, GoneAlready
    <3> QED  BY <2>1, <2>2, <3>1 DEF Terminated, WaitOver, Reaped, GoneAlready
  <2>3. CASE /\ child # "zombie" /\ ~GoneAlready
             /\ pc' = "reap" /\ SendKill /\ UNCHANGED <<sensorVars, child>>
    <3>1. child = "running" /\ stray = {}  BY <2>3 DEF GoneAlready
    <3>2. stray' = {}  BY <2>3, <3>1 DEF SendKill, Kill
    <3> QED  BY <2>1, <2>3, <3>1, <3>2 DEF sensorVars
  <2>4. CASE UNCHANGED <<sensorVars, pc, child, stray>>
    BY <2>4 DEF sensorVars
  <2> QED  BY <1>6, <2>2, <2>3, <2>4 DEF Poll
<1>7. CASE Reap
  BY <1>7 DEF Reap, Reaped, Terminated
<1>8. CASE Sample
  BY <1>8 DEF Sample, childVars
<1>9. CASE Destroy
  BY <1>9 DEF Destroy, Disable, Terminate, Kill
<1>10. CASE Write \/ ChildExits \/ ChildKilled
  BY <1>10 DEF Write, ChildExits, ChildKilled, sensorVars, threadVars
<1>11. CASE UNCHANGED vars
  BY <1>11 DEF vars, sensorVars, threadVars, childVars
<1> QED
  BY <1>1, <1>2, <1>3, <1>4, <1>5, <1>6, <1>7, <1>8, <1>9, <1>10, <1>11
  DEF Next, ThreadStep

\* launch(), sample(), disable(), disable_non_blocking() and the destructor
\* never lose the child, its zombie or the pipe, whatever fails in between,
\* and signal a pid that is no longer the child's at most once, by SIGTERM.
THEOREM ChildSafety == Spec => []ChildAccountedFor
<1>1. ChildInv => ChildAccountedFor
  BY DEF ChildInv, ChildType, Exists, Terminating, ChildAccountedFor
<1> QED  BY InitChild, NextChild, <1>1, PTL DEF Spec

-----------------------------------------------------------------------------
(* The child's output.                                                     *)

\* The lines that have the field.
Recognised(f) == {k \in 1..Lines : f \in Matches[k]}

\* The pieces that were read, and those whose lines parse_line() has seen.
ReadCount == written - Len(pipe)
Consumed == ReadCount - Len(read_buffer)

\* The pipe and the buffer hold consecutive pieces of the output, and nothing
\* of it is missing between what was parsed, the buffer and the pipe.
StreamInv ==
  /\ written \in Nat /\ written <= 2 * Lines
  /\ pipe \in Seq(Nat) /\ read_buffer \in Seq(Nat)
  /\ Consumed \in Nat /\ Consumed % 2 = 0
  /\ \A i \in 1..Len(pipe) : pipe[i] = ReadCount + i
  /\ \A i \in 1..Len(read_buffer) : read_buffer[i] = Consumed + i

\* Field f of raw_ is from line v, the last one with it that parse_line() has
\* seen when c pieces are consumed.
IsLast(f, v, c) ==
  /\ v = 0 \/ (v \in Recognised(f) /\ 2 * v <= c)
  /\ \A k \in Recognised(f) : 2 * k <= c => k <= v
RawIsLast == \A f \in Fields : IsLast(f, raw[f], Consumed)

\* It is while the sensor is enabled, and only within a call the buffer holds a
\* whole line.
RawInv ==
  /\ pc = "new" => raw = [f \in Fields |-> 0] /\ written = 0
  /\ enabled => RawIsLast /\ (pc \in {"idle", "read", "wait"} => Len(read_buffer) <= 1)

\* The newline ends every second piece: the buffer holds a line iff it holds
\* two pieces, and its first line is those two.
LEMMA BufferedLine ==
  ASSUME StreamInv
  PROVE  /\ HasLine <=> Len(read_buffer) >= 2
         /\ HasLine => FirstLine = <<Consumed + 1, Consumed + 2>>
<1> DEFINE c == Consumed
<1>1. /\ c \in Nat /\ c % 2 = 0 /\ read_buffer \in Seq(Nat) /\ Len(read_buffer) \in Nat
      /\ \A i \in 1..Len(read_buffer) : read_buffer[i] = c + i
  BY DEF StreamInv
<1> HIDE DEF c
<1>2. (c + 1) % 2 = 1 /\ (c + 2) % 2 = 0  BY <1>1
<1>3. HasLine <=> Len(read_buffer) >= 2
  <2>1. ASSUME HasLine, Len(read_buffer) < 2 PROVE FALSE
    <3>1. PICK i \in 1..Len(read_buffer) : read_buffer[i] % 2 = 0
      BY <2>1 DEF HasLine, IsNewline
    <3>2. i = 1  BY <1>1, <2>1
    <3> QED  BY <1>1, <1>2, <3>1, <3>2
  <2>2. ASSUME Len(read_buffer) >= 2 PROVE HasLine
    <3>1. 2 \in 1..Len(read_buffer) /\ read_buffer[2] = c + 2  BY <1>1, <2>2
    <3> QED  BY <1>2, <3>1 DEF HasLine, IsNewline
  <2> QED  BY <1>1, <2>1, <2>2
<1>4. ASSUME HasLine PROVE FirstLine = <<c + 1, c + 2>>
  <2> DEFINE P(i) == /\ read_buffer[i] % 2 = 0
                     /\ \A j \in 1..(i - 1) : ~(read_buffer[j] % 2 = 0)
  <2>1. Len(read_buffer) >= 2  BY <1>3, <1>4
  <2>2. read_buffer[1] = c + 1 /\ read_buffer[2] = c + 2  BY <1>1, <2>1
  <2>3. 2 \in 1..Len(read_buffer) /\ P(2)  BY <1>1, <1>2, <2>1, <2>2
  <2>4. \A i \in 1..Len(read_buffer) : P(i) => i = 2
    <3> SUFFICES ASSUME NEW i \in 1..Len(read_buffer), P(i), i # 2 PROVE FALSE
      OBVIOUS
    <3>1. i # 1  BY <1>2, <2>2
    <3>2. 2 \in 1..(i - 1)  BY <1>1, <3>1
    <3> QED  BY <1>2, <2>2, <3>2
  <2>5. (CHOOSE i \in 1..Len(read_buffer) : P(i)) = 2  BY <2>3, <2>4
  <2>6. FirstLine = SubSeq(read_buffer, 1, 2)  BY <2>5 DEF FirstLine, IsNewline
  <2>7. FirstLine \in Seq(Nat) /\ Len(FirstLine) = 2  BY <1>1, <2>1, <2>6
  <2>8. FirstLine[1] = c + 1 /\ FirstLine[2] = c + 2  BY <1>1, <2>1, <2>2, <2>6
  <2>9. /\ <<c + 1, c + 2>> \in Seq(Nat) /\ Len(<<c + 1, c + 2>>) = 2
        /\ \A i \in 1..2 : FirstLine[i] = <<c + 1, c + 2>>[i]
    BY <1>1, <2>8
  <2> QED  BY <2>7, <2>9, SeqEqual
<1> QED  BY <1>3, <1>4 DEF c

\* The steps that move no piece of the output.
Still == UNCHANGED <<written, pipe, read_buffer>>

\* What is left of a sequence without its first n elements.
LEMMA DropFirst ==
  ASSUME NEW s \in Seq(Nat), NEW n \in 1..Len(s)
  PROVE  LET rest == SubSeq(s, n + 1, Len(s))
         IN  /\ rest \in Seq(Nat) /\ Len(rest) = Len(s) - n
             /\ \A i \in 1..(Len(s) - n) : rest[i] = s[n + i]
  OBVIOUS

\* sample() moves the first pieces of the pipe to the end of the buffer.
LEMMA ReadKeepsStream ==
  ASSUME StreamInv, ReadBytes
  PROVE  StreamInv' /\ Consumed' = Consumed
<1>1. PICK n \in 1..Len(pipe) :
        /\ read_buffer' = read_buffer \o SubSeq(pipe, 1, n)
        /\ pipe' = SubSeq(pipe, n + 1, Len(pipe))
        /\ written' = written
  BY DEF ReadBytes
<1> DEFINE p == Len(pipe)
           b == Len(read_buffer)
<1>2. /\ pipe \in Seq(Nat) /\ read_buffer \in Seq(Nat) /\ p \in Nat /\ b \in Nat
      /\ n \in Nat /\ 1 <= n /\ n <= p /\ written \in Nat
  BY DEF StreamInv
<1>3. /\ SubSeq(pipe, 1, n) \in Seq(Nat) /\ Len(SubSeq(pipe, 1, n)) = n
      /\ \A i \in 1..n : SubSeq(pipe, 1, n)[i] = pipe[i]
  BY <1>2
<1>4. /\ pipe' \in Seq(Nat) /\ Len(pipe') = p - n
      /\ \A i \in 1..(p - n) : pipe'[i] = pipe[n + i]
  BY <1>1, <1>2, DropFirst
<1>5. /\ read_buffer' \in Seq(Nat) /\ Len(read_buffer') = b + n
      /\ \A i \in 1..b : read_buffer'[i] = read_buffer[i]
      /\ \A i \in (b + 1)..(b + n) : read_buffer'[i] = SubSeq(pipe, 1, n)[i - b]
  BY <1>1, <1>2, <1>3
<1> HIDE DEF p, b
<1>6. ReadCount = written - p /\ Consumed = written - p - b
  BY DEF ReadCount, Consumed, p, b
<1>7. ReadCount' = written - p + n /\ Consumed' = Consumed
  <2>1. ReadCount' = written - (p - n)  BY <1>1, <1>4 DEF ReadCount
  <2>2. Consumed' = written - (p - n) - (b + n)  BY <1>5, <2>1 DEF Consumed
  <2> QED  BY <1>2, <1>6, <2>1, <2>2
<1>8. \A i \in 1..Len(pipe') : pipe'[i] = ReadCount' + i
  <2> SUFFICES ASSUME NEW i \in 1..(p - n) PROVE pipe'[i] = written - p + n + i
    BY <1>4, <1>7
  <2>1. n + i \in 1..p  BY <1>2
  <2>2. pipe[n + i] = written - p + (n + i)  BY <2>1, <1>6 DEF StreamInv, p
  <2> QED  BY <1>2, <1>4, <2>2
<1>9. \A i \in 1..Len(read_buffer') : read_buffer'[i] = Consumed' + i
  <2> SUFFICES ASSUME NEW i \in 1..(b + n) PROVE read_buffer'[i] = written - p - b + i
    BY <1>5, <1>6, <1>7
  <2>1. CASE i <= b
    <3>1. i \in 1..b  BY <1>2, <2>1
    <3>2. read_buffer[i] = written - p - b + i  BY <3>1, <1>6 DEF StreamInv, b
    <3> QED  BY <1>5, <3>1, <3>2
  <2>2. CASE i > b
    <3>1. i \in (b + 1)..(b + n) /\ i - b \in 1..n /\ i - b \in 1..p  BY <1>2, <2>2
    <3>2. pipe[i - b] = written - p + (i - b)  BY <3>1, <1>6 DEF StreamInv, p
    <3> QED  BY <1>2, <1>3, <1>5, <3>1, <3>2
  <2> QED  BY <1>2, <2>1, <2>2
<1> QED  BY <1>1, <1>4, <1>5, <1>7, <1>8, <1>9 DEF StreamInv

\* parse_line() takes the first line, two pieces, off the buffer.
LEMMA ParseKeepsStream ==
  ASSUME StreamInv, HasLine, UNCHANGED <<written, pipe>>,
         read_buffer' = SubSeq(read_buffer, Len(FirstLine) + 1, Len(read_buffer))
  PROVE  StreamInv' /\ Consumed' = Consumed + 2 /\ ReadCount' = ReadCount
<1> DEFINE b == Len(read_buffer)
<1>1. /\ read_buffer \in Seq(Nat) /\ b \in Nat /\ b >= 2
      /\ 2 \in 1..b /\ read_buffer' = SubSeq(read_buffer, 2 + 1, b)
  <2>1. b >= 2 /\ FirstLine = <<Consumed + 1, Consumed + 2>>  BY BufferedLine
  <2>2. Len(FirstLine) = 2  BY <2>1
  <2> QED  BY <2>1, <2>2 DEF StreamInv
<1>2. /\ read_buffer' \in Seq(Nat) /\ Len(read_buffer') = b - 2
      /\ \A i \in 1..(b - 2) : read_buffer'[i] = read_buffer[2 + i]
  BY <1>1, DropFirst
<1> HIDE DEF b
<1>3. ReadCount' = ReadCount  BY DEF ReadCount
<1>4. ReadCount \in Int /\ Consumed \in Nat /\ Consumed = ReadCount - b /\ Consumed % 2 = 0
  BY DEF StreamInv, ReadCount, Consumed, b
<1>5. Consumed' = ReadCount - (b - 2)  BY <1>2, <1>3 DEF Consumed
<1>6. Consumed' = Consumed + 2 /\ Consumed' \in Nat /\ Consumed' % 2 = 0
  BY <1>1, <1>4, <1>5
<1>7. \A i \in 1..Len(read_buffer') : read_buffer'[i] = Consumed' + i
  <2> SUFFICES ASSUME NEW i \in 1..(b - 2) PROVE read_buffer'[i] = Consumed + 2 + i
    BY <1>2, <1>6
  <2>1. 2 + i \in 1..b  BY <1>1
  <2>2. read_buffer[2 + i] = Consumed + (2 + i)  BY <2>1 DEF StreamInv, b
  <2> QED  BY <1>2, <1>4, <2>2
<1> QED  BY <1>2, <1>3, <1>6, <1>7 DEF StreamInv

\* The child's next piece goes to the end of the pipe.
LEMMA WriteKeepsStream ==
  ASSUME StreamInv, Write
  PROVE  StreamInv' /\ Consumed' = Consumed
<1> DEFINE p == Len(pipe)
<1>1. /\ written < 2 * Lines /\ written' = written + 1 /\ pipe' = Append(pipe, written + 1)
      /\ read_buffer' = read_buffer
  BY DEF Write, sensorVars
<1>2. /\ pipe \in Seq(Nat) /\ p \in Nat /\ written \in Nat /\ Lines \in Nat
      /\ Len(read_buffer) \in Nat
  BY TegraAssumption DEF StreamInv
<1>3. /\ pipe' \in Seq(Nat) /\ Len(pipe') = p + 1
      /\ \A i \in 1..p : pipe'[i] = pipe[i]
      /\ pipe'[p + 1] = written + 1
  BY <1>1, <1>2
<1> HIDE DEF p
<1>4. ReadCount = written - p /\ ReadCount' = ReadCount
  BY <1>1, <1>2, <1>3 DEF ReadCount, p
<1>5. Consumed' = Consumed  BY <1>1, <1>4 DEF Consumed
<1>6. \A i \in 1..Len(pipe') : pipe'[i] = ReadCount' + i
  <2> SUFFICES ASSUME NEW i \in 1..(p + 1) PROVE pipe'[i] = (written - p) + i
    BY <1>3, <1>4
  <2>1. CASE i = p + 1  BY <1>2, <1>3, <2>1
  <2>2. CASE i # p + 1
    <3>1. i \in 1..p  BY <1>2, <2>2
    <3> QED  BY <1>3, <1>4, <3>1 DEF StreamInv, p
  <2> QED  BY <2>1, <2>2
<1> QED  BY <1>1, <1>2, <1>3, <1>5, <1>6 DEF StreamInv

\* No step loses, repeats or reorders a piece of the output, and only parsing
\* consumes any.
LEMMA NextStream ==
  ASSUME StreamInv, [Next]_vars
  PROVE  /\ StreamInv'
         /\ Parse \/ ParseThrows \/ Consumed' = Consumed
         /\ Parse \/ ParseThrows \/ ReadBytes \/ read_buffer' = read_buffer
<1>1. CASE ReadBytes  BY <1>1, ReadKeepsStream
<1>2. CASE Parse
  BY <1>2, ParseKeepsStream DEF Parse, childVars
<1>3. CASE ParseThrows
  BY <1>3, ParseKeepsStream DEF ParseThrows
<1>4. CASE Write  BY <1>4, WriteKeepsStream DEF Write, sensorVars
<1>5. CASE \/ Launch \/ ReadEnds \/ ReadFails \/ ReadWouldBlock \/ ParsedAll
           \/ WaitForChild \/ Poll \/ Reap \/ Sample \/ Destroy
           \/ ChildExits \/ ChildKilled \/ UNCHANGED vars
  <2>1. Still
    BY <1>5
    DEF Launch, ReadEnds, ReadFails, ReadWouldBlock, ParsedAll, WaitForChild, Poll, Reap,
        Terminated, Sample, Carry, Destroy, ChildExits, ChildKilled, vars, sensorVars,
        childVars, Still
  <2>2. UNCHANGED ReadCount /\ UNCHANGED Consumed
    BY <2>1 DEF Still, ReadCount, Consumed
  <2> QED  BY <2>1, <2>2 DEF StreamInv, Still
<1> QED  BY <1>1, <1>2, <1>3, <1>4, <1>5 DEF Next, ThreadStep

\* parse_line() takes raw_ from the line it has just consumed, or that line is
\* not recognised.
LEMMA ParseKeepsRaw ==
  ASSUME ChildInv, StreamInv, RawInv, Parse
  PROVE  RawInv'
<1> DEFINE c == Consumed
           k == (c + 2) \div 2
<1>1. /\ pc = "parse" /\ enabled /\ UNCHANGED <<pc, enabled, written, pipe>>
      /\ HasLine /\ ParseLine(FirstLine)
      /\ read_buffer' = SubSeq(read_buffer, Len(FirstLine) + 1, Len(read_buffer))
  BY DEF Parse, ChildInv, threadVars, childVars
<1>2. Consumed' = c + 2 /\ FirstLine = <<c + 1, c + 2>>
  BY <1>1, ParseKeepsStream, BufferedLine
<1>3. c \in Nat /\ c % 2 = 0  BY DEF StreamInv
<1>4. c + 2 <= 2 * Lines
  <2>1. /\ Len(read_buffer) >= 2 /\ Len(read_buffer) \in Nat /\ Len(pipe) \in Nat
        /\ written \in Nat /\ written <= 2 * Lines /\ Lines \in Nat
        /\ c = written - Len(pipe) - Len(read_buffer)
    BY <1>1, BufferedLine, TegraAssumption DEF StreamInv, Consumed, ReadCount
  <2> HIDE DEF c
  <2> QED  BY <2>1
<1>5. Last(FirstLine) = c + 2
  BY <1>2 DEF Last
<1>6. \A f \in Fields : IsLast(f, raw[f], c)
  BY <1>1 DEF RawInv, RawIsLast
<1> HIDE DEF c
<1>7. k \in 1..Lines /\ 2 * k = c + 2 /\ FirstLine = <<2 * k - 1, 2 * k>>
  BY <1>2, <1>3, <1>4, TegraAssumption
<1>8. Last(FirstLine) \div 2 = k  BY <1>5
<1> HIDE DEF k
<1>9. MatchedIn(FirstLine) = Matches[k]  BY <1>7, <1>8 DEF MatchedIn
<1>10. ASSUME NEW f \in Fields PROVE IsLast(f, raw'[f], c + 2)
  <2>1. raw'[f] = IF k \in Recognised(f) THEN k ELSE raw[f]
    BY <1>1, <1>7, <1>8, <1>9 DEF ParseLine, Take, Recognised
  <2>2. \A j \in Recognised(f) : j \in Nat  BY TegraAssumption DEF Recognised
  <2>3. IsLast(f, raw[f], c)  BY <1>6
  <2>4. raw'[f] = 0 \/ (raw'[f] \in Recognised(f) /\ 2 * raw'[f] <= c + 2)
    BY <1>3, <1>7, <2>1, <2>2, <2>3 DEF IsLast
  <2>5. ASSUME NEW j \in Recognised(f), 2 * j <= c + 2 PROVE j <= raw'[f]
    <3>1. CASE k \in Recognised(f)  BY <1>3, <1>7, <2>1, <2>2, <2>5, <3>1
    <3>2. CASE k \notin Recognised(f)
      <4>1. j # k /\ j \in Nat /\ k \in Nat  BY <1>7, <2>2, <3>2
      <4>2. 2 * j <= c  BY <1>3, <1>7, <2>5, <4>1
      <4> QED  BY <2>1, <2>3, <3>2, <4>2 DEF IsLast
    <3> QED  BY <3>1, <3>2
  <2> QED  BY <2>4, <2>5 DEF IsLast
<1>11. RawIsLast'  BY <1>2, <1>10 DEF RawIsLast, IsLast, Recognised
<1> QED  BY <1>1, <1>11 DEF RawInv

\* Every step keeps raw_ the last line that was parsed.
LEMMA NextRaw ==
  ASSUME ChildInv, StreamInv, RawInv, [Next]_vars
  PROVE  RawInv'
<1>1. CASE Parse  BY <1>1, ParseKeepsRaw
<1>2. CASE ParseThrows
  BY <1>2 DEF ParseThrows, DisableNonBlocking, RawInv
<1>3. CASE Launch
  <2>1. pc = "new" /\ pc' # "new" /\ UNCHANGED <<raw, written, pipe, read_buffer>>
    BY <1>3 DEF Launch
  <2>2. /\ raw = [f \in Fields |-> 0] /\ written = 0 /\ Consumed \in Nat
        /\ Len(pipe) \in Nat /\ Len(read_buffer) \in Nat
    BY <2>1 DEF RawInv, StreamInv
  <2>3. Consumed = 0 /\ Len(read_buffer) = 0  BY <2>2 DEF Consumed, ReadCount
  <2>4. Consumed' = Consumed  BY <2>1 DEF Consumed, ReadCount
  <2>5. ASSUME NEW f \in Fields PROVE IsLast(f, raw'[f], 0)
    <3>1. \A k \in Recognised(f) : k \in Nat /\ k >= 1
      BY TegraAssumption DEF Recognised
    <3>2. raw'[f] = 0  BY <2>1, <2>2
    <3> QED  BY <3>1, <3>2 DEF IsLast
  <2>6. RawIsLast'  BY <2>3, <2>4, <2>5 DEF RawIsLast, IsLast, Recognised
  <2> QED  BY <2>1, <2>3, <2>6 DEF RawInv
<1>4. CASE ReadBytes
  <2>1. /\ pc' = "parse" /\ UNCHANGED <<enabled, raw>> /\ Consumed' = Consumed
    BY <1>4, ReadKeepsStream DEF ReadBytes
  <2> QED  BY <2>1 DEF RawInv, RawIsLast, IsLast, Recognised
<1>5. CASE ParsedAll
  <2>1. /\ pc' = "read" /\ ~HasLine /\ UNCHANGED <<enabled, raw, read_buffer>>
        /\ Consumed' = Consumed
    BY <1>5 DEF ParsedAll, sensorVars, childVars, Consumed, ReadCount
  <2>2. Len(read_buffer) <= 1
    BY <2>1, BufferedLine DEF StreamInv
  <2> QED  BY <2>1, <2>2 DEF RawInv, RawIsLast, IsLast, Recognised
<1>6. CASE Write
  <2>1. /\ UNCHANGED <<pc, enabled, raw, read_buffer>> /\ Consumed' = Consumed
        /\ pc # "new"
    BY <1>6, WriteKeepsStream DEF Write, sensorVars, threadVars, ChildInv
  <2> QED  BY <2>1 DEF RawInv, RawIsLast, IsLast, Recognised
<1>7. CASE ReadEnds \/ ReadFails \/ WaitForChild \/ Poll \/ Reap \/ Destroy
  <2>1. UNCHANGED <<raw, read_buffer, written, pipe>> /\ pc' # "new"
    BY <1>7
    DEF ReadEnds, ReadFails, WaitForChild, Poll, Reap, Destroy, Disable, Terminate,
        Terminated, sensorVars
  <2>2. Consumed' = Consumed  BY <2>1 DEF Consumed, ReadCount
  <2>3. CASE ~enabled'
    BY <2>1, <2>3 DEF RawInv
  <2>4. CASE enabled'
    <3>1. CASE ReadEnds \/ ReadFails \/ Destroy
      <4>1. enabled /\ pc' = "poll"
        BY <2>4, <3>1 DEF ReadEnds, ReadFails, Destroy, Disable, Terminate
      <4> QED  BY <2>1, <2>2, <4>1 DEF RawInv, RawIsLast, IsLast, Recognised
    <3>2. CASE WaitForChild
      <4>1. enabled /\ pc = "wait"  BY <2>4, <3>2 DEF WaitForChild
      <4> QED  BY <2>1, <2>2, <4>1 DEF RawInv, RawIsLast, IsLast, Recognised
    <3>3. CASE Poll \/ Reap
      <4>1. enabled /\ pc' \in {"poll", "reap"}
        BY <2>4, <3>3 DEF Poll, Reap, Terminated, sensorVars
      <4> QED  BY <2>1, <2>2, <4>1 DEF RawInv, RawIsLast, IsLast, Recognised
    <3> QED  BY <1>7, <3>1, <3>2, <3>3
  <2> QED  BY <2>3, <2>4
<1>8. CASE Sample \/ ReadWouldBlock
  <2>1. /\ UNCHANGED <<raw, read_buffer, written, pipe, enabled>>
        /\ pc' # "new" /\ pc \in {"idle", "read"}
    BY <1>8 DEF Sample, Carry, ReadWouldBlock, childVars
  <2>2. Consumed' = Consumed  BY <2>1 DEF Consumed, ReadCount
  <2> QED  BY <2>1, <2>2 DEF RawInv, RawIsLast, IsLast, Recognised
<1>9. CASE ChildExits \/ ChildKilled \/ UNCHANGED vars
  <2>1. UNCHANGED <<raw, read_buffer, written, pipe, enabled, pc>>
    BY <1>9 DEF ChildExits, ChildKilled, vars, sensorVars, threadVars, childVars
  <2>2. Consumed' = Consumed  BY <2>1 DEF Consumed, ReadCount
  <2> QED  BY <2>1, <2>2 DEF RawInv, RawIsLast, IsLast, Recognised
<1> QED
  BY <1>1, <1>2, <1>3, <1>4, <1>5, <1>6, <1>7, <1>8, <1>9 DEF Next, ThreadStep

\* What was parsed is all that was read but an unfinished line, so each field of
\* raw_ is from the last line of what was read that has it.
LEMMA RawIsLastRead ==
  ASSUME StreamInv, RawInv PROVE LinesIntact
<1> SUFFICES ASSUME pc = "idle", enabled, NEW f \in Fields
             PROVE  LET read == {k \in Recognised(f) : 2 * k <= written - Len(pipe)}
                    IN  raw[f] = IF read = {} THEN 0 ELSE Max(read)
  <2>1. ASSUME NEW f
        PROVE  {k \in Recognised(f) : 2 * k <= written - Len(pipe)}
                 = {k \in 1..Lines : f \in Matches[k] /\ 2 * k <= written - Len(pipe)}
    BY DEF Recognised
  <2> QED  BY <2>1 DEF LinesIntact
<1> DEFINE read == {k \in Recognised(f) : 2 * k <= written - Len(pipe)}
           v == raw[f]
<1>1. \A k \in Recognised(f) : k \in Nat /\ k >= 1  BY TegraAssumption DEF Recognised
<1>2. \A k \in Recognised(f) : 2 * k <= written - Len(pipe) <=> 2 * k <= Consumed
  <2> DEFINE c == Consumed
             b == Len(read_buffer)
             w == written - Len(pipe)
  <2>1. c \in Nat /\ c % 2 = 0 /\ b \in Nat /\ w \in Int  BY DEF StreamInv
  <2>2. b <= 1  BY DEF RawInv
  <2>3. c = w - b  BY DEF Consumed, ReadCount
  <2> HIDE DEF c, b, w
  <2>4. ASSUME NEW k \in Nat PROVE 2 * k <= w <=> 2 * k <= c
    BY <2>1, <2>2, <2>3
  <2> QED  BY <1>1, <2>4 DEF c, w
<1>3. IsLast(f, v, Consumed)  BY DEF RawInv, RawIsLast
<1> HIDE DEF v
<1>4. /\ v = 0 \/ v \in read
      /\ \A k \in read : k <= v
  BY <1>2, <1>3 DEF IsLast
<1>5. \A k \in read : k \in Nat /\ k >= 1  BY <1>1
<1> HIDE DEF read
<1>6. ASSUME read # {} PROVE v = Max(read)
  <2>1. v \in read /\ \A k \in read : v >= k  BY <1>4, <1>5, <1>6
  <2>2. \A x \in read : (\A k \in read : x >= k) => x = v  BY <1>5, <2>1
  <2> QED  BY <2>1, <2>2 DEF Max
<1>7. read = {} => v = 0  BY <1>4
<1> QED  BY <1>6, <1>7 DEF read, v

\* However the pipe cuts the output, however many samples a line takes and
\* however far the child is ahead, each field sample() copies into the frame is
\* the one of the last whole line that was read and has it.
THEOREM LineSafety == Spec => []LinesIntact
<1>1. Init => StreamInv /\ RawInv
  <2> SUFFICES ASSUME Init PROVE StreamInv /\ RawInv  OBVIOUS
  <2>1. written = 0 /\ pipe = <<>> /\ read_buffer = <<>> /\ ~enabled
        /\ raw = [f \in Fields |-> 0]
    BY DEF Init
  <2>2. Len(pipe) = 0 /\ Len(read_buffer) = 0  BY <2>1, EmptySeq
  <2>3. ReadCount = 0 - 0 /\ Consumed = ReadCount - 0  BY <2>1, <2>2 DEF ReadCount, Consumed
  <2>4. ReadCount = 0 /\ Consumed = 0  BY <2>3
  <2> QED  BY <2>1, <2>2, <2>4, TegraAssumption DEF StreamInv, RawInv
<1>2. ChildInv /\ StreamInv /\ RawInv /\ [Next]_vars => StreamInv' /\ RawInv'
  BY NextStream, NextRaw
<1>3. StreamInv /\ RawInv => LinesIntact  BY RawIsLastRead
<1> QED  BY InitChild, NextChild, <1>1, <1>2, <1>3, PTL DEF Spec
===============================================================================

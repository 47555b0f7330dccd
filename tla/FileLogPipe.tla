------------------------------ MODULE FileLogPipe ------------------------------
(***************************************************************************)
(* The filelog plugin (Plugin/filelog/FileLogMgr.cpp) at work on one       *)
(* directory with one log file: the handler thread reads the file line by  *)
(* line into vec_log, the report thread sends vec_log in batches, and      *)
(* bSendFalg hands the vector from one to the other.  How far the file has *)
(* been read is kept in MarkPos/posList.pos (bLargeLog), or the file is    *)
(* moved away once it has been read (not bLargeLog).  What ReportData      *)
(* takes waits in the process, in the queue of the zmq socket, until the   *)
(* network has it.  The process may crash, the file may be truncated, a    *)
(* call of the system may fail, a stop may come at any time.               *)
(*                                                                         *)
(* Lines are named by the order in which they were written, 1, 2, 3, ...;  *)
(* the file holds the lines base + 1 .. written, and an offset in the file *)
(* is a number of lines.                                                   *)
(***************************************************************************)
EXTENDS Integers, Sequences, FiniteSets

CONSTANTS
  MaxLines,      \* bound: lines ever written
  Blank,         \* the lines that are empty
  nReadLineNum,  \* lines of a batch
  WRITE_RATE,    \* lines between two marks
  LargeLogs,     \* values of the configuration item bLargeLog
  SNDHWM,        \* messages in the send queue of the zmq socket
  GrowWhileRead, \* TRUE when lines may be added while the file is open
  SlowReporter,  \* TRUE when one scan of the report thread may outlast the
                 \* sleep(60) of the handler
  Faults,        \* what may go wrong, see FaultKinds
  MaxFaults      \* bound: faults of all these kinds

\* A crash of the process, a truncation of the file, a rename, an open, a stat or a
\* zmq_send that fails, and STOP_PLUGIN.
FaultKinds == {"crash", "truncate", "rename", "open", "stat", "send", "stop"}

ASSUME FileLogAssumption ==
  /\ {MaxLines, MaxFaults} \subseteq Nat
  /\ {nReadLineNum, WRITE_RATE, SNDHWM} \subseteq Nat \ {0}
  /\ {GrowWhileRead, SlowReporter} \subseteq BOOLEAN
  /\ LargeLogs \subseteq BOOLEAN
  /\ Faults \subseteq FaultKinds

VARIABLES
  written, base, \* the log file
  present,       \* the log file exists
  bLargeLog,     \* TRUE: keep the position; FALSE: move the file away
  mark,          \* the file's record in posList.pos
  buf,           \* a record that is still in the stream's buffer
  vec_log, bSendFalg,
  b_state,       \* the handler's pool entry: FALSE once Stop was called
  hand,          \* the handler thread, OnFilelogHandle
  rep,           \* the report thread, OnReportHandle
  sent,          \* what ReportData has sent with success, since the beginning
  refused,       \* the lines that "Report data failed!" is said of
  outq,          \* the lines in the send queue of the zmq socket
  wire,          \* the lines that have left the process
  faults

vars == <<written, base, present, bLargeLog, mark, buf, vec_log, bSendFalg, b_state,
          hand, rep, sent, refused, outq, wire, faults>>
file == <<written, base, present, bLargeLog>>
pos == <<mark, buf>>
socket == <<sent, refused, outq, wire>>

Lines == 1 .. MaxLines
Offsets == 0 .. MaxLines
Record == [pos : Offsets, size : Offsets]

\* InitPosFile adds this record for a file that posList.pos does not name.
NewRecord == [pos |-> 0, size |-> 0]

\* in: lines taken from the stream; posNext: the position to be marked next;
\* st: st_size when the file was opened.
NoHandler == [at |-> "none", in |-> 0, posNext |-> 0, nCount |-> 0, st |-> 0]
NoReporter == [at |-> "none", i |-> 0]
HandlerState ==
  [at : {"none", "rest", "already", "read", "push", "eof", "finish"},
   in : Offsets, posNext : Offsets, nCount : 0 .. WRITE_RATE, st : Offsets]
ReporterState == [at : {"none", "scan", "send", "reset", "check"}, i : Nat]

TypeOK ==
  /\ written \in Offsets /\ base \in 0 .. written
  /\ present \in BOOLEAN /\ bLargeLog \in LargeLogs
  /\ mark \in Record
  /\ buf \in Seq(Record) /\ Len(buf) <= 1
  /\ vec_log \in Seq(Lines)
  /\ bSendFalg \in BOOLEAN
  /\ b_state \in BOOLEAN
  /\ hand \in HandlerState
  /\ rep \in ReporterState
  /\ sent \in Seq(Lines)
  /\ refused \subseteq Lines /\ wire \subseteq Lines
  /\ outq \in Seq(Lines) /\ Len(outq) <= SNDHWM
  /\ faults \in 0 .. MaxFaults

Init ==
  /\ written = 0 /\ base = 0 /\ present = FALSE
  /\ bLargeLog \in LargeLogs
  /\ mark = NewRecord /\ buf = <<>>
  /\ vec_log = <<>> /\ bSendFalg = FALSE
  /\ b_state = FALSE
  /\ hand = NoHandler /\ rep = NoReporter
  /\ sent = <<>> /\ outq = <<>>
  /\ refused = {} /\ wire = {}
  /\ faults = 0

st_size == written - base

-----------------------------------------------------------------------------
(* The program that writes the log, and the world *)

Write ==
  /\ written < MaxLines
  /\ GrowWhileRead \/ hand.at \in {"none", "rest", "already"}
  /\ written' = written + 1
  /\ present' = TRUE
  /\ UNCHANGED <<base, bLargeLog, pos, vec_log, bSendFalg, b_state, hand, rep, socket,
                 faults>>

Fault(kind) == kind \in Faults /\ faults < MaxFaults /\ faults' = faults + 1

\* Log rotation in place, at a time when the handler does not read.
Truncate ==
  /\ Fault("truncate")
  /\ hand.at \in {"none", "rest"}
  /\ present
  /\ base' = written
  /\ UNCHANGED <<written, present, bLargeLog, pos, vec_log, bSendFalg, b_state, hand,
                 rep, socket>>

\* zmq's I/O thread hands a message to the network.
Transmit ==
  /\ outq # <<>>
  /\ outq' = Tail(outq)
  /\ wire' = wire \union {Head(outq)}
  /\ UNCHANGED <<file, pos, vec_log, bSendFalg, b_state, hand, rep, sent, refused,
                 faults>>

\* The collector's process ends abruptly; files keep what was flushed to them, what
\* vec_log and the zmq socket held is gone.
Crash ==
  /\ Fault("crash")
  /\ hand' = NoHandler /\ rep' = NoReporter
  /\ vec_log' = <<>> /\ bSendFalg' = FALSE
  /\ b_state' = FALSE
  /\ buf' = <<>> /\ outq' = <<>>
  /\ UNCHANGED <<file, mark, sent, refused, wire>>

-----------------------------------------------------------------------------
(* The calls of the manager *)

\* SetData makes a new policy, with an empty vec_log.
SetData == vec_log' = <<>> /\ bSendFalg' = FALSE

\* START_PLUGIN: SetData, then Start creates the threads.
Start ==
  /\ hand.at = "none" /\ rep.at = "none"
  /\ SetData
  /\ b_state' = TRUE
  /\ hand' = [NoHandler EXCEPT !.at = "rest"]
  /\ rep' = [NoReporter EXCEPT !.at = "scan"]
  /\ UNCHANGED <<file, pos, socket, faults>>

Stop ==
  /\ Fault("stop")
  /\ b_state
  /\ b_state' = FALSE
  /\ UNCHANGED <<file, pos, vec_log, bSendFalg, hand, rep, socket>>

-----------------------------------------------------------------------------
(* OnFilelogHandle *)

HandTo(at) == hand' = [hand EXCEPT !.at = at]

\* sleep(60): the report thread has looked at the flag since it was raised.
Rested == SlowReporter \/ ~bSendFalg

BeginAt(p) ==
  hand' = [at |-> "read", in |-> p, posNext |-> p, nCount |-> 0, st |-> st_size]

\* A round begins, and there is a file.
RoundBegins == hand.at = "rest" /\ Rested /\ b_state /\ present

\* Backup renames the file into the directory of the day; when that fails the
\* file stays, to be read again in the next round.
MoveAway == base' = written /\ present' = FALSE /\ UNCHANGED <<written, bLargeLog>>

\* The file cannot be opened: Backup moves it away unread, large log or not.
HandlerOpenFails ==
  /\ RoundBegins
  /\ Fault("open")
  /\ MoveAway \/ UNCHANGED file
  /\ UNCHANGED <<pos, vec_log, bSendFalg, b_state, hand, rep, socket>>

\* The file, or the file of the positions before it, cannot be looked at: it is left
\* to the next round.
HandlerStatFails ==
  /\ RoundBegins
  /\ bLargeLog
  /\ Fault("stat")
  /\ UNCHANGED <<file, pos, vec_log, bSendFalg, b_state, hand, rep, socket>>

\* The next round: stat, ReadPos and seekg.  A mark that exceeds the file's
\* size tells of a truncation; a mark at its end, of a file sent already.
HandlerOpen ==
  /\ RoundBegins
  /\ IF ~bLargeLog \/ mark.size > st_size THEN BeginAt(0)
     ELSE IF mark.pos = st_size THEN HandTo("already")
     ELSE BeginAt(mark.pos)
  /\ UNCHANGED <<file, pos, vec_log, bSendFalg, b_state, rep, socket, faults>>

HandlerSkip ==
  /\ hand.at = "already"
  /\ HandTo("rest")
  /\ UNCHANGED <<file, pos, vec_log, bSendFalg, b_state, rep, socket, faults>>

\* MarkPos: its seekp writes out what the stream's buffer still held.
MarkPos(record) ==
  /\ mark' = IF buf = <<>> THEN mark ELSE buf[1]
  /\ buf' = <<record>>

\* Slip: a mark every WRITE_RATE + 1 lines.
HandlerReadMarksLate ==
  LET line == base + hand.in + 1
      due == bLargeLog /\ hand.nCount > WRITE_RATE IN
  /\ hand.at = "read"
  /\ hand.in < st_size
  /\ hand' = [hand EXCEPT
       !.at = IF line \in Blank THEN "read" ELSE "push",
       !.in = @ + 1,
       !.posNext = IF hand.in + 1 > hand.st THEN hand.st ELSE hand.in + 1,
       !.nCount = IF due THEN 1 ELSE IF bLargeLog THEN @ + 1 ELSE @]
  /\ IF due THEN MarkPos([pos |-> hand.posNext, size |-> hand.st])
     ELSE UNCHANGED pos
  /\ UNCHANGED <<file, vec_log, bSendFalg, b_state, rep, socket, faults>>

\* getline succeeds.  Every WRITE_RATE lines the place where this line begins is
\* marked; a place past the size found by stat counts as that size.
HandlerRead ==
  LET line == base + hand.in + 1
      due == bLargeLog /\ hand.nCount >= WRITE_RATE IN
  /\ hand.at = "read"
  /\ hand.in < st_size
  /\ hand' = [hand EXCEPT
       !.at = IF line \in Blank THEN "read" ELSE "push",
       !.in = @ + 1,
       !.posNext = IF hand.in + 1 > hand.st THEN hand.st ELSE hand.in + 1,
       !.nCount = IF due THEN 1 ELSE IF bLargeLog THEN @ + 1 ELSE @]
  /\ IF due THEN MarkPos([pos |-> hand.posNext, size |-> hand.st])
     ELSE UNCHANGED pos
  /\ UNCHANGED <<file, vec_log, bSendFalg, b_state, rep, socket, faults>>

\* getline fails at the end of the file.
HandlerEnd ==
  /\ hand.at = "read"
  /\ hand.in >= st_size
  /\ HandTo("eof")
  /\ UNCHANGED <<file, pos, vec_log, bSendFalg, b_state, rep, socket, faults>>

\* Slip: the flag is raised one line late.
HandlerPushOneMore ==
  /\ hand.at = "push"
  /\ ~bSendFalg
  /\ vec_log' = Append(vec_log, base + hand.in)
  /\ bSendFalg' = (Len(vec_log') > nReadLineNum)
  /\ HandTo("read")
  /\ UNCHANGED <<file, pos, b_state, rep, socket, faults>>

\* Slip: the handler does not wait for the report thread.
HandlerPushNoWait ==
  /\ hand.at = "push"
  /\ vec_log' = Append(vec_log, base + hand.in)
  /\ bSendFalg' = (bSendFalg \/ Len(vec_log') >= nReadLineNum)
  /\ HandTo("read")
  /\ UNCHANGED <<file, pos, b_state, rep, socket, faults>>

\* Waits while bSendFalg is up; the line that completes a batch raises it.
HandlerPush ==
  /\ hand.at = "push"
  /\ ~bSendFalg
  /\ vec_log' = Append(vec_log, base + hand.in)
  /\ bSendFalg' = (Len(vec_log') >= nReadLineNum)
  /\ HandTo("read")
  /\ UNCHANGED <<file, pos, b_state, rep, socket, faults>>

\* Slip: the last, incomplete batch is not released.
HandlerFlagForgotten ==
  /\ hand.at = "eof"
  /\ HandTo("finish")
  /\ UNCHANGED <<file, pos, vec_log, bSendFalg, b_state, rep, socket, faults>>

\* bSendFalg = true at the end of the file, whatever vec_log holds.
HandlerFlag ==
  /\ hand.at = "eof"
  /\ bSendFalg' = TRUE
  /\ HandTo("finish")
  /\ UNCHANGED <<file, pos, vec_log, b_state, rep, socket, faults>>

\* Slip: posCurrent = posNext is missing before the last MarkPos.
HandlerMarksLastLine ==
  /\ hand.at = "finish"
  /\ mark' = [pos |-> IF hand.in = 0 THEN 0 ELSE hand.in - 1, size |-> hand.posNext]
  /\ buf' = <<>>
  /\ HandTo("rest")
  /\ UNCHANGED <<file, vec_log, bSendFalg, b_state, rep, socket, faults>>

\* bLargeLog: MarkPos and flush.
HandlerMark ==
  /\ hand.at = "finish"
  /\ bLargeLog
  /\ mark' = [pos |-> hand.posNext, size |-> hand.posNext]
  /\ buf' = <<>>
  /\ HandTo("rest")
  /\ UNCHANGED <<file, vec_log, bSendFalg, b_state, rep, socket, faults>>

\* Not bLargeLog: Backup.
HandlerBackup ==
  /\ hand.at = "finish"
  /\ ~bLargeLog
  /\ \/ MoveAway /\ UNCHANGED faults
     \/ Fault("rename") /\ UNCHANGED file
  /\ HandTo("rest")
  /\ UNCHANGED <<pos, vec_log, bSendFalg, b_state, rep, socket>>

\* b_state is looked at between rounds only.
HandlerExit ==
  /\ hand.at = "rest"
  /\ Rested
  /\ ~b_state
  /\ hand' = NoHandler
  /\ UNCHANGED <<file, pos, vec_log, bSendFalg, b_state, rep, socket, faults>>

OnFilelogHandle ==
  \/ HandlerOpen \/ HandlerOpenFails \/ HandlerStatFails \/ HandlerSkip
  \/ HandlerRead \/ HandlerEnd \/ HandlerPush
  \/ HandlerFlag \/ HandlerMark \/ HandlerBackup \/ HandlerExit

-----------------------------------------------------------------------------
(* OnReportHandle *)

\* Slip: the flag goes down before the batch is sent.
ReporterScanLowersFlag ==
  /\ rep.at = "scan"
  /\ rep' = [at |-> IF bSendFalg THEN "send" ELSE "check", i |-> 1]
  /\ bSendFalg' = FALSE
  /\ UNCHANGED <<file, pos, vec_log, b_state, hand, socket, faults>>

ReporterScan ==
  /\ rep.at = "scan"
  /\ rep' = [at |-> IF bSendFalg THEN "send" ELSE "check", i |-> 1]
  /\ UNCHANGED <<file, pos, vec_log, bSendFalg, b_state, hand, socket, faults>>

\* ReportData retries while the send queue is full (EAGAIN), then has the line; with
\* any other error it returns false, and the loop goes on with the next line.
ReportData(line) ==
  /\ sent' = Append(sent, line)
  /\ Len(outq) < SNDHWM
  /\ outq' = Append(outq, line)
  /\ UNCHANGED <<refused, wire>>

ReporterSend ==
  /\ rep.at = "send"
  /\ rep.i <= Len(vec_log)
  /\ ReportData(vec_log[rep.i])
  /\ rep' = [rep EXCEPT !.i = @ + 1]
  /\ UNCHANGED <<file, pos, vec_log, bSendFalg, b_state, hand, faults>>

ReporterSendFails ==
  /\ rep.at = "send"
  /\ rep.i <= Len(vec_log)
  /\ Fault("send")
  /\ refused' = refused \union {vec_log[rep.i]}
  /\ rep' = [rep EXCEPT !.i = @ + 1]
  /\ UNCHANGED <<file, pos, vec_log, bSendFalg, b_state, hand, sent, outq, wire>>

\* vec_log.clear()
ReporterClear ==
  /\ rep.at = "send"
  /\ rep.i > Len(vec_log)
  /\ vec_log' = <<>>
  /\ rep' = [rep EXCEPT !.at = "reset"]
  /\ UNCHANGED <<file, pos, bSendFalg, b_state, hand, socket, faults>>

\* bSendFalg = false
ReporterReset ==
  /\ rep.at = "reset"
  /\ bSendFalg' = FALSE
  /\ rep' = [rep EXCEPT !.at = "check"]
  /\ UNCHANGED <<file, pos, vec_log, b_state, hand, socket, faults>>

\* if (m_pthreadnum_alive == 0) break
ReporterCheck ==
  /\ rep.at = "check"
  /\ rep' = IF hand.at = "none" THEN NoReporter ELSE [at |-> "scan", i |-> 0]
  /\ UNCHANGED <<file, pos, vec_log, bSendFalg, b_state, hand, socket, faults>>

OnReportHandle ==
  \/ ReporterScan \/ ReporterSend \/ ReporterSendFails \/ ReporterClear
  \/ ReporterReset \/ ReporterCheck

-----------------------------------------------------------------------------
Next ==
  \/ Write \/ Truncate \/ Transmit \/ Crash
  \/ Start \/ Stop
  \/ OnFilelogHandle \/ OnReportHandle

Spec == Init /\ [][Next]_vars

(***************************************************************************)
(* Both threads are scheduled by the kernel, sleeps end, the analysis      *)
(* server takes messages, so that ReportData ends, and the manager starts  *)
(* the plugin again after a crash or a stop.                               *)
(***************************************************************************)
FairSpec ==
  /\ Spec
  /\ WF_vars(OnFilelogHandle) /\ WF_vars(OnReportHandle)
  /\ WF_vars(Transmit) /\ WF_vars(Start)
-----------------------------------------------------------------------------
(* Properties *)

\* The lines in vec_log that ReportData has not been called with.
Pending == IF rep.at = "send" THEN SubSeq(vec_log, rep.i, Len(vec_log)) ELSE vec_log

Elements(s) == {s[i] : i \in DOMAIN s}
Delivered == Elements(sent)

\* bLargeLog: the lines behind the mark of posList.pos, which the plugin will not
\* read again.
Covered == (base + 1 .. base + mark.pos) \ Blank

\* The two threads use vec_log without a lock; while the report thread walks
\* through it or empties it, bSendFalg keeps the handler away.
HandoffExclusive == rep.at \in {"send", "reset"} => bSendFalg

\* " have been sent already!": a file the handler leaves alone has no line that
\* was not sent or is not waiting in vec_log, but those the plugin's log tells of.
AlreadySent ==
  hand.at = "already"
    => Covered \subseteq Delivered \union refused \union Elements(Pending)

\* No line is sent twice.
SentOnce == \A i, j \in DOMAIN sent : sent[i] = sent[j] => i = j

\* A crash loses no more than the lines of one batch and those of a full send queue:
\* the mark may be ahead of what has left the process, by the lines waiting in vec_log
\* and in the socket; a stop loses one batch, a failing zmq_send one line.  (A file that
\* has been truncated, or moved away unread, and has grown again beyond its mark may
\* lose more.)
BoundedLoss ==
  base = 0 => Cardinality(Covered \ wire) <= (nReadLineNum + SNDHWM) * (faults + 1)

\* A crash repeats no more than the lines of two marks: posList.pos lags behind
\* the stream by the lines since the last mark and by a mark in the buffer.
BoundedRepeat ==
  bLargeLog /\ hand.at \in {"read", "push"} => hand.in - mark.pos <= 2 * WRITE_RATE

\* Every line written to the file leaves the process in the end, or the plugin's log
\* tells of it.
EveryLineSent ==
  \A line \in Lines \ Blank : (written >= line) ~> (line \in wire \union refused)

\* vec_log and bSendFalg make a bounded queue between the handler and the socket,
\* that loses lines in a crash, with a zmq_send that fails or in a stop that catches
\* the report thread in a long scan, and in no other way.
Pipe == INSTANCE BoundedQueue WITH
  Items <- Lines,
  queue <- Pending,
  out <- sent,
  capacity <- nReadLineNum,
  Lossy <- "crash" \in Faults \/ "send" \in Faults \/ SlowReporter

PipeSpec == Pipe!Spec
-----------------------------------------------------------------------------
(* Why the properties hold: the inductive invariant *)

\* A mark lies in the file as it was when it was made.
MarksSound ==
  /\ mark.pos <= mark.size
  /\ \A k \in DOMAIN buf : buf[k].pos <= buf[k].size

\* The open stream is inside the file.
InsideFile ==
  hand.at \in {"read", "push", "eof", "finish"}
    => /\ base + hand.in <= written
       /\ hand.posNext <= hand.st
       /\ hand.at = "push" => hand.in >= 1

\* A full vec_log is released at once.
BatchBounded ==
  /\ Len(vec_log) <= nReadLineNum
  /\ ~bSendFalg => Len(vec_log) < nReadLineNum

ReporterInside ==
  /\ rep.at = "send" => rep.i \in 1 .. Len(vec_log) + 1
  /\ rep.at = "reset" => vec_log = <<>>

\* Between rounds nothing waits unreleased, and a handler has rested before it
\* ended.
Released ==
  ~SlowReporter =>
    /\ hand.at = "none" => ~bSendFalg
    /\ hand.at \notin {"read", "push", "eof"} /\ ~bSendFalg => vec_log = <<>>

\* The handoff between the two threads is sound at every step.
PipeInv ==
  /\ MarksSound /\ InsideFile
  /\ HandoffExclusive /\ BatchBounded /\ ReporterInside /\ Released

FileLogInv == TypeOK /\ PipeInv

\* A file that only grows, and never while it is read, positions in posList.pos, a
\* report thread in time, and neither crash nor truncation nor a failing open: what
\* AlreadySent and SentOnce need.
Undisturbed ==
  /\ LargeLogs = {TRUE} /\ ~GrowWhileRead /\ ~SlowReporter
  /\ Faults \subseteq {"stop", "stat", "send"}

\* The lines the handler has taken from the file and passed on, since the beginning.
Taken ==
  IF hand.at \in {"read", "eof", "finish"} THEN hand.in
  ELSE IF hand.at = "push" THEN hand.in - 1
  ELSE mark.pos

\* What has been sent and what waits is all that has been taken, in order, but for
\* what has been refused.
Stream == sent \o Pending

StreamInOrder ==
  /\ \A i, j \in DOMAIN Stream : i < j => Stream[i] < Stream[j]
  /\ Elements(Stream) \union refused = (1 .. Taken) \ Blank

\* The marks keep up with the stream.
MarksInTime ==
  /\ base = 0
  /\ mark.size <= written /\ \A k \in DOMAIN buf : buf[k].size <= written
  /\ hand.at \in {"read", "push", "eof", "finish"} =>
       hand.st = written /\ hand.posNext = hand.in
  /\ hand.at = "push" => hand.in \notin Blank

\* No line is lost, doubled or overtaken between the file, vec_log and the servers.
OnceInv == StreamInOrder /\ MarksInTime

\* The lines behind a mark or behind the handler, and those that have neither left the
\* process nor wait in it.
Claimed ==
  {line \in Lines \ Blank :
     \/ line <= mark.pos
     \/ \E k \in DOMAIN buf : line <= buf[k].pos
     \/ hand.at \in {"read", "eof", "finish"} /\ line <= hand.in
     \/ hand.at = "push" /\ line < hand.in}
Waiting == Elements(outq) \union Elements(Pending)
Lost == Claimed \ (wire \union Waiting)
Capacity == nReadLineNum + SNDHWM

\* Each fault costs what waits at most: a crash all of it, a stop the batch that the
\* next start finds; until then that stays in reserve.
LossSound ==
  /\ hand.at \in {"read", "push", "eof", "finish"} => hand.posNext <= hand.in
  /\ b_state => hand.at # "none"
  /\ base = 0 =>
       /\ Cardinality(Lost) <= Capacity * faults
       /\ ~b_state /\ (hand.at # "none" \/ vec_log # <<>>) =>
            Cardinality(Lost) + Capacity <= Capacity * faults

\* nCount counts the lines since the last mark, which may still be in the buffer.
RepeatSound ==
  LET last == IF buf = <<>> THEN mark ELSE buf[1] IN
  bLargeLog /\ ~GrowWhileRead =>
    /\ hand.at \notin {"read", "push", "eof", "finish"} => buf = <<>>
    /\ hand.at \in {"read", "push"} =>
         /\ hand.st = st_size /\ hand.posNext = hand.in
         /\ hand.in - last.pos <= hand.nCount
         /\ last.pos - mark.pos <= WRITE_RATE

LossInv == FileLogInv /\ LossSound
RepeatInv == FileLogInv /\ RepeatSound
=============================================================================

-------------------------- MODULE FileLogPipe_proofs --------------------------
(***************************************************************************)
(* Proofs about FileLogPipe, for any file, batch size, marking rate and    *)
(* combination of faults: its type invariant, the exclusive use of         *)
(* vec_log, and that it implements BoundedQueue.                           *)
(***************************************************************************)
EXTENDS FileLogPipe, SequenceTheorems, TLAPS

\* A record put into the stream's buffer or written out keeps TypeOK: MarkPos
\* loses no record but the one in the file that it replaces.
LEMMA MarkPosType ==
  ASSUME TypeOK, MarksSound, NEW r \in Record, r.pos <= r.size, MarkPos(r)
  PROVE  /\ mark' \in Record /\ mark'.pos <= mark'.size
         /\ buf' \in Seq(Record) /\ Len(buf') <= 1
         /\ \A k \in DOMAIN buf' : buf'[k].pos <= buf'[k].size
<1>1. buf # <<>> => buf[1] \in Record /\ buf[1].pos <= buf[1].size
  BY DEF TypeOK, MarksSound
<1>2. mark' \in Record /\ mark'.pos <= mark'.size
  BY <1>1 DEF TypeOK, MarksSound, MarkPos
<1>3. buf' = <<r>>
  BY DEF MarkPos
<1>4. QED
  BY <1>2, <1>3

\* Every step of the plugin preserves the types and the inductive invariant,
\* whatever the writer, a crash, a truncation or a stop does in between.
LEMMA NextInv ==
  ASSUME TypeOK, PipeInv, [Next]_vars
  PROVE  TypeOK' /\ PipeInv'
<1>a. MaxLines \in Nat /\ MaxFaults \in Nat /\ WRITE_RATE \in Nat
  BY FileLogAssumption
<1>b. nReadLineNum \in Nat /\ nReadLineNum >= 1 /\ WRITE_RATE >= 1
  BY FileLogAssumption
<1>c. /\ <<>> \in Seq(Lines) /\ <<>> \in Seq(Record)
      /\ Len(<<>>) = 0
  BY EmptySeq
<1>d. SNDHWM \in Nat /\ SNDHWM >= 1 /\ LargeLogs \subseteq BOOLEAN
  BY FileLogAssumption
<1> USE <1>a, <1>b, <1>c
<1>1. CASE UNCHANGED vars
  <2>1. TypeOK'
    BY <1>1 DEF vars, file, pos, socket, TypeOK
  <2>2. PipeInv'
    BY <1>1 DEF vars, file, pos, socket, PipeInv, MarksSound, InsideFile,
       HandoffExclusive, BatchBounded, ReporterInside, Released
  <2>3. QED  BY <2>1, <2>2
<1>2. CASE Write
  <2>1. written' \in Offsets /\ base' \in 0 .. written'
    BY <1>2 DEF Write, file, pos, socket, TypeOK, Offsets
  <2>2. TypeOK'
    BY <1>2, <2>1 DEF Write, file, pos, socket, TypeOK
  <2>3. PipeInv'
    BY <1>2 DEF Write, file, pos, socket, Offsets, HandlerState, TypeOK, PipeInv,
       MarksSound, InsideFile,
       HandoffExclusive, BatchBounded, ReporterInside, Released
  <2>4. QED  BY <2>2, <2>3
<1>3. CASE Truncate
  <2>1. base' \in 0 .. written'
    BY <1>3 DEF Truncate, Fault, file, pos, socket, TypeOK, Offsets
  <2>2. faults' \in 0 .. MaxFaults
    BY <1>3 DEF Truncate, Fault, file, pos, socket, TypeOK
  <2>3. TypeOK'
    BY <1>3, <2>1, <2>2 DEF Truncate, Fault, file, pos, socket, TypeOK
  <2>4. PipeInv'
    BY <1>3 DEF Truncate, Fault, file, pos, socket, Offsets, TypeOK, PipeInv,
       MarksSound, InsideFile,
       HandoffExclusive, BatchBounded, ReporterInside, Released
  <2>5. QED  BY <2>3, <2>4
<1>4. CASE Crash
  <2>1. hand' \in HandlerState
    BY <1>4 DEF Crash, Fault, file, pos, socket, TypeOK, NoHandler, HandlerState, Offsets
  <2>2. rep' \in ReporterState
    BY <1>4 DEF Crash, Fault, file, pos, socket, TypeOK, NoReporter, ReporterState
  <2>3. faults' \in 0 .. MaxFaults
    BY <1>4 DEF Crash, Fault, file, pos, socket, TypeOK
  <2>4. /\ buf' \in Seq(Record) /\ Len(buf') <= 1 /\ vec_log' \in Seq(Lines)
        /\ outq' \in Seq(Lines) /\ Len(outq') <= SNDHWM
    BY <1>4, <1>d, EmptySeq DEF Crash, Fault, file, pos, socket, TypeOK
  <2>5. TypeOK'
    BY <1>4, <2>1, <2>2, <2>3, <2>4 DEF Crash, Fault, file, pos, socket, TypeOK
  <2>6. PipeInv'
    BY <1>4 DEF Crash, Fault, file, pos, socket, NoHandler, NoReporter, TypeOK, PipeInv,
       MarksSound, InsideFile,
       HandoffExclusive, BatchBounded, ReporterInside, Released
  <2>7. QED  BY <2>5, <2>6
<1>5. CASE Start
  <2>1. hand' \in HandlerState
    <3>1. hand' = [at |-> "rest", in |-> 0, posNext |-> 0, nCount |-> 0, st |-> 0]
      BY <1>5 DEF Start, NoHandler
    <3>2. 0 \in Offsets /\ 0 \in 0 .. WRITE_RATE
      BY DEF Offsets
    <3>3. QED  BY <3>1, <3>2 DEF HandlerState
  <2>2. rep' \in ReporterState
    BY <1>5 DEF Start, SetData, file, pos, socket, TypeOK, NoReporter, ReporterState
  <2>3. TypeOK'
    BY <1>5, <2>1, <2>2 DEF Start, SetData, file, pos, socket, TypeOK
  <2>4. PipeInv'
    BY <1>5 DEF Start, SetData, file, pos, socket, NoHandler, NoReporter, TypeOK, PipeInv,
       MarksSound, InsideFile,
       HandoffExclusive, BatchBounded, ReporterInside, Released
  <2>5. QED  BY <2>3, <2>4
<1>6. CASE Stop
  <2>1. faults' \in 0 .. MaxFaults
    BY <1>6 DEF Stop, Fault, file, pos, socket, TypeOK
  <2>2. TypeOK'
    BY <1>6, <2>1 DEF Stop, Fault, file, pos, socket, TypeOK
  <2>3. PipeInv'
    BY <1>6 DEF Stop, Fault, file, pos, socket, TypeOK, PipeInv,
       MarksSound, InsideFile,
       HandoffExclusive, BatchBounded, ReporterInside, Released
  <2>4. QED  BY <2>2, <2>3
<1>7. CASE HandlerOpen
  <2>1. st_size \in Offsets /\ mark.pos \in Offsets
    BY <1>7 DEF HandlerOpen, RoundBegins, HandTo, BeginAt, file, pos, socket, TypeOK,
       st_size, Offsets, Record
  <2>2. \A p \in Offsets : BeginAt(p) => hand' \in HandlerState
    BY <1>7, <2>1 DEF HandlerOpen, RoundBegins, HandTo, BeginAt, file, pos, socket,
       TypeOK, HandlerState, Offsets
  <2>3. HandTo("already") => hand' \in HandlerState
    BY <1>7 DEF HandlerOpen, RoundBegins, HandTo, BeginAt, file, pos, socket, TypeOK,
       HandlerState
  <2>4. hand' \in HandlerState
    BY <1>7, <2>1, <2>2, <2>3 DEF HandlerOpen, RoundBegins, HandTo, BeginAt, file, pos,
       socket, TypeOK, Offsets
  <2>5. TypeOK'
    BY <1>7, <2>1, <2>2, <2>3, <2>4 DEF HandlerOpen, RoundBegins, HandTo, BeginAt, file,
       pos, socket, TypeOK
  <2>6. InsideFile'
    <3>1. /\ mark.pos <= mark.size /\ st_size = written - base
          /\ written \in Int /\ base \in Int /\ base <= written
          /\ mark.pos \in Int /\ mark.size \in Int
      BY DEF TypeOK, PipeInv, MarksSound, Record, Offsets, st_size
    <3>2. \/ hand'.at = "already"
          \/ BeginAt(0)
          \/ BeginAt(mark.pos) /\ ~(mark.size > st_size)
      BY <1>7 DEF HandlerOpen, RoundBegins, HandTo, TypeOK, HandlerState
    <3>3. UNCHANGED <<written, base>>
      BY <1>7 DEF HandlerOpen, file
    <3>4. QED  BY <3>1, <3>2, <3>3 DEF BeginAt, InsideFile
  <2>7. PipeInv'
    BY <1>7, <2>6 DEF HandlerOpen, RoundBegins, HandTo, BeginAt, pos, Rested,
       HandlerState, TypeOK, PipeInv, MarksSound, HandoffExclusive, BatchBounded,
       ReporterInside, Released
  <2>8. QED  BY <2>5, <2>7
<1>8. CASE HandlerSkip
  <2>1. hand' \in HandlerState
    BY <1>8 DEF HandlerSkip, HandTo, file, pos, socket, TypeOK, HandlerState
  <2>2. TypeOK'
    BY <1>8, <2>1 DEF HandlerSkip, HandTo, file, pos, socket, TypeOK
  <2>3. PipeInv'
    BY <1>8 DEF HandlerSkip, HandTo, file, pos, socket, HandlerState, TypeOK, PipeInv,
       MarksSound, InsideFile,
       HandoffExclusive, BatchBounded, ReporterInside, Released
  <2>4. QED  BY <2>2, <2>3
<1>9. CASE HandlerRead
  <2> DEFINE due == bLargeLog /\ hand.nCount >= WRITE_RATE
             record == [pos |-> hand.posNext, size |-> hand.st]
  <2>1. hand.posNext <= hand.st /\ base + hand.in <= written
    BY <1>9 DEF HandlerRead, PipeInv, InsideFile
  <2>2. record \in Record /\ record.pos <= record.size
    BY <2>1 DEF TypeOK, HandlerState, Record
  <2>3. /\ mark' \in Record /\ mark'.pos <= mark'.size
        /\ buf' \in Seq(Record) /\ Len(buf') <= 1
        /\ \A k \in DOMAIN buf' : buf'[k].pos <= buf'[k].size
    <3>1. CASE due
      <4>1. MarkPos(record)  BY <1>9, <3>1 DEF HandlerRead
      <4>2. QED  BY <4>1, <2>2, MarkPosType DEF PipeInv
    <3>2. CASE ~due
      BY <1>9, <3>2 DEF HandlerRead, pos, TypeOK, PipeInv, MarksSound
    <3>3. QED  BY <3>1, <3>2
  <2>4. hand.in + 1 \in Offsets /\ base + (hand.in + 1) <= written
    <3>1. hand.in < written - base
      BY <1>9 DEF HandlerRead, st_size
    <3>2. /\ hand.in \in 0 .. MaxLines
          /\ written \in 0 .. MaxLines /\ base \in 0 .. written
      BY DEF TypeOK, HandlerState, Offsets
    <3>3. QED  BY <3>1, <3>2 DEF Offsets
  <2>5. /\ hand' \in HandlerState
        /\ hand'.at \in {"read", "push"}
        /\ hand'.in = hand.in + 1
        /\ hand'.posNext <= hand'.st
    <3>1. hand.posNext \in Offsets /\ hand.st \in Offsets /\ hand.nCount \in 0 ..
       WRITE_RATE
      BY DEF TypeOK, HandlerState
    <3>2. hand'.at \in {"read", "push"} /\ hand'.in = hand.in + 1 /\ hand'.st = hand.st
      BY <1>9 DEF HandlerRead, TypeOK, HandlerState
    <3>3. hand'.posNext \in Offsets /\ hand'.posNext <= hand.st
      <4>1. hand'.posNext = IF hand.in + 1 > hand.st THEN hand.st ELSE hand.in + 1
        BY <1>9 DEF HandlerRead, TypeOK, HandlerState
      <4>2. hand.in + 1 \in Nat /\ hand.st \in Nat
        BY <2>4, <3>1 DEF Offsets
      <4>3. QED  BY <2>4, <3>1, <4>1, <4>2
    <3>4. hand'.nCount \in 0 .. WRITE_RATE
      BY <1>9, <3>1 DEF HandlerRead, TypeOK, HandlerState
    <3>5. hand' = [at |-> hand'.at, in |-> hand'.in, posNext |-> hand'.posNext,
                   nCount |-> hand'.nCount, st |-> hand'.st]
      BY <1>9 DEF HandlerRead, TypeOK, HandlerState
    <3>6. hand' \in HandlerState
      BY <2>4, <3>1, <3>2, <3>3, <3>4, <3>5 DEF HandlerState
    <3>7. QED  BY <3>2, <3>3, <3>6
  <2>6. TypeOK'
    BY <1>9, <2>3, <2>5 DEF HandlerRead, file, socket, TypeOK
  <2>7. InsideFile'
    BY <1>9, <2>4, <2>5 DEF HandlerRead, file, InsideFile, TypeOK, HandlerState, Offsets
  <2>8. MarksSound'
    BY <2>3 DEF MarksSound
  <2>9. HandoffExclusive' /\ BatchBounded' /\ ReporterInside' /\ Released'
    BY <1>9, <2>5 DEF HandlerRead, PipeInv, HandoffExclusive, BatchBounded,
       ReporterInside, Released
  <2>10. QED  BY <2>6, <2>7, <2>8, <2>9 DEF PipeInv
<1>10. CASE HandlerEnd
  <2>1. hand' \in HandlerState
    BY <1>10 DEF HandlerEnd, HandTo, file, pos, socket, TypeOK, HandlerState
  <2>2. TypeOK'
    BY <1>10, <2>1 DEF HandlerEnd, HandTo, file, pos, socket, TypeOK
  <2>3. PipeInv'
    BY <1>10 DEF HandlerEnd, HandTo, file, pos, socket, HandlerState, TypeOK, PipeInv,
       MarksSound, InsideFile,
       HandoffExclusive, BatchBounded, ReporterInside, Released
  <2>4. QED  BY <2>2, <2>3
<1>11. CASE HandlerPush
  <2>1. base + hand.in \in Lines
    BY <1>11 DEF HandlerPush, TypeOK, HandlerState, Lines, Offsets, PipeInv, InsideFile
  <2>2. /\ vec_log' \in Seq(Lines)
        /\ Len(vec_log') = Len(vec_log) + 1
        /\ Len(vec_log) \in Nat
    BY <1>11, <2>1, AppendProperties, LenProperties DEF HandlerPush, TypeOK
  <2>3. hand' \in HandlerState
    BY <1>11 DEF HandlerPush, HandTo, TypeOK, HandlerState
  <2>4. TypeOK'
    BY <1>11, <2>2, <2>3 DEF HandlerPush, file, pos, socket, TypeOK
  <2>5. rep.at \notin {"send", "reset"}
    BY <1>11 DEF HandlerPush, PipeInv, HandoffExclusive
  <2>6. BatchBounded'
    <3>1. Len(vec_log) < nReadLineNum
      BY <1>11 DEF HandlerPush, PipeInv, BatchBounded
    <3>2. bSendFalg' <=> Len(vec_log') >= nReadLineNum
      BY <1>11 DEF HandlerPush
    <3>3. QED  BY <2>2, <3>1, <3>2 DEF BatchBounded
  <2>7. HandoffExclusive' /\ ReporterInside' /\ MarksSound'
    BY <1>11, <2>5 DEF HandlerPush, pos, PipeInv, MarksSound, HandoffExclusive,
       ReporterInside
  <2>8. InsideFile' /\ Released'
    BY <1>11 DEF HandlerPush, HandTo, file, TypeOK, HandlerState, PipeInv, InsideFile,
       Released
  <2>9. QED  BY <2>4, <2>6, <2>7, <2>8 DEF PipeInv
<1>12. CASE HandlerFlag
  <2>1. hand' \in HandlerState
    BY <1>12 DEF HandlerFlag, HandTo, file, pos, socket, TypeOK, HandlerState
  <2>2. TypeOK'
    BY <1>12, <2>1 DEF HandlerFlag, HandTo, file, pos, socket, TypeOK
  <2>3. PipeInv'
    BY <1>12 DEF HandlerFlag, HandTo, file, pos, socket, HandlerState, TypeOK, PipeInv,
       MarksSound, InsideFile,
       HandoffExclusive, BatchBounded, ReporterInside, Released
  <2>4. QED  BY <2>2, <2>3
<1>13. CASE HandlerMark
  <2>1. hand' \in HandlerState
    BY <1>13 DEF HandlerMark, HandTo, file, pos, socket, TypeOK, HandlerState
  <2>2. mark' \in Record
    BY <1>13 DEF HandlerMark, HandTo, file, pos, socket, TypeOK, HandlerState, Record
  <2>3. buf' \in Seq(Record) /\ Len(buf') <= 1
    BY <1>13 DEF HandlerMark
  <2>4. TypeOK'
    BY <1>13, <2>1, <2>2, <2>3 DEF HandlerMark, file, socket, TypeOK
  <2>5. PipeInv'
    BY <1>13 DEF HandlerMark, HandTo, file, pos, socket, HandlerState, Record, Offsets,
       TypeOK, PipeInv,
       MarksSound, InsideFile,
       HandoffExclusive, BatchBounded, ReporterInside, Released
  <2>6. QED  BY <2>4, <2>5
<1>14. CASE HandlerBackup
  <2>1. hand' \in HandlerState
    BY <1>14 DEF HandlerBackup, MoveAway, Fault, HandTo, file, pos, socket, TypeOK,
       HandlerState
  <2>2. faults' \in 0 .. MaxFaults /\ base' \in 0 .. written'
    BY <1>14 DEF HandlerBackup, MoveAway, Fault, file, TypeOK, Offsets
  <2>3. TypeOK'
    BY <1>14, <2>1, <2>2 DEF HandlerBackup, MoveAway, Fault, file, pos, socket, TypeOK
  <2>4. PipeInv'
    BY <1>14 DEF HandlerBackup, MoveAway, Fault, HandTo, file, pos, socket, HandlerState,
       TypeOK, PipeInv, MarksSound, InsideFile, HandoffExclusive, BatchBounded,
       ReporterInside, Released
  <2>5. QED  BY <2>3, <2>4
<1>15. CASE HandlerExit
  <2>1. hand' \in HandlerState
    BY <1>15 DEF HandlerExit, file, pos, socket, TypeOK, NoHandler, HandlerState, Offsets
  <2>2. TypeOK'
    BY <1>15, <2>1 DEF HandlerExit, file, pos, socket, TypeOK
  <2>3. PipeInv'
    BY <1>15 DEF HandlerExit, file, pos, socket, Rested, NoHandler, HandlerState, TypeOK,
       PipeInv,
       MarksSound, InsideFile,
       HandoffExclusive, BatchBounded, ReporterInside, Released
  <2>4. QED  BY <2>2, <2>3
<1>16. CASE ReporterScan
  <2>1. rep' \in ReporterState
    BY <1>16 DEF ReporterScan, file, pos, socket, TypeOK, ReporterState
  <2>2. TypeOK'
    BY <1>16, <2>1 DEF ReporterScan, file, pos, socket, TypeOK
  <2>3. PipeInv'
    BY <1>16 DEF ReporterScan, file, pos, socket, ReporterState, TypeOK, PipeInv,
       MarksSound, InsideFile,
       HandoffExclusive, BatchBounded, ReporterInside, Released
  <2>4. QED  BY <2>2, <2>3
<1>17. CASE ReporterSend
  <2>1. rep.i \in 1 .. Len(vec_log) /\ Len(vec_log) \in Nat
    BY <1>17, LenProperties DEF ReporterSend, ReportData, TypeOK, PipeInv, ReporterInside
  <2>2. vec_log[rep.i] \in Lines
    BY <2>1, ElementOfSeq DEF TypeOK
  <2>3. sent' \in Seq(Lines) /\ outq' \in Seq(Lines) /\ Len(outq') <= SNDHWM
    <3>1. /\ sent' \in Seq(Lines) /\ outq' \in Seq(Lines)
          /\ Len(outq') = Len(outq) + 1 /\ Len(outq) < SNDHWM
      BY <1>17, <2>2, AppendProperties DEF ReporterSend, ReportData, TypeOK
    <3>2. Len(outq) \in Nat
      BY LenProperties DEF TypeOK
    <3>3. QED  BY <3>1, <3>2, <1>d
  <2>4. rep' \in ReporterState /\ rep'.at = "send" /\ rep'.i \in 1 .. Len(vec_log) + 1
    <3>1. rep' = [rep EXCEPT !.i = rep.i + 1] /\ rep.at = "send"
      BY <1>17 DEF ReporterSend, ReportData
    <3>2. rep.i + 1 \in Nat /\ rep.i + 1 \in 1 .. Len(vec_log) + 1
      BY <2>1
    <3>3. QED  BY <3>1, <3>2 DEF TypeOK, ReporterState
  <2>5. TypeOK'
    BY <1>17, <2>3, <2>4 DEF ReporterSend, ReportData, file, pos, socket, TypeOK
  <2>6. PipeInv'
    BY <1>17, <2>4 DEF ReporterSend, ReportData, file, pos, socket, PipeInv, MarksSound,
       InsideFile, HandoffExclusive, BatchBounded, ReporterInside, Released
  <2>7. QED  BY <2>5, <2>6
<1>18. CASE ReporterClear
  <2>1. rep' \in ReporterState
    BY <1>18 DEF ReporterClear, file, pos, socket, TypeOK, ReporterState
  <2>2. TypeOK'
    BY <1>18, <2>1 DEF ReporterClear, file, pos, socket, TypeOK
  <2>3. PipeInv'
    BY <1>18 DEF ReporterClear, file, pos, socket, ReporterState, TypeOK, PipeInv,
       MarksSound, InsideFile,
       HandoffExclusive, BatchBounded, ReporterInside, Released
  <2>4. QED  BY <2>2, <2>3
<1>19. CASE ReporterReset
  <2>1. rep' \in ReporterState
    BY <1>19 DEF ReporterReset, file, pos, socket, TypeOK, ReporterState
  <2>2. TypeOK'
    BY <1>19, <2>1 DEF ReporterReset, file, pos, socket, TypeOK
  <2>3. PipeInv'
    BY <1>19 DEF ReporterReset, file, pos, socket, ReporterState, TypeOK, PipeInv,
       MarksSound, InsideFile,
       HandoffExclusive, BatchBounded, ReporterInside, Released
  <2>4. QED  BY <2>2, <2>3
<1>20. CASE ReporterCheck
  <2>1. rep' \in ReporterState
    BY <1>20 DEF ReporterCheck, file, pos, socket, TypeOK, NoReporter, ReporterState
  <2>2. TypeOK'
    BY <1>20, <2>1 DEF ReporterCheck, file, pos, socket, TypeOK
  <2>3. PipeInv'
    BY <1>20 DEF ReporterCheck, file, pos, socket, NoReporter, ReporterState, TypeOK,
       PipeInv, MarksSound, InsideFile, HandoffExclusive, BatchBounded, ReporterInside,
       Released
  <2>4. QED  BY <2>2, <2>3
<1>21. CASE Transmit
  <2>1. /\ outq' \in Seq(Lines) /\ Len(outq') <= SNDHWM
        /\ Head(outq) \in Lines
    <3>1. outq # <<>> /\ outq' = Tail(outq)
      BY <1>21 DEF Transmit
    <3>2. Len(outq) \in Nat /\ Len(outq) # 0
      BY <3>1, LenProperties, EmptySeq DEF TypeOK
    <3>3. /\ Tail(outq) \in Seq(Lines) /\ Len(Tail(outq)) = Len(outq) - 1
          /\ Head(outq) \in Lines
      BY <3>1, HeadTailProperties DEF TypeOK
    <3>4. QED  BY <3>1, <3>2, <3>3, <1>d DEF TypeOK
  <2>2. wire' \subseteq Lines
    BY <1>21, <2>1 DEF Transmit, TypeOK
  <2>3. TypeOK'
    BY <1>21, <2>1, <2>2 DEF Transmit, file, pos, TypeOK
  <2>4. PipeInv'
    BY <1>21 DEF Transmit, file, pos, TypeOK, PipeInv, MarksSound, InsideFile,
       HandoffExclusive, BatchBounded, ReporterInside, Released
  <2>5. QED  BY <2>3, <2>4
<1>22. CASE HandlerOpenFails
  <2>1. faults' \in 0 .. MaxFaults /\ base' \in 0 .. written'
    <3>1. written \in Nat /\ base \in 0 .. written /\ faults \in 0 .. MaxFaults
      BY DEF TypeOK, Offsets
    <3>2. faults' = faults + 1 /\ faults < MaxFaults
      BY <1>22 DEF HandlerOpenFails, Fault
    <3>3. written' = written /\ (base' = written \/ base' = base)
      BY <1>22 DEF HandlerOpenFails, MoveAway, file
    <3>4. QED  BY <3>1, <3>2, <3>3
  <2>2. TypeOK'
    BY <1>22, <2>1 DEF HandlerOpenFails, RoundBegins, MoveAway, Fault, file, pos, socket,
       TypeOK
  <2>3. PipeInv'
    BY <1>22 DEF HandlerOpenFails, RoundBegins, MoveAway, Fault, file, pos, TypeOK,
       PipeInv, MarksSound, InsideFile,
       HandoffExclusive, BatchBounded, ReporterInside, Released
  <2>4. QED  BY <2>2, <2>3
<1>23. CASE HandlerStatFails
  <2>1. faults' \in 0 .. MaxFaults
    BY <1>23 DEF HandlerStatFails, Fault, TypeOK
  <2>2. TypeOK'
    BY <1>23, <2>1 DEF HandlerStatFails, file, pos, socket, TypeOK
  <2>3. PipeInv'
    BY <1>23 DEF HandlerStatFails, file, pos, TypeOK, PipeInv, MarksSound, InsideFile,
       HandoffExclusive, BatchBounded, ReporterInside, Released
  <2>4. QED  BY <2>2, <2>3
<1>24. CASE ReporterSendFails
  <2>1. rep.i \in 1 .. Len(vec_log) /\ Len(vec_log) \in Nat
    BY <1>24, LenProperties DEF ReporterSendFails, TypeOK, PipeInv, ReporterInside
  <2>2. vec_log[rep.i] \in Lines
    BY <2>1, ElementOfSeq DEF TypeOK
  <2>3. refused' \subseteq Lines /\ faults' \in 0 .. MaxFaults
    BY <1>24, <2>2 DEF ReporterSendFails, Fault, TypeOK
  <2>4. rep' \in ReporterState /\ rep'.at = "send" /\ rep'.i \in 1 .. Len(vec_log) + 1
    <3>1. rep' = [rep EXCEPT !.i = rep.i + 1] /\ rep.at = "send"
      BY <1>24 DEF ReporterSendFails
    <3>2. rep.i + 1 \in Nat /\ rep.i + 1 \in 1 .. Len(vec_log) + 1
      BY <2>1
    <3>3. QED  BY <3>1, <3>2 DEF TypeOK, ReporterState
  <2>5. TypeOK'
    BY <1>24, <2>3, <2>4 DEF ReporterSendFails, file, pos, TypeOK
  <2>6. PipeInv'
    BY <1>24, <2>4 DEF ReporterSendFails, file, pos, PipeInv, MarksSound, InsideFile,
       HandoffExclusive, BatchBounded, ReporterInside, Released
  <2>7. QED  BY <2>5, <2>6
<1>25. QED
  BY <1>1, <1>2, <1>3, <1>4, <1>5, <1>6, <1>7, <1>8, <1>9, <1>10, <1>11, <1>12, <1>13,
     <1>14, <1>15, <1>16, <1>17, <1>18, <1>19, <1>20, <1>21, <1>22, <1>23, <1>24
     DEF Next, OnFilelogHandle, OnReportHandle

\* The state before the plugin is first started.
LEMMA InitInv == Init => TypeOK /\ PipeInv
<1> SUFFICES ASSUME Init PROVE TypeOK /\ PipeInv
  OBVIOUS
<1>1. <<>> \in Seq(Lines) /\ <<>> \in Seq(Record) /\ Len(<<>>) = 0
  BY EmptySeq
<1>2. MaxLines \in Nat /\ MaxFaults \in Nat /\ WRITE_RATE \in Nat
      /\ nReadLineNum \in Nat /\ nReadLineNum >= 1 /\ SNDHWM \in Nat
      /\ LargeLogs \subseteq BOOLEAN
  BY FileLogAssumption
<1>3. hand \in HandlerState /\ rep \in ReporterState
  BY <1>2 DEF Init, NoHandler, NoReporter, HandlerState, ReporterState, Offsets
<1>4. mark \in Record
  BY <1>2 DEF Init, NewRecord, Record, Offsets
<1>5. TypeOK
  <2>1. written \in Offsets /\ base \in 0 .. written /\ faults \in 0 .. MaxFaults
    BY <1>2 DEF Init, Offsets
  <2>2. /\ buf \in Seq(Record) /\ Len(buf) <= 1
        /\ vec_log \in Seq(Lines) /\ sent \in Seq(Lines)
        /\ outq \in Seq(Lines) /\ Len(outq) <= SNDHWM
        /\ refused \subseteq Lines /\ wire \subseteq Lines
    BY <1>1, <1>2 DEF Init
  <2>3. /\ present \in BOOLEAN /\ bSendFalg \in BOOLEAN /\ b_state \in BOOLEAN
        /\ bLargeLog \in LargeLogs
    BY DEF Init
  <2>4. QED  BY <1>3, <1>4, <2>1, <2>2, <2>3 DEF TypeOK
<1>6. PipeInv
  BY <1>1, <1>2 DEF Init, NewRecord, NoHandler, NoReporter, PipeInv, MarksSound, InsideFile,
     HandoffExclusive, BatchBounded, ReporterInside, Released
<1>7. QED  BY <1>5, <1>6

\* The types and the invariant of the handoff hold in every reachable state.
THEOREM PipeSafe == Spec => []FileLogInv
<1>1. Init => FileLogInv
  BY InitInv DEF FileLogInv
<1>2. FileLogInv /\ [Next]_vars => FileLogInv'
  BY NextInv DEF FileLogInv
<1>3. QED  BY <1>1, <1>2, PTL DEF Spec

\* The handler never adds to vec_log, and so never moves its lines in memory,
\* while the report thread walks through it or empties it.
THEOREM HandoffSafe == Spec => []HandoffExclusive
<1>1. FileLogInv => HandoffExclusive
  BY DEF FileLogInv, PipeInv
<1>2. QED  BY <1>1, PipeSafe, PTL

-----------------------------------------------------------------------------
(* FileLogPipe implements BoundedQueue *)

\* Where nothing that Pending depends on changes, nothing happens in the queue.
LEMMA PipeStutter ==
  ASSUME UNCHANGED <<vec_log, rep, sent>>
  PROVE  UNCHANGED <<Pending, sent>>
BY DEF Pending

\* Adding a line to vec_log is a Put, for the report thread is elsewhere.
LEMMA PushPuts ==
  ASSUME TypeOK, PipeInv, HandlerPush
  PROVE  \E line \in Lines : Pipe!Put(line)
<1>1. rep.at \notin {"send", "reset"} /\ rep' = rep /\ sent' = sent
  BY DEF HandlerPush, socket, PipeInv, HandoffExclusive
<1>2. Pending = vec_log /\ Pending' = vec_log'
  BY <1>1 DEF Pending
<1>3. Len(vec_log) < nReadLineNum
  BY DEF HandlerPush, PipeInv, BatchBounded
<1>4. MaxLines \in Nat
  BY FileLogAssumption
<1>5. base + hand.in \in Lines
  BY <1>4 DEF HandlerPush, TypeOK, HandlerState, Lines, Offsets, PipeInv, InsideFile
<1>6. Pipe!Put(base + hand.in)
  BY <1>1, <1>2, <1>3 DEF HandlerPush, Pipe!Put
<1>7. QED  BY <1>5, <1>6

\* The line that the report thread turns to is the oldest of those that wait.
LEMMA TurnsToOldest ==
  ASSUME TypeOK, PipeInv, rep.at = "send", rep.i <= Len(vec_log),
         vec_log' = vec_log, rep' = [rep EXCEPT !.i = @ + 1]
  PROVE  /\ Pending # <<>>
         /\ Head(Pending) = vec_log[rep.i]
         /\ Tail(Pending) = Pending'
<1> DEFINE n == Len(vec_log)
<1>1. n \in Nat /\ rep.i \in 1 .. n /\ rep.at = "send" /\ vec_log \in Seq(Lines)
  BY LenProperties DEF TypeOK, PipeInv, ReporterInside
<1>2. Pending = SubSeq(vec_log, rep.i, n)
  BY <1>1 DEF Pending
<1>3. vec_log' = vec_log /\ rep'.at = "send" /\ rep'.i = rep.i + 1
  BY DEF TypeOK, ReporterState
<1>4. Pending' = SubSeq(vec_log, rep.i + 1, n)
  BY <1>3 DEF Pending
<1>5. Head(Pending) = vec_log[rep.i] /\ Tail(Pending) = Pending'
  <2>1. rep.i \in 1 .. Len(vec_log) /\ Len(vec_log) \in rep.i .. Len(vec_log)
    BY <1>1
  <2>2. /\ Head(SubSeq(vec_log, rep.i, n)) = vec_log[rep.i]
        /\ Tail(SubSeq(vec_log, rep.i, n)) = SubSeq(vec_log, rep.i + 1, n)
    BY <1>1, <2>1, HeadTailOfSubSeq
  <2>3. QED  BY <1>2, <1>4, <2>2
<1>6. Pending # <<>>
  <2>1. \A i \in rep.i .. n : vec_log[i] \in Lines
    BY <1>1, ElementOfSeq
  <2>2. Len(Pending) = n - rep.i + 1
    BY <1>1, <1>2, <2>1, SubSeqProperties
  <2>3. Len(<<>>) = 0
    BY EmptySeq
  <2>4. QED  BY <1>1, <2>2, <2>3
<1>7. QED  BY <1>5, <1>6

\* Reporting a line is a Take.
LEMMA SendTakes ==
  ASSUME TypeOK, PipeInv, ReporterSend
  PROVE  Pipe!Take
<1>1. /\ Pending # <<>>
      /\ Head(Pending) = vec_log[rep.i]
      /\ Tail(Pending) = Pending'
  BY TurnsToOldest DEF ReporterSend
<1>2. sent' = Append(sent, vec_log[rep.i])
  BY DEF ReporterSend, ReportData
<1>3. QED  BY <1>1, <1>2 DEF Pipe!Take

\* A failing zmq_send is a Drop.
LEMMA FailureDrops ==
  ASSUME TypeOK, PipeInv, ReporterSendFails
  PROVE  Pipe!Drop
<1>1. Pending # <<>> /\ Tail(Pending) = Pending'
  BY TurnsToOldest DEF ReporterSendFails
<1>2. sent' = sent /\ "send" \in Faults
  BY DEF ReporterSendFails, Fault
<1>3. QED  BY <1>1, <1>2 DEF Pipe!Drop

\* Every other step leaves the queue alone but for a crash and a start.
LEMMA EmptiesOnly ==
  ASSUME TypeOK, PipeInv, [Next]_vars, ~HandlerPush, ~ReporterSend,
         ~ReporterSendFails, ~Crash, ~Start
  PROVE  UNCHANGED <<Pending, sent>>
<1>1. CASE UNCHANGED vars
  BY <1>1, PipeStutter DEF vars, socket
<1>2. CASE Write
  BY <1>2, PipeStutter DEF Write, socket
<1>3. CASE Truncate
  BY <1>3, PipeStutter DEF Truncate, socket
<1>4. CASE Stop
  BY <1>4, PipeStutter DEF Stop, socket
<1>5. CASE OnFilelogHandle
  BY <1>5, PipeStutter DEF OnFilelogHandle, HandlerOpen, HandlerOpenFails,
     HandlerStatFails, HandlerSkip, HandlerRead, HandlerEnd, HandlerFlag, HandlerMark,
     HandlerBackup, HandlerExit, socket
<1>6. CASE ReporterScan
  <2>1. vec_log' = vec_log /\ sent' = sent /\ Pending = vec_log
    BY <1>6 DEF ReporterScan, socket, Pending
  <2>2. rep'.i = 1
    BY <1>6 DEF ReporterScan
  <2>3. Pending' = vec_log
    BY <2>1, <2>2, SubSeqFull DEF Pending, TypeOK
  <2>4. QED  BY <2>1, <2>3
<1>7. CASE ReporterClear
  <2>1. Pending = SubSeq(vec_log, rep.i, Len(vec_log)) /\ sent' = sent
    BY <1>7 DEF ReporterClear, socket, Pending
  <2>2. Len(vec_log) \in Nat /\ rep.i \in Nat /\ rep.i > Len(vec_log)
    BY <1>7, LenProperties DEF ReporterClear, TypeOK, ReporterState
  <2>3. Pending = <<>>
    BY <2>1, <2>2, SubSeqEmpty
  <2>4. Pending' = <<>>
    BY <1>7 DEF ReporterClear, socket, Pending, TypeOK, ReporterState
  <2>5. QED  BY <2>1, <2>3, <2>4
<1>8. CASE ReporterReset
  BY <1>8 DEF ReporterReset, socket, Pending, TypeOK, ReporterState
<1>9. CASE ReporterCheck
  BY <1>9 DEF ReporterCheck, socket, Pending, NoReporter
<1>10. CASE Transmit
  BY <1>10, PipeStutter DEF Transmit
<1>11. QED
  BY <1>1, <1>2, <1>3, <1>4, <1>5, <1>6, <1>7, <1>8, <1>9, <1>10
     DEF Next, OnReportHandle

\* They empty it: the crash always, the start after a stop that caught the report thread
\* in a long scan.
LEMMA OthersStutter ==
  ASSUME TypeOK, PipeInv, [Next]_vars, ~HandlerPush, ~ReporterSend,
         ~ReporterSendFails
  PROVE  \/ UNCHANGED <<Pending, sent>>
         \/ /\ "crash" \in Faults \/ SlowReporter
            /\ Pending' = <<>> /\ sent' = sent
<1>1. CASE Crash
  BY <1>1 DEF Crash, Pending, NoReporter, Fault
<1>2. CASE Start
  <2>1. Pending' = <<>> /\ sent' = sent
    BY <1>2 DEF Start, SetData, socket, Pending, NoReporter
  <2>2. ~SlowReporter => Pending = <<>>
    BY <1>2 DEF Start, SetData, Pending, PipeInv, Released
  <2>3. SlowReporter \in BOOLEAN
    BY FileLogAssumption
  <2> QED  BY <2>1, <2>2, <2>3
<1> QED  BY <1>1, <1>2, EmptiesOnly

\* Each step of the plugin is a step of the queue or leaves it alone.
LEMMA NextPipe ==
  ASSUME TypeOK, PipeInv, [Next]_vars
  PROVE  [Pipe!Next]_<<Pending, sent>>
<1>1. CASE HandlerPush
  BY <1>1, PushPuts DEF Pipe!Next
<1>2. CASE ReporterSend
  BY <1>2, SendTakes DEF Pipe!Next
<1>3. CASE ReporterSendFails
  BY <1>3, FailureDrops DEF Pipe!Next
<1>4. CASE ~HandlerPush /\ ~ReporterSend /\ ~ReporterSendFails
  BY <1>4, OthersStutter DEF Pipe!Next, Pipe!Lose
<1>5. QED  BY <1>1, <1>2, <1>3, <1>4

\* What the handler has read goes out in order, each line once per reading, and
\* at most nReadLineNum lines wait; lines that wait are only lost by a crash, a
\* zmq_send that fails or a stop during a long scan.
THEOREM PipeCorrect == Spec => PipeSpec
<1>1. Init => Pipe!Init
  BY DEF Init, Pending, NoReporter, Pipe!Init
<1>2. FileLogInv /\ [Next]_vars => [Pipe!Next]_<<Pending, sent>>
  BY NextPipe DEF FileLogInv
<1>3. QED
  BY <1>1, <1>2, PipeSafe, PTL DEF Spec, PipeSpec, Pipe!Spec, Pipe!queueVars
=============================================================================

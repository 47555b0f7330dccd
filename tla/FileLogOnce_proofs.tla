-------------------------- MODULE FileLogOnce_proofs --------------------------
(***************************************************************************)
(* The lines of an undisturbed file are sent once each, in their order,    *)
(* and none is left behind when the file's end is marked: for any number   *)
(* of lines, any batch size, any distance of marks, and stops at any time. *)
(* And how much is repeated and how much is lost in a file that is         *)
(* disturbed.                                                              *)
(***************************************************************************)
EXTENDS FileLogPipe_proofs, FiniteSetTheorems

LEMMA PendingType ==
  ASSUME TypeOK, PipeInv
  PROVE  Pending \in Seq(Lines)
<1>1. CASE rep.at = "send"
  <2>1. vec_log \in Seq(Lines) /\ rep.i \in 1 .. Len(vec_log) + 1 /\ Len(vec_log) \in Nat
    BY <1>1, LenProperties DEF TypeOK, PipeInv, ReporterInside
  <2>2. \A i \in rep.i .. Len(vec_log) : vec_log[i] \in Lines
    BY <2>1, ElementOfSeq
  <2>3. SubSeq(vec_log, rep.i, Len(vec_log)) \in Seq(Lines)
    <3>1. CASE rep.i <= Len(vec_log)
      BY <2>1, <2>2, <3>1, SubSeqProperties
    <3>2. CASE rep.i > Len(vec_log)
      <4>1. SubSeq(vec_log, rep.i, Len(vec_log)) = <<>>
        BY <2>1, <3>2, SubSeqEmpty
      <4> QED  BY <4>1, EmptySeq
    <3> QED  BY <2>1, <3>1, <3>2
  <2> QED  BY <1>1, <2>3 DEF Pending
<1>2. CASE rep.at # "send"
  BY <1>2 DEF Pending, TypeOK
<1> QED  BY <1>1, <1>2

\* A step of the lossless queue adds at most one item to what has been put into it.
LEMMA QueueStep ==
  ASSUME NEW S, NEW q \in Seq(S), NEW o \in Seq(S), NEW q1 \in Seq(S), NEW o1 \in Seq(S)
  PROVE  /\ \A x \in S : q1 = Append(q, x) /\ o1 = o => o1 \o q1 = Append(o \o q, x)
         /\ q # <<>> /\ o1 = Append(o, Head(q)) /\ q1 = Tail(q) => o1 \o q1 = o \o q
<1>1. ASSUME NEW x \in S, q1 = Append(q, x), o1 = o
      PROVE  o1 \o q1 = Append(o \o q, x)
  <2>1. <<x>> \in Seq(S) /\ o \o q \in Seq(S)
    BY ConcatProperties
  <2>2. Append(q, x) = q \o <<x>> /\ Append(o \o q, x) = (o \o q) \o <<x>>
    BY <2>1, AppendIsConcat
  <2>3. (o \o q) \o <<x>> = o \o (q \o <<x>>)
    BY <2>1, ConcatAssociative
  <2> QED  BY <1>1, <2>2, <2>3
<1>2. ASSUME q # <<>>, o1 = Append(o, Head(q)), q1 = Tail(q)
      PROVE  o1 \o q1 = o \o q
  <2>1. Head(q) \in S /\ <<Head(q)>> \in Seq(S) /\ Tail(q) \in Seq(S)
    BY <1>2, HeadTailProperties
  <2>2. Append(o, Head(q)) = o \o <<Head(q)>>
    BY <2>1, AppendIsConcat
  <2>3. (o \o <<Head(q)>>) \o Tail(q) = o \o (<<Head(q)>> \o Tail(q))
    BY <2>1, ConcatAssociative
  <2>4. <<Head(q)>> \o Tail(q) = q
    BY <1>2, HeadTailProperties
  <2> QED  BY <1>2, <2>2, <2>3, <2>4
<1> QED  BY <1>1, <1>2

\* The first item of q taken out of o \o q.
LEMMA WithoutHead ==
  ASSUME NEW S, NEW o \in Seq(S), NEW q \in Seq(S), q # <<>>
  PROVE  /\ Len(o) \in Nat /\ Len(q) \in Nat /\ Len(q) >= 1
         /\ DOMAIN (o \o q) = 1 .. Len(o) + Len(q)
         /\ DOMAIN (o \o Tail(q)) = 1 .. Len(o) + Len(q) - 1
         /\ (o \o q)[Len(o) + 1] = Head(q)
         /\ \A k \in 1 .. Len(o) + Len(q) - 1 :
              (o \o Tail(q))[k] = (o \o q)[IF k <= Len(o) THEN k ELSE k + 1]
<1>1. /\ Len(o) \in Nat /\ Len(q) \in Nat /\ Len(q) >= 1 /\ Head(q) = q[1]
      /\ Tail(q) \in Seq(S) /\ Len(Tail(q)) = Len(q) - 1
      /\ \A i \in 1 .. Len(Tail(q)) : Tail(q)[i] = q[i + 1]
  BY HeadTailProperties, LenProperties, EmptySeq
<1>2. /\ o \o q \in Seq(S) /\ Len(o \o q) = Len(o) + Len(q)
      /\ \A i \in 1 .. Len(o) + Len(q) :
           (o \o q)[i] = IF i <= Len(o) THEN o[i] ELSE q[i - Len(o)]
  BY ConcatProperties
<1>3. /\ o \o Tail(q) \in Seq(S) /\ Len(o \o Tail(q)) = Len(o) + Len(Tail(q))
      /\ \A i \in 1 .. Len(o) + Len(Tail(q)) :
           (o \o Tail(q))[i] = IF i <= Len(o) THEN o[i] ELSE Tail(q)[i - Len(o)]
  BY <1>1, ConcatProperties
<1>4. /\ DOMAIN (o \o q) = 1 .. Len(o) + Len(q)
      /\ DOMAIN (o \o Tail(q)) = 1 .. Len(o) + Len(q) - 1
  BY <1>1, <1>2, <1>3, LenProperties
<1>5. (o \o q)[Len(o) + 1] = Head(q)
  BY <1>1, <1>2
<1>6. ASSUME NEW k \in 1 .. Len(o) + Len(q) - 1
      PROVE  (o \o Tail(q))[k] = (o \o q)[IF k <= Len(o) THEN k ELSE k + 1]
  <2>1. CASE k <= Len(o)
    BY <1>1, <1>2, <1>3, <2>1
  <2>2. CASE k > Len(o)
    <3>1. (o \o Tail(q))[k] = Tail(q)[k - Len(o)] /\ k - Len(o) \in 1 .. Len(Tail(q))
      BY <1>1, <1>3, <2>2
    <3>2. (o \o q)[k + 1] = q[(k + 1) - Len(o)]
      BY <1>1, <1>2, <2>2
    <3>3. Tail(q)[k - Len(o)] = q[(k - Len(o)) + 1] /\ (k + 1) - Len(o) = (k - Len(o)) + 1
      BY <1>1, <3>1
    <3> QED  BY <1>1, <2>2, <3>1, <3>2, <3>3
  <2> QED  BY <1>1, <2>1, <2>2
<1> QED  BY <1>1, <1>4, <1>5, <1>6

\* What has been sent and what waits only grows by the line the handler pushes.
LEMMA StreamGrows ==
  ASSUME TypeOK, PipeInv, TypeOK', Undisturbed, [Next]_vars, ~ReporterSendFails
  PROVE  Stream' = IF HandlerPush THEN Append(Stream, base + hand.in) ELSE Stream
<1>1. Pending \in Seq(Lines) /\ sent \in Seq(Lines) /\ sent' \in Seq(Lines)
  BY PendingType DEF TypeOK
<1>2. CASE HandlerPush
  <2>1. rep.at \notin {"send", "reset"} /\ rep' = rep /\ sent' = sent
    BY <1>2 DEF HandlerPush, socket, PipeInv, HandoffExclusive
  <2>2. Pending' = Append(Pending, base + hand.in)
    BY <1>2, <2>1 DEF HandlerPush, Pending
  <2>3. base + hand.in \in Lines
    <3>1. MaxLines \in Nat
      BY FileLogAssumption
    <3> QED  BY <1>2, <3>1 DEF HandlerPush, TypeOK, HandlerState, Lines, Offsets,
                PipeInv, InsideFile
  <2>4. Pending' \in Seq(Lines)
    BY <1>1, <2>2, <2>3, AppendProperties
  <2> QED  BY <1>1, <1>2, <2>1, <2>2, <2>3, <2>4, QueueStep DEF Stream
<1>3. CASE ReporterSend
  <2>1. /\ Pending # <<>> /\ sent' = Append(sent, Head(Pending))
        /\ Pending' = Tail(Pending)
    BY <1>3, SendTakes DEF Pipe!Take
  <2>2. Pending' \in Seq(Lines)
    BY <1>1, <2>1, HeadTailProperties
  <2>3. Stream' = Stream
    BY <1>1, <2>1, <2>2, QueueStep DEF Stream
  <2>4. ~HandlerPush
    BY <1>3 DEF ReporterSend, HandlerPush, HandTo, TypeOK, HandlerState
  <2> QED  BY <2>3, <2>4
<1>4. CASE ~HandlerPush /\ ~ReporterSend
  BY <1>4, OthersStutter, FileLogAssumption DEF Undisturbed, Stream
<1> QED  BY <1>2, <1>3, <1>4

OpenAt == {"read", "push", "eof", "finish"}

\* The marks keep up: the file grows only between the rounds, and each round ends with
\* a mark at the end of the file.
LEMMA MarksStep ==
  ASSUME TypeOK, PipeInv, TypeOK', Undisturbed, MarksInTime, [Next]_vars
  PROVE  MarksInTime'
<1> USE DEF Undisturbed
<1>t. /\ hand \in HandlerState /\ mark \in Record /\ written \in Nat /\ base = 0
      /\ written' \in Nat
      /\ buf # <<>> => buf[1].size <= written
      /\ hand.in \in Nat /\ hand.st \in Nat /\ hand.posNext \in Nat
  <2>1. buf # <<>> => 1 \in DOMAIN buf
    <3>1. buf \in Seq(Record)
      BY DEF TypeOK
    <3>2. DOMAIN buf = 1 .. Len(buf) /\ Len(buf) \in Nat /\ (buf # <<>> => Len(buf) # 0)
      BY <3>1, LenProperties, EmptySeq
    <3> QED  BY <3>2
  <2>2. MaxLines \in Nat
    BY FileLogAssumption
  <2> QED  BY <2>1, <2>2 DEF TypeOK, MarksInTime, HandlerState, Offsets
<1>1. CASE Write
  <2>1. /\ written' = written + 1 /\ hand.at \in {"none", "rest", "already"}
        /\ UNCHANGED <<base, mark, buf, hand>>
    BY <1>1 DEF Write, pos
  <2>2. \A k \in DOMAIN buf : buf[k].size <= written + 1
    <3>1. \A k \in DOMAIN buf : buf[k] \in Record
      BY ElementOfSeq, LenProperties DEF TypeOK
    <3>2. \A k \in DOMAIN buf : buf[k].size \in Int
      BY <3>1 DEF Record, Offsets
    <3> QED  BY <1>t, <3>2 DEF MarksInTime
  <2>3. mark.size \in Int
    BY <1>t DEF Record, Offsets
  <2> QED  BY <1>t, <2>1, <2>2, <2>3 DEF MarksInTime
<1>2. CASE Start
  <2>1. /\ hand'.at = "rest" /\ UNCHANGED <<written, base, mark, buf>>
    BY <1>2 DEF Start, file, pos, NoHandler
  <2> QED  BY <2>1 DEF MarksInTime
<1>3. CASE HandlerOpen
  <2>1. /\ hand.at = "rest" /\ UNCHANGED <<written, base, mark, buf>>
        /\ hand' = [hand EXCEPT !.at = "already"]
           \/ \E p \in {0, mark.pos} :
                hand' = [at |-> "read", in |-> p, posNext |-> p, nCount |-> 0,
                         st |-> written - base]
    BY <1>3 DEF HandlerOpen, RoundBegins, HandTo, BeginAt, st_size, file, pos
  <2>2. \/ hand'.at = "already"
        \/ hand'.at = "read" /\ hand'.st = written /\ hand'.posNext = hand'.in
    BY <1>t, <2>1 DEF HandlerState
  <2> QED  BY <2>1, <2>2 DEF MarksInTime
<1>4. CASE HandlerRead
  <2>1. /\ hand.at = "read" /\ hand.in < written /\ hand.st = written
        /\ hand.posNext = hand.in /\ UNCHANGED <<written, base>>
    BY <1>4, <1>t DEF HandlerRead, st_size, file, MarksInTime
  <2>2. /\ hand'.at = IF base + hand.in + 1 \in Blank THEN "read" ELSE "push"
        /\ hand'.in = hand.in + 1 /\ hand'.st = hand.st
        /\ hand'.posNext = IF hand.in + 1 > hand.st THEN hand.st ELSE hand.in + 1
    BY <1>4, <1>t DEF HandlerRead, HandlerState
  <2>3. /\ hand'.st = written' /\ hand'.posNext = hand'.in
        /\ hand'.at = "push" => hand'.in \notin Blank
    BY <1>t, <2>1, <2>2
  <2>4. mark'.size <= written' /\ \A k \in DOMAIN buf' : buf'[k].size <= written'
    <3>1. CASE UNCHANGED pos
      BY <2>1, <3>1 DEF pos, MarksInTime
    <3>2. CASE MarkPos([pos |-> hand.posNext, size |-> hand.st])
      <4>1. mark'.size <= written
        BY <1>t, <3>2 DEF MarkPos, MarksInTime
      <4>2. buf' = <<[pos |-> hand.posNext, size |-> hand.st]>>
        BY <3>2 DEF MarkPos
      <4>3. \A k \in DOMAIN buf' : buf'[k].size = hand.st
        BY <4>2
      <4> QED  BY <1>t, <2>1, <4>1, <4>3
    <3> QED  BY <1>4, <3>1, <3>2 DEF HandlerRead
  <2> QED  BY <2>1, <2>3, <2>4 DEF MarksInTime
<1>5. CASE HandlerMark
  <2>1. /\ hand.at = "finish" /\ mark' = [pos |-> hand.posNext, size |-> hand.posNext]
        /\ buf' = <<>> /\ UNCHANGED <<written, base>> /\ hand'.at = "rest"
    BY <1>5, <1>t DEF HandlerMark, HandTo, file, HandlerState
  <2>2. hand.posNext <= written
    BY <1>t, <2>1 DEF PipeInv, InsideFile, MarksInTime
  <2>3. DOMAIN buf' = {}
    BY <2>1
  <2> QED  BY <1>t, <2>1, <2>2, <2>3 DEF MarksInTime
<1>6. CASE HandlerSkip \/ HandlerEnd \/ HandlerPush \/ HandlerFlag \/ HandlerExit
  <2>1. UNCHANGED <<written, base, mark, buf>>
    BY <1>6 DEF HandlerSkip, HandlerEnd, HandlerPush, HandlerFlag, HandlerExit, file, pos
  <2>2. \/ hand'.at \in {"rest", "none"}
        \/ /\ hand.at \in OpenAt /\ hand'.at \in OpenAt \ {"push"}
           /\ hand'.st = hand.st /\ hand'.in = hand.in /\ hand'.posNext = hand.posNext
    BY <1>6, <1>t DEF HandlerSkip, HandlerEnd, HandlerPush, HandlerFlag, HandlerExit,
       HandTo, NoHandler, OpenAt, HandlerState
  <2> QED  BY <2>1, <2>2 DEF MarksInTime, OpenAt
<1>7. CASE UNCHANGED vars \/ Transmit \/ Stop \/ HandlerStatFails \/ OnReportHandle
  <2>1. UNCHANGED <<written, base, mark, buf, hand>>
    BY <1>7 DEF vars, Transmit, Stop, HandlerStatFails, OnReportHandle, ReporterScan,
       ReporterSend, ReporterSendFails, ReporterClear, ReporterReset, ReporterCheck, file,
       pos
  <2> QED  BY <2>1 DEF MarksInTime
<1>8. ~Truncate /\ ~Crash /\ ~HandlerBackup /\ ~HandlerOpenFails
  BY DEF Truncate, Crash, HandlerBackup, HandlerOpenFails, Fault, TypeOK
<1> QED
  BY <1>1, <1>2, <1>3, <1>4, <1>5, <1>6, <1>7, <1>8 DEF Next, OnFilelogHandle

\* What counts as taken grows line by line: by a line that is pushed, or by an empty
\* one.
LEMMA TakenGrows ==
  ASSUME TypeOK, PipeInv, TypeOK', Undisturbed, MarksInTime, [Next]_vars
  PROVE  /\ Taken \in Nat
         /\ HandlerPush => Taken' = Taken + 1 /\ hand.in = Taken + 1
                           /\ hand.in \notin Blank /\ base = 0
         /\ ~HandlerPush => \/ Taken' = Taken
                            \/ Taken' = Taken + 1 /\ Taken + 1 \in Blank
<1> USE DEF Undisturbed
<1>t. /\ hand \in HandlerState /\ mark.pos \in Nat /\ base = 0 /\ written \in Nat
      /\ hand.in \in Nat /\ (hand.at = "push" => hand.in >= 1)
      /\ MaxLines \in Nat /\ mark.size <= written
  <2>1. MaxLines \in Nat
    BY FileLogAssumption
  <2> QED  BY <2>1 DEF TypeOK, MarksInTime, HandlerState, Offsets, Record, PipeInv,
              InsideFile
<1>1. Taken \in Nat
  BY <1>t DEF Taken
<1>2. CASE HandlerPush
  <2>1. hand.at = "push" /\ hand'.at = "read" /\ hand'.in = hand.in
    BY <1>2, <1>t DEF HandlerPush, HandTo, HandlerState
  <2>2. hand.in \notin Blank
    BY <2>1 DEF MarksInTime
  <2> QED  BY <1>1, <1>2, <1>t, <2>1, <2>2 DEF Taken
<1>3. CASE HandlerRead
  <2>1. /\ hand.at = "read" /\ hand'.in = hand.in + 1
        /\ hand'.at = IF hand.in + 1 \in Blank THEN "read" ELSE "push"
    BY <1>3, <1>t DEF HandlerRead, HandlerState
  <2>2. ~HandlerPush
    BY <2>1 DEF HandlerPush
  <2> QED  BY <1>1, <1>t, <2>1, <2>2 DEF Taken
<1>4. CASE HandlerOpen
  <2>1. /\ hand.at = "rest" /\ mark' = mark /\ ~HandlerPush
        /\ hand'.at \in {"already", "read"}
        /\ hand'.at = "read" => hand'.in = mark.pos
    <3>1. ~(~bLargeLog \/ mark.size > st_size)
      <4>1. mark.size \in Int /\ written \in Int
        BY <1>t DEF TypeOK, Record, Offsets
      <4>2. st_size = written
        BY <1>t DEF st_size
      <4>3. bLargeLog
        BY DEF TypeOK
      <4> QED  BY <1>t, <4>1, <4>2, <4>3
    <3>2. /\ hand.at = "rest" /\ mark' = mark
          /\ hand' = [hand EXCEPT !.at = "already"] \/ BeginAt(mark.pos)
      BY <1>4, <3>1 DEF HandlerOpen, RoundBegins, HandTo, pos
    <3>3. CASE BeginAt(mark.pos)
      BY <3>2, <3>3 DEF BeginAt, HandlerPush
    <3>4. CASE hand' = [hand EXCEPT !.at = "already"]
      <4>1. hand'.at = "already"
        BY <1>t, <3>4 DEF HandlerState
      <4> QED  BY <3>2, <4>1 DEF HandlerPush
    <3> QED  BY <3>2, <3>3, <3>4
  <2> QED  BY <1>1, <2>1 DEF Taken
<1>5. CASE HandlerMark
  <2>1. /\ hand.at = "finish" /\ mark' = [pos |-> hand.posNext, size |-> hand.posNext]
        /\ hand'.at = "rest" /\ ~HandlerPush
    BY <1>5, <1>t DEF HandlerMark, HandTo, HandlerState, HandlerPush
  <2>2. hand.posNext = hand.in
    BY <2>1 DEF MarksInTime
  <2> QED  BY <1>1, <2>1, <2>2 DEF Taken
<1>6. CASE HandlerSkip \/ HandlerEnd \/ HandlerFlag \/ HandlerExit \/ Start
  <2>1. /\ mark' = mark /\ ~HandlerPush
        /\ \/ hand.at \in {"none", "rest", "already"} /\ hand'.at \in {"none", "rest"}
           \/ /\ hand.at \in {"read", "eof"} /\ hand'.at \in {"eof", "finish"}
              /\ hand'.in = hand.in
    BY <1>6, <1>t DEF HandlerSkip, HandlerEnd, HandlerFlag, HandlerExit, Start, HandTo,
       NoHandler, HandlerPush, HandlerState, pos
  <2> QED  BY <1>1, <2>1 DEF Taken
<1>7. CASE \/ Write \/ UNCHANGED vars \/ Transmit \/ Stop \/ HandlerStatFails
           \/ OnReportHandle
  <2>1. UNCHANGED <<mark, hand>>
    BY <1>7 DEF Write, vars, Transmit, Stop, HandlerStatFails, OnReportHandle, ReporterScan,
       ReporterSend, ReporterSendFails, ReporterClear, ReporterReset, ReporterCheck, pos
  <2>2. ~HandlerPush
    BY <1>t, <2>1 DEF HandlerPush, HandTo, HandlerState
  <2> QED  BY <1>1, <2>1, <2>2 DEF Taken
<1>8. ~Truncate /\ ~Crash /\ ~HandlerBackup /\ ~HandlerOpenFails
  BY DEF Truncate, Crash, HandlerBackup, HandlerOpenFails, Fault, TypeOK
<1> QED
  BY <1>2, <1>3, <1>4, <1>5, <1>6, <1>7, <1>8 DEF Next, OnFilelogHandle

\* Only a zmq_send that fails makes the plugin's log tell of a line.
LEMMA RefusedStays ==
  ASSUME [Next]_vars, ~ReporterSendFails
  PROVE  refused' = refused
BY DEF Next, Write, Truncate, Transmit, Crash, Start, Stop, OnFilelogHandle, HandlerOpen,
   HandlerOpenFails, HandlerStatFails, HandlerSkip, HandlerRead, HandlerEnd, HandlerPush,
   HandlerFlag, HandlerMark, HandlerBackup, HandlerExit, OnReportHandle, ReporterScan,
   ReporterSend, ReportData, ReporterClear, ReporterReset, ReporterCheck, socket, vars

\* A line that is refused leaves the stream, whose order stays.
LEMMA RefusedStep ==
  ASSUME TypeOK, PipeInv, StreamInOrder, ReporterSendFails
  PROVE  /\ \A i, j \in DOMAIN Stream' : i < j => Stream'[i] < Stream'[j]
         /\ Elements(Stream') \union refused' = Elements(Stream) \union refused
<1>1. sent \in Seq(Lines) /\ Pending \in Seq(Lines)
  BY PendingType DEF TypeOK
<1>2. /\ Pending # <<>> /\ Head(Pending) = vec_log[rep.i] /\ Pending' = Tail(Pending)
  BY TurnsToOldest DEF ReporterSendFails
<1>3. sent' = sent /\ refused' = refused \union {Head(Pending)}
  BY <1>2 DEF ReporterSendFails
<1> DEFINE m == Len(sent)
           n == Len(sent) + Len(Pending)
           old(k) == IF k <= m THEN k ELSE k + 1
           before == sent \o Pending
           after == sent \o Tail(Pending)
<1>4. Stream = before /\ Stream' = after
  BY <1>2, <1>3 DEF Stream
<1>5. /\ m \in Nat /\ n \in Nat /\ n >= m + 1
      /\ DOMAIN before = 1 .. n /\ DOMAIN after = 1 .. n - 1
      /\ before[m + 1] = Head(Pending)
      /\ \A k \in 1 .. n - 1 : after[k] = before[old(k)]
  <2>1. /\ Len(sent) \in Nat /\ Len(Pending) \in Nat /\ Len(Pending) >= 1
        /\ DOMAIN (sent \o Pending) = 1 .. Len(sent) + Len(Pending)
        /\ DOMAIN (sent \o Tail(Pending)) = 1 .. Len(sent) + Len(Pending) - 1
        /\ (sent \o Pending)[Len(sent) + 1] = Head(Pending)
        /\ \A k \in 1 .. Len(sent) + Len(Pending) - 1 :
             (sent \o Tail(Pending))[k] =
               (sent \o Pending)[IF k <= Len(sent) THEN k ELSE k + 1]
    BY <1>1, <1>2, WithoutHead
  <2>2. n >= m + 1 /\ n \in Nat
    BY <2>1
  <2>3. ASSUME NEW k \in 1 .. n - 1
        PROVE  after[k] = before[old(k)]
    BY <2>1
  <2>4. /\ DOMAIN before = 1 .. n /\ DOMAIN after = 1 .. n - 1
        /\ before[m + 1] = Head(Pending)
    BY <2>1
  <2> QED  BY <2>1, <2>2, <2>3, <2>4
<1> HIDE DEF m, n, before, after
<1>6. \A k \in 1 .. n - 1 : old(k) \in 1 .. n /\ old(k) # m + 1
  BY <1>5
<1>7. \A i, j \in 1 .. n - 1 : i < j => old(i) < old(j)
  BY <1>5
<1>8. \A i, j \in DOMAIN Stream' : i < j => Stream'[i] < Stream'[j]
  <2> SUFFICES ASSUME NEW i \in 1 .. n - 1, NEW j \in 1 .. n - 1, i < j
               PROVE  before[old(i)] < before[old(j)]
    BY <1>4, <1>5
  <2> QED  BY <1>4, <1>5, <1>6, <1>7 DEF StreamInOrder
<1>9. \A k \in 1 .. n : k = m + 1 \/ \E l \in 1 .. n - 1 : k = old(l)
  <2> SUFFICES ASSUME NEW k \in 1 .. n, k # m + 1
               PROVE  \E l \in 1 .. n - 1 : k = old(l)
    OBVIOUS
  <2>1. CASE k <= m
    <3>1. k \in 1 .. n - 1 /\ k = old(k)
      BY <1>5, <2>1
    <3> QED  BY <3>1
  <2>2. CASE k > m
    <3>1. k - 1 \in 1 .. n - 1 /\ k = old(k - 1)
      BY <1>5, <2>2
    <3> QED  BY <3>1
  <2> QED  BY <1>5, <2>1, <2>2
<1>10. m + 1 \in 1 .. n
  BY <1>5
<1> HIDE DEF old
<1>11. Elements(before) = Elements(after) \union {Head(Pending)}
  <2>1. ASSUME NEW k \in 1 .. n
        PROVE  before[k] \in Elements(after) \union {Head(Pending)}
    <3>1. CASE k = m + 1
      BY <1>5, <3>1
    <3>2. ASSUME NEW l \in 1 .. n - 1, k = old(l)
          PROVE  before[k] \in Elements(after)
      BY <1>5, <3>2 DEF Elements
    <3> QED  BY <1>9, <3>1, <3>2
  <2>2. ASSUME NEW l \in 1 .. n - 1
        PROVE  after[l] \in Elements(before)
    BY <1>5, <1>6 DEF Elements
  <2>3. Head(Pending) \in Elements(before)
    BY <1>5, <1>10 DEF Elements
  <2>4. Elements(before) \subseteq Elements(after) \union {Head(Pending)}
    BY <1>5, <2>1 DEF Elements
  <2>5. Elements(after) \subseteq Elements(before)
    BY <1>5, <2>2 DEF Elements
  <2> QED  BY <2>3, <2>4, <2>5
<1> QED  BY <1>3, <1>4, <1>8, <1>11

\* The stream stays in order and complete.
LEMMA StreamStep ==
  ASSUME TypeOK, PipeInv, TypeOK', Undisturbed, OnceInv, [Next]_vars
  PROVE  StreamInOrder'
<1>1. Taken \in Nat
  BY TakenGrows DEF OnceInv
<1>2. Stream \in Seq(Lines)
  BY PendingType, ConcatProperties DEF Stream, TypeOK
<1>s. ReporterSendFails => ~HandlerPush
  BY DEF ReporterSendFails, HandlerPush, HandTo, TypeOK, HandlerState
<1>r. ~ReporterSendFails => refused' = refused
  BY RefusedStays
<1>3. CASE HandlerPush
  <2>1. Stream' = Append(Stream, Taken + 1) /\ Taken' = Taken + 1 /\ Taken + 1 \notin Blank
    <3>1. Stream' = Append(Stream, base + hand.in)
      BY <1>3, <1>s, StreamGrows
    <3> QED  BY <1>1, <1>3, <3>1, TakenGrows DEF OnceInv
  <2> DEFINE n == Len(Stream)
  <2>2. /\ n \in Nat /\ DOMAIN Stream = 1 .. n /\ DOMAIN Stream' = 1 .. n + 1
        /\ \A i \in 1 .. n : Stream'[i] = Stream[i]
        /\ Stream'[n + 1] = Taken + 1
    BY <1>2, <2>1, LenProperties
  <2>3. \A i \in 1 .. n : Stream[i] \in 1 .. Taken
    BY <2>2 DEF OnceInv, StreamInOrder, Elements
  <2>4. \A i \in 1 .. n + 1 : i \in 1 .. n \/ i = n + 1
    BY <2>2
  <2>5. \A i, j \in 1 .. n + 1 : i < j => Stream'[i] < Stream'[j]
    <3> SUFFICES ASSUME NEW i \in 1 .. n + 1, NEW j \in 1 .. n + 1, i < j
                 PROVE  Stream'[i] < Stream'[j]
      OBVIOUS
    <3>1. i \in 1 .. n
      BY <2>2
    <3>2. CASE j = n + 1
      BY <1>1, <2>2, <2>3, <3>1, <3>2
    <3>3. CASE j \in 1 .. n
      BY <2>2, <3>1, <3>3 DEF OnceInv, StreamInOrder
    <3> QED  BY <2>4, <3>2, <3>3
  <2>6. Elements(Stream') = Elements(Stream) \union {Taken + 1}
    <3> HIDE DEF n
    <3>1. n + 1 \in 1 .. n + 1 /\ \A i \in 1 .. n : i \in 1 .. n + 1
      BY <2>2
    <3> QED  BY <2>2, <2>4, <3>1 DEF Elements
  <2>7. (1 .. Taken + 1) \ Blank = ((1 .. Taken) \ Blank) \union {Taken + 1}
    BY <1>1, <2>1
  <2>8. Elements(Stream') \union refused' = (1 .. Taken') \ Blank
    BY <1>3, <1>s, <1>r, <2>1, <2>6, <2>7 DEF OnceInv, StreamInOrder
  <2> QED  BY <2>2, <2>5, <2>8 DEF StreamInOrder, Elements
<1>4. CASE ~HandlerPush
  <2>1. \/ Stream' = Stream /\ refused' = refused
        \/ /\ \A i, j \in DOMAIN Stream' : i < j => Stream'[i] < Stream'[j]
           /\ Elements(Stream') \union refused' = Elements(Stream) \union refused
    BY <1>4, <1>r, StreamGrows, RefusedStep DEF OnceInv
  <2>2. (1 .. Taken') \ Blank = (1 .. Taken) \ Blank
    <3>1. CASE Taken' = Taken
      BY <3>1
    <3>2. CASE Taken' = Taken + 1 /\ Taken + 1 \in Blank
      BY <1>1, <3>2
    <3> QED  BY <1>4, <3>1, <3>2, TakenGrows DEF OnceInv
  <2> QED  BY <2>1, <2>2 DEF OnceInv, StreamInOrder, Elements
<1> QED  BY <1>3, <1>4

LEMMA OnceInit == Init => OnceInv
<1> SUFFICES ASSUME Init PROVE OnceInv
  OBVIOUS
<1>1. Stream = <<>> /\ DOMAIN <<>> = {} /\ refused = {}
  BY DEF Init, Stream, Pending, NoReporter
<1>2. Taken = 0
  BY DEF Init, Taken, NoHandler, NewRecord
<1>3. StreamInOrder
  BY <1>1, <1>2 DEF StreamInOrder, Elements
<1>4. MarksInTime
  BY <1>1 DEF Init, MarksInTime, NoHandler, NewRecord
<1> QED  BY <1>3, <1>4 DEF OnceInv

\* What has been sent and what waits is at every moment all that has been read of the
\* file, but for empty lines, in order (OnFilelogHandle and OnReportHandle).
THEOREM OrderSafe == ASSUME Undisturbed PROVE Spec => []OnceInv
<1>1. Init => OnceInv
  BY OnceInit
<1>2. FileLogInv /\ FileLogInv' /\ OnceInv /\ [Next]_vars => OnceInv'
  BY MarksStep, StreamStep DEF FileLogInv, OnceInv
<1> QED  BY <1>1, <1>2, PipeSafe, PTL DEF Spec

\* No line of an undisturbed file is sent twice.
THEOREM OnceSafe == ASSUME Undisturbed PROVE Spec => []SentOnce
<1>1. FileLogInv /\ OnceInv => SentOnce
  <2> SUFFICES ASSUME FileLogInv, OnceInv, NEW i \in DOMAIN sent, NEW j \in DOMAIN sent,
                      sent[i] = sent[j]
               PROVE  i = j
    BY DEF SentOnce
  <2>1. sent \in Seq(Lines) /\ Pending \in Seq(Lines)
    BY PendingType DEF FileLogInv, TypeOK
  <2>2. /\ DOMAIN sent = 1 .. Len(sent) /\ Len(sent) \in Nat /\ Len(Pending) \in Nat
        /\ DOMAIN Stream = 1 .. Len(sent) + Len(Pending)
        /\ \A k \in DOMAIN sent : Stream[k] = sent[k]
    <3>1. /\ Stream \in Seq(Lines) /\ Len(Stream) = Len(sent) + Len(Pending)
          /\ \A k \in 1 .. Len(sent) + Len(Pending) :
               Stream[k] = IF k <= Len(sent) THEN sent[k] ELSE Pending[k - Len(sent)]
      BY <2>1, ConcatProperties DEF Stream
    <3>2. /\ DOMAIN sent = 1 .. Len(sent) /\ Len(sent) \in Nat /\ Len(Pending) \in Nat
          /\ DOMAIN Stream = 1 .. Len(Stream)
      BY <2>1, <3>1, LenProperties
    <3> QED  BY <3>1, <3>2
  <2>3. i \in DOMAIN Stream /\ j \in DOMAIN Stream /\ Stream[i] = Stream[j]
    BY <2>2
  <2>4. Stream[i] \in Int
    <3>1. i \in 1 .. Len(sent) /\ Stream[i] = sent[i] /\ sent[i] \in Lines
      BY <2>1, <2>2, ElementOfSeq
    <3> QED  BY <3>1, FileLogAssumption DEF Lines
  <2>5. ~(i < j) /\ ~(j < i)
    BY <2>3, <2>4 DEF OnceInv, StreamInOrder
  <2> QED  BY <2>2, <2>5
<1> QED  BY <1>1, PipeSafe, OrderSafe, PTL

\* A file that the handler leaves alone as sent already has been sent, or waits in
\* vec_log, to its last line, but for lines that the plugin's log tells of.
THEOREM AlreadySafe == ASSUME Undisturbed PROVE Spec => []AlreadySent
<1>1. FileLogInv /\ OnceInv => AlreadySent
  <2> SUFFICES ASSUME FileLogInv, OnceInv, hand.at = "already"
               PROVE  Covered \subseteq Delivered \union refused \union Elements(Pending)
    BY DEF AlreadySent
  <2>1. Covered = Elements(Stream) \union refused
    BY DEF Covered, OnceInv, StreamInOrder, MarksInTime, Taken, FileLogInv, TypeOK,
       Record, Offsets
  <2>2. sent \in Seq(Lines) /\ Pending \in Seq(Lines)
    BY PendingType DEF FileLogInv, TypeOK
  <2>3. ASSUME NEW k \in DOMAIN Stream
        PROVE  Stream[k] \in Delivered \union Elements(Pending)
    <3>1. /\ Stream \in Seq(Lines) /\ Len(Stream) = Len(sent) + Len(Pending)
          /\ \A n \in 1 .. Len(sent) + Len(Pending) :
               Stream[n] = IF n <= Len(sent) THEN sent[n] ELSE Pending[n - Len(sent)]
      BY <2>2, ConcatProperties DEF Stream
    <3>2. /\ DOMAIN sent = 1 .. Len(sent) /\ Len(sent) \in Nat
          /\ DOMAIN Pending = 1 .. Len(Pending) /\ Len(Pending) \in Nat
          /\ k \in 1 .. Len(sent) + Len(Pending)
      BY <2>2, <3>1, LenProperties
    <3>3. CASE k <= Len(sent)
      BY <3>1, <3>2, <3>3 DEF Delivered, Elements
    <3>4. CASE k > Len(sent)
      <4>1. k - Len(sent) \in DOMAIN Pending /\ Stream[k] = Pending[k - Len(sent)]
        BY <3>1, <3>2, <3>4
      <4> QED  BY <4>1 DEF Elements
    <3> QED  BY <3>2, <3>3, <3>4
  <2> QED  BY <2>1, <2>3 DEF Elements
<1> QED  BY <1>1, PipeSafe, OrderSafe, PTL

-----------------------------------------------------------------------------
(* What a crash repeats: nCount is the distance from the last mark *)

LEMMA RepeatStep ==
  ASSUME TypeOK, PipeInv, RepeatSound, [Next]_vars
  PROVE  RepeatSound'
<1> SUFFICES ASSUME bLargeLog', ~GrowWhileRead
             PROVE  RepeatSound'
  BY DEF RepeatSound
<1>b. bLargeLog
  BY DEF Next, Write, Truncate, Transmit, Crash, Start, Stop, OnFilelogHandle, HandlerOpen,
     HandlerOpenFails, HandlerStatFails, HandlerSkip, HandlerRead, HandlerEnd, HandlerPush,
     HandlerFlag, HandlerMark, HandlerBackup, MoveAway, HandlerExit, OnReportHandle,
     ReporterScan, ReporterSend, ReporterSendFails, ReporterClear, ReporterReset,
     ReporterCheck, file, vars
<1> USE <1>b
<1>t. /\ hand \in HandlerState /\ hand.in \in Int /\ hand.st \in Int /\ hand.nCount \in Int
      /\ hand.posNext \in Int /\ mark.pos \in Int /\ written \in Int /\ base \in Int
      /\ hand.nCount <= WRITE_RATE /\ WRITE_RATE \in Int /\ 1 <= WRITE_RATE
      /\ (buf # <<>> => buf[1].pos \in Int)
  <2>1. MaxLines \in Nat /\ WRITE_RATE \in Nat \ {0}
    BY FileLogAssumption
  <2>2. buf # <<>> => buf[1] \in Record
    BY DEF TypeOK
  <2> QED  BY <2>1, <2>2 DEF TypeOK, HandlerState, Offsets, Record
<1>1. CASE HandlerRead
  <2> DEFINE due == hand.nCount >= WRITE_RATE
             last == IF buf = <<>> THEN mark ELSE buf[1]
  <2>1. /\ hand.at = "read" /\ hand.in < st_size /\ st_size' = st_size
        /\ hand'.at \in {"read", "push"} /\ hand'.in = hand.in + 1 /\ hand'.st = hand.st
        /\ hand'.posNext = (IF hand.in + 1 > hand.st THEN hand.st ELSE hand.in + 1)
        /\ hand'.nCount = (IF due THEN 1 ELSE hand.nCount + 1)
    BY <1>1, <1>t DEF HandlerRead, HandlerState, file, st_size
  <2>2. /\ hand.st = st_size /\ hand.posNext = hand.in
        /\ hand.in - last.pos <= hand.nCount /\ last.pos - mark.pos <= WRITE_RATE
    BY <2>1 DEF RepeatSound
  <2>3. hand'.posNext = hand'.in
    BY <1>t, <2>1, <2>2 DEF st_size
  <2>4. CASE due
    <3>1. mark' = last /\ buf' = <<[pos |-> hand.posNext, size |-> hand.st]>>
      BY <1>1, <2>4 DEF HandlerRead, MarkPos
    <3>2. buf' # <<>> /\ buf'[1].pos = hand.in
      BY <2>2, <3>1
    <3>3. hand'.in - buf'[1].pos <= hand'.nCount /\ buf'[1].pos - mark'.pos <= WRITE_RATE
      BY <1>t, <2>1, <2>2, <2>4, <3>1, <3>2
    <3> QED  BY <2>1, <2>2, <2>3, <3>2, <3>3 DEF RepeatSound
  <2>5. CASE ~due
    <3>1. mark' = mark /\ buf' = buf
      BY <1>1, <2>5 DEF HandlerRead, pos
    <3>2. hand'.in - last.pos <= hand'.nCount
      BY <1>t, <2>1, <2>2, <2>5
    <3>3. hand'.st = st_size'
      BY <2>1, <2>2
    <3> QED  BY <2>1, <2>2, <2>3, <3>1, <3>2, <3>3 DEF RepeatSound
  <2> QED  BY <2>4, <2>5
<1>2. CASE HandlerOpen
  <2>1. buf = <<>> /\ UNCHANGED <<mark, buf, written, base>>
    BY <1>2 DEF HandlerOpen, RoundBegins, RepeatSound, file, pos
  <2>2. hand'.at = "already" \/ BeginAt(0) \/ BeginAt(mark.pos)
    BY <1>2, <1>t DEF HandlerOpen, HandTo, HandlerState
  <2>3. CASE hand'.at = "already"
    BY <2>1, <2>3 DEF RepeatSound
  <2>4. CASE BeginAt(0) \/ BeginAt(mark.pos)
    <3>1. /\ hand'.at = "read" /\ hand'.st = st_size /\ hand'.posNext = hand'.in
          /\ hand'.nCount = 0 /\ (hand'.in = 0 \/ hand'.in = mark.pos)
      BY <2>4 DEF BeginAt
    <3>2. mark.pos >= 0
      BY DEF TypeOK, Record, Offsets
    <3>3. hand'.in - mark.pos <= hand'.nCount /\ mark.pos - mark.pos <= WRITE_RATE
      BY <1>t, <3>1, <3>2
    <3> QED  BY <2>1, <3>1, <3>3 DEF RepeatSound, st_size
  <2> QED  BY <2>2, <2>3, <2>4
<1>3. CASE HandlerPush
  <2>1. /\ hand.at = "push" /\ hand' = [hand EXCEPT !.at = "read"]
        /\ UNCHANGED <<mark, buf, written, base>>
    BY <1>3 DEF HandlerPush, HandTo, file, pos
  <2>2. /\ hand'.at = "read" /\ hand'.in = hand.in /\ hand'.st = hand.st
        /\ hand'.posNext = hand.posNext /\ hand'.nCount = hand.nCount
    BY <1>t, <2>1 DEF HandlerState
  <2> QED  BY <2>1, <2>2 DEF RepeatSound, st_size
<1>4. CASE HandlerEnd \/ HandlerFlag
  <2>1. hand'.at \in {"eof", "finish"}
    BY <1>4, <1>t DEF HandlerEnd, HandlerFlag, HandTo, HandlerState
  <2> QED  BY <2>1 DEF RepeatSound
<1>5. CASE HandlerMark \/ Crash
  <2>1. buf' = <<>> /\ hand'.at \in {"rest", "none"}
    BY <1>5, <1>t DEF HandlerMark, Crash, HandTo, HandlerState, NoHandler
  <2> QED  BY <2>1 DEF RepeatSound
<1>6. CASE HandlerSkip \/ HandlerExit \/ Start
  <2>1. /\ hand.at \in {"already", "rest", "none"} /\ hand'.at \in {"rest", "none"}
        /\ buf' = buf
    BY <1>6, <1>t DEF HandlerSkip, HandlerExit, Start, HandTo, HandlerState, NoHandler, pos
  <2> QED  BY <2>1 DEF RepeatSound
<1>7. CASE Write \/ Truncate \/ HandlerOpenFails
  <2>1. hand.at \in {"none", "rest", "already"} /\ UNCHANGED <<hand, mark, buf>>
    BY <1>7 DEF Write, Truncate, HandlerOpenFails, RoundBegins, pos
  <2> QED  BY <2>1 DEF RepeatSound
<1>8. CASE Transmit \/ Stop \/ HandlerStatFails \/ OnReportHandle \/ UNCHANGED vars
  <2>1. UNCHANGED <<hand, mark, buf, written, base>>
    BY <1>8 DEF Transmit, Stop, HandlerStatFails, OnReportHandle, ReporterScan,
       ReporterSend, ReporterSendFails, ReporterClear, ReporterReset, ReporterCheck, vars,
       file, pos
  <2> QED  BY <2>1 DEF RepeatSound, st_size
<1>9. ~HandlerBackup
  BY DEF HandlerBackup
<1> QED
  BY <1>1, <1>2, <1>3, <1>4, <1>5, <1>6, <1>7, <1>8, <1>9 DEF Next, OnFilelogHandle

\* Where positions are kept and the file does not grow while it is read, the handler is
\* never further from the mark in posList.pos than the lines of two marks.
THEOREM RepeatBounded ==
  ASSUME ~GrowWhileRead
  PROVE  Spec => []BoundedRepeat
<1>1. Init => RepeatSound
  BY DEF Init, RepeatSound, NoHandler
<1>2. FileLogInv /\ RepeatSound /\ [Next]_vars => RepeatSound'
  BY RepeatStep DEF FileLogInv
<1>3. FileLogInv /\ RepeatSound => BoundedRepeat
  <2> SUFFICES ASSUME FileLogInv, RepeatSound, bLargeLog, hand.at \in {"read", "push"}
               PROVE  hand.in - mark.pos <= 2 * WRITE_RATE
    BY DEF BoundedRepeat
  <2> DEFINE last == IF buf = <<>> THEN mark ELSE buf[1]
  <2>1. /\ hand.in - last.pos <= hand.nCount /\ last.pos - mark.pos <= WRITE_RATE
    BY DEF RepeatSound
  <2>2. /\ hand.in \in Int /\ hand.nCount \in Int /\ hand.nCount <= WRITE_RATE
        /\ mark.pos \in Int /\ last.pos \in Int /\ WRITE_RATE \in Int
    <3>1. MaxLines \in Nat /\ WRITE_RATE \in Nat \ {0}
      BY FileLogAssumption
    <3>2. last \in Record
      BY DEF FileLogInv, TypeOK
    <3> QED  BY <3>1, <3>2 DEF FileLogInv, TypeOK, HandlerState, Offsets, Record
  <2> HIDE DEF last
  <2> QED  BY <2>1, <2>2
<1> QED  BY <1>1, <1>2, <1>3, PipeSafe, PTL DEF Spec

-----------------------------------------------------------------------------
(* What is lost: each fault costs a batch and a send queue at most *)

LEMMA ElementsAppend ==
  ASSUME NEW S, NEW s \in Seq(S), NEW x \in S
  PROVE  Elements(Append(s, x)) = Elements(s) \union {x}
<1>1. /\ Len(s) \in Nat /\ DOMAIN s = 1 .. Len(s) /\ DOMAIN Append(s, x) = 1 .. Len(s) + 1
      /\ \A i \in 1 .. Len(s) : Append(s, x)[i] = s[i]
      /\ Append(s, x)[Len(s) + 1] = x
  BY AppendProperties, LenProperties
<1>2. \A i : i \in 1 .. Len(s) + 1 <=> i \in 1 .. Len(s) \/ i = Len(s) + 1
  BY <1>1
<1> QED  BY <1>1, <1>2 DEF Elements

LEMMA ElementsHead ==
  ASSUME NEW S, NEW s \in Seq(S), s # <<>>
  PROVE  Elements(s) = {Head(s)} \union Elements(Tail(s))
<1>1. /\ Len(s) \in Nat \ {0} /\ DOMAIN s = 1 .. Len(s) /\ Head(s) = s[1]
      /\ Tail(s) \in Seq(S) /\ Len(Tail(s)) = Len(s) - 1
      /\ \A i \in 1 .. Len(Tail(s)) : Tail(s)[i] = s[i + 1]
  BY HeadTailProperties, LenProperties, EmptySeq
<1>2. DOMAIN Tail(s) = 1 .. Len(s) - 1
  BY <1>1, LenProperties
<1>3. /\ \A i \in 1 .. Len(s) : i = 1 \/ (i - 1 \in 1 .. Len(s) - 1 /\ s[i] = Tail(s)[i - 1])
      /\ 1 \in 1 .. Len(s)
      /\ \A i \in 1 .. Len(s) - 1 : i + 1 \in 1 .. Len(s) /\ Tail(s)[i] = s[i + 1]
  BY <1>1
<1>4. /\ Elements(s) = {s[i] : i \in 1 .. Len(s)}
      /\ Elements(Tail(s)) = {Tail(s)[i] : i \in 1 .. Len(s) - 1}
  BY <1>1, <1>2 DEF Elements
<1>5. ASSUME NEW x \in Elements(s)
      PROVE  x \in {Head(s)} \union Elements(Tail(s))
  <2>1. PICK i \in 1 .. Len(s) : x = s[i]
    BY <1>4
  <2>2. i = 1 \/ (i - 1 \in 1 .. Len(s) - 1 /\ x = Tail(s)[i - 1])
    BY <1>3, <2>1
  <2> QED  BY <1>1, <1>4, <2>1, <2>2
<1>6. Head(s) \in Elements(s)
  BY <1>1, <1>3, <1>4
<1>7. ASSUME NEW x \in Elements(Tail(s))
      PROVE  x \in Elements(s)
  <2>1. PICK i \in 1 .. Len(s) - 1 : x = Tail(s)[i]
    BY <1>4
  <2>2. i + 1 \in 1 .. Len(s) /\ x = s[i + 1]
    BY <1>3, <2>1
  <2> QED  BY <1>4, <2>2
<1> QED  BY <1>5, <1>6, <1>7

LEMMA IntervalSize ==
  ASSUME NEW n \in Nat
  PROVE  IsFiniteSet(1 .. n) /\ Cardinality(1 .. n) = n
<1> DEFINE m == 1
<1>1. m \in Int /\ n \in Int
  OBVIOUS
<1> HIDE DEF m
<1>2. IsFiniteSet(m .. n) /\ Cardinality(m .. n) = (IF m > n THEN 0 ELSE n - m + 1)
  BY <1>1, FS_Interval
<1> QED  BY <1>2 DEF m

LEMMA ElementsFew ==
  ASSUME NEW S, NEW s \in Seq(S)
  PROVE  /\ IsFiniteSet(Elements(s)) /\ Cardinality(Elements(s)) \in Nat
         /\ Cardinality(Elements(s)) <= Len(s) /\ Len(s) \in Nat
<1>1. Len(s) \in Nat /\ DOMAIN s = 1 .. Len(s)
  BY LenProperties
<1>2. s \in Surjection(1 .. Len(s), Elements(s))
  <2>1. s \in [1 .. Len(s) -> Elements(s)]
    BY <1>1 DEF Elements
  <2> QED  BY <1>1, <2>1 DEF Surjection, Elements
<1>3. IsFiniteSet(1 .. Len(s)) /\ Cardinality(1 .. Len(s)) = Len(s)
  BY <1>1, IntervalSize
<1> QED  BY <1>1, <1>2, <1>3, FS_Surjection, FS_CardinalityType

\* No more lines wait in vec_log than make a batch.
LEMMA PendingFew ==
  ASSUME TypeOK, PipeInv
  PROVE  /\ IsFiniteSet(Elements(Pending)) /\ Cardinality(Elements(Pending)) \in Nat
         /\ Cardinality(Elements(Pending)) <= nReadLineNum
<1>1. vec_log \in Seq(Lines) /\ Len(vec_log) \in Nat /\ DOMAIN vec_log = 1 .. Len(vec_log)
      /\ Len(vec_log) <= nReadLineNum /\ nReadLineNum \in Nat
  BY LenProperties, FileLogAssumption DEF TypeOK, PipeInv, BatchBounded
<1>2. /\ IsFiniteSet(Elements(vec_log))
      /\ Cardinality(Elements(vec_log)) <= Len(vec_log)
      /\ Cardinality(Elements(vec_log)) \in Nat
  BY <1>1, ElementsFew
<1>3. Elements(Pending) \subseteq Elements(vec_log)
  <2>1. CASE rep.at = "send"
    <3>1. rep.i \in Nat /\ rep.i >= 1 /\ Pending = SubSeq(vec_log, rep.i, Len(vec_log))
      BY <1>1, <2>1 DEF Pending, PipeInv, ReporterInside
    <3>2. CASE rep.i > Len(vec_log)
      <4>1. Pending = <<>>
        BY <1>1, <3>1, <3>2, SubSeqEmpty
      <4> QED  BY <4>1 DEF Elements
    <3>3. CASE rep.i <= Len(vec_log)
      <4>1. \A i \in rep.i .. Len(vec_log) : vec_log[i] \in Lines
        BY <1>1, <3>1, ElementOfSeq
      <4>2. /\ Len(Pending) = Len(vec_log) - rep.i + 1
            /\ \A i \in 1 .. Len(vec_log) - rep.i + 1 : Pending[i] = vec_log[rep.i + i - 1]
        BY <1>1, <3>1, <3>3, <4>1, SubSeqProperties
      <4>3. DOMAIN Pending = 1 .. Len(vec_log) - rep.i + 1
        BY <4>2, PendingType, LenProperties
      <4>4. \A i \in 1 .. Len(vec_log) - rep.i + 1 : rep.i + i - 1 \in 1 .. Len(vec_log)
        BY <1>1, <3>1, <3>3
      <4>5. ASSUME NEW i \in DOMAIN Pending
            PROVE  Pending[i] \in Elements(vec_log)
        BY <1>1, <4>2, <4>3, <4>4 DEF Elements
      <4> QED  BY <4>5 DEF Elements
    <3> QED  BY <1>1, <3>1, <3>2, <3>3
  <2>2. CASE rep.at # "send"
    BY <2>2 DEF Pending
  <2> QED  BY <2>1, <2>2
<1>4. /\ IsFiniteSet(Elements(Pending)) /\ Cardinality(Elements(Pending)) \in Nat
      /\ Cardinality(Elements(Pending)) <= Cardinality(Elements(vec_log))
  BY <1>2, <1>3, FS_Subset, FS_CardinalityType
<1> QED  BY <1>1, <1>2, <1>4

\* What has left the process or waits becomes more with a line that is pushed, and less
\* only in a crash, a start or with a zmq_send that fails.
LEMMA GotGrows ==
  ASSUME TypeOK, PipeInv, TypeOK', [Next]_vars, ~Crash, ~Start, ~ReporterSendFails
  PROVE  (wire \union Waiting)' =
            wire \union Waiting \union (IF HandlerPush THEN {base + hand.in} ELSE {})
<1>1. Pending \in Seq(Lines) /\ outq \in Seq(Lines)
  BY PendingType DEF TypeOK
<1>e. /\ Waiting = Elements(outq) \union Elements(Pending)
      /\ Waiting' = Elements(outq') \union Elements(Pending')
  BY DEF Waiting, Elements
<1>2. CASE HandlerPush
  <2>1. /\ rep.at \notin {"send", "reset"} /\ rep' = rep
        /\ outq' = outq /\ wire' = wire
    BY <1>2 DEF HandlerPush, socket, PipeInv, HandoffExclusive
  <2>2. Pending' = Append(Pending, base + hand.in)
    BY <1>2, <2>1 DEF HandlerPush, Pending
  <2>3. base + hand.in \in Lines
    <3>1. MaxLines \in Nat
      BY FileLogAssumption
    <3> QED  BY <1>2, <3>1 DEF HandlerPush, TypeOK, HandlerState, Lines, Offsets,
                PipeInv, InsideFile
  <2>4. Elements(Pending') = Elements(Pending) \union {base + hand.in}
    BY <1>1, <2>2, <2>3, ElementsAppend
  <2> QED  BY <1>2, <1>e, <2>1, <2>4
<1>3. CASE ReporterSend
  <2>1. /\ Pending # <<>> /\ Pending' = Tail(Pending)
        /\ outq' = Append(outq, Head(Pending)) /\ wire' = wire
    <3>1. /\ Pending # <<>> /\ Head(Pending) = vec_log[rep.i] /\ Tail(Pending) = Pending'
      BY <1>3, TurnsToOldest DEF ReporterSend
    <3> QED  BY <1>3, <3>1 DEF ReporterSend, ReportData
  <2>2. Head(Pending) \in Lines
    BY <1>1, <2>1, HeadTailProperties
  <2>3. /\ Elements(Pending) = {Head(Pending)} \union Elements(Tail(Pending))
        /\ Elements(Append(outq, Head(Pending))) = Elements(outq) \union {Head(Pending)}
    BY <1>1, <2>1, <2>2, ElementsHead, ElementsAppend
  <2>4. ~HandlerPush
    BY <1>3 DEF ReporterSend, HandlerPush, HandTo, TypeOK, HandlerState
  <2> QED  BY <1>e, <2>1, <2>3, <2>4
<1>4. CASE Transmit
  <2>1. /\ outq # <<>> /\ outq' = Tail(outq) /\ wire' = wire \union {Head(outq)}
        /\ vec_log' = vec_log /\ rep' = rep /\ hand' = hand
    BY <1>4 DEF Transmit
  <2>2. Pending' = Pending
    BY <2>1 DEF Pending
  <2>3. Elements(outq) = {Head(outq)} \union Elements(Tail(outq))
    BY <1>1, <2>1, ElementsHead
  <2>4. ~HandlerPush
    BY <2>1 DEF HandlerPush, HandTo, TypeOK, HandlerState
  <2> QED  BY <1>e, <2>1, <2>2, <2>3, <2>4
<1>5. CASE ~HandlerPush /\ ~ReporterSend /\ ~Transmit
  <2>1. UNCHANGED Pending
    BY <1>5, EmptiesOnly
  <2>2. UNCHANGED <<outq, wire>>
    BY <1>5 DEF Next, Write, Truncate, Stop, OnFilelogHandle, HandlerOpen,
       HandlerOpenFails, HandlerStatFails, HandlerSkip, HandlerRead, HandlerEnd,
       HandlerFlag, HandlerMark, HandlerBackup, HandlerExit, OnReportHandle, ReporterScan,
       ReporterClear, ReporterReset, ReporterCheck, socket, vars
  <2> QED  BY <1>5, <1>e, <2>1, <2>2
<1> QED  BY <1>2, <1>3, <1>4, <1>5

\* A zmq_send that fails loses the line that it was to send.
LEMMA FailureLoses ==
  ASSUME TypeOK, PipeInv, ReporterSendFails
  PROVE  wire \union Waiting \subseteq (wire \union Waiting)' \union {Head(Pending)}
<1>1. Pending \in Seq(Lines)
  BY PendingType
<1>2. Pending # <<>> /\ Pending' = Tail(Pending)
  BY TurnsToOldest DEF ReporterSendFails
<1>3. outq' = outq /\ wire' = wire
  BY DEF ReporterSendFails
<1>4. Elements(Pending) = {Head(Pending)} \union Elements(Tail(Pending))
  BY <1>1, <1>2, ElementsHead
<1>5. /\ Waiting = Elements(outq) \union Elements(Pending)
      /\ Waiting' = Elements(outq') \union Elements(Pending')
  BY DEF Waiting, Elements
<1> QED  BY <1>2, <1>3, <1>4, <1>5

\* Nothing new is claimed but the line that is pushed: a mark lies behind the handler,
\* and a handler that begins does so at a mark or at the beginning.
LEMMA ClaimedGrows ==
  ASSUME TypeOK, PipeInv, LossSound, [Next]_vars, base = 0
  PROVE  Claimed' \subseteq Claimed \union (IF HandlerPush THEN {hand.in} ELSE {})
<1>t. /\ hand \in HandlerState /\ hand.in \in Nat /\ hand.posNext \in Nat
      /\ mark.pos \in Nat /\ buf \in Seq(Record) /\ MaxLines \in Nat
      /\ (\A k \in DOMAIN buf : k = 1) /\ (buf # <<>> => 1 \in DOMAIN buf)
      /\ \A line \in Lines : line \in Nat /\ line >= 1
  <2>1. MaxLines \in Nat
    BY FileLogAssumption
  <2>2. buf \in Seq(Record) /\ Len(buf) \in Nat /\ Len(buf) <= 1 /\ DOMAIN buf = 1 .. Len(buf)
    BY LenProperties DEF TypeOK
  <2>3. buf # <<>> => Len(buf) = 1
    BY <2>2, EmptySeq
  <2> QED  BY <2>1, <2>2, <2>3 DEF TypeOK, HandlerState, Offsets, Record, Lines
<1> DEFINE Marked(line) == line <= mark.pos \/ \E k \in DOMAIN buf : line <= buf[k].pos
           Passed(line) == \/ hand.at \in {"read", "eof", "finish"} /\ line <= hand.in
                           \/ hand.at = "push" /\ line < hand.in
<1>a. \A line : line \in Claimed <=> line \in Lines \ Blank /\ (Marked(line) \/ Passed(line))
  BY DEF Claimed
<1>b. \A line : line \in Claimed' <=>
                  line \in Lines \ Blank /\ (Marked(line)' \/ Passed(line)')
  BY DEF Claimed
<1> HIDE DEF Marked, Passed
<1>1. CASE HandlerPush
  <2>1. /\ hand.at = "push" /\ hand'.at = "read" /\ hand'.in = hand.in
        /\ UNCHANGED <<mark, buf>>
    BY <1>1, <1>t DEF HandlerPush, HandTo, HandlerState, pos
  <2>2. \A line \in Lines : Passed(line)' => Passed(line) \/ line = hand.in
    BY <1>t, <2>1 DEF Passed
  <2>3. \A line : Marked(line)' <=> Marked(line)
    BY <2>1 DEF Marked
  <2> QED  BY <1>1, <1>a, <1>b, <2>2, <2>3
<1>2. CASE HandlerRead
  <2>1. /\ hand.at = "read" /\ hand'.in = hand.in + 1
        /\ hand'.at = IF hand.in + 1 \in Blank THEN "read" ELSE "push"
    BY <1>2, <1>t DEF HandlerRead, HandlerState
  <2>2. \A line \in Lines \ Blank : Passed(line)' => Passed(line)
    BY <1>t, <2>1 DEF Passed
  <2>3. \A line \in Lines : Marked(line)' => Marked(line) \/ Passed(line)
    <3>1. CASE UNCHANGED <<mark, buf>>
      BY <3>1 DEF Marked
    <3>2. CASE MarkPos([pos |-> hand.posNext, size |-> hand.st])
      <4>1. hand.posNext <= hand.in
        BY <2>1 DEF LossSound
      <4>2. DOMAIN buf' = {1} /\ buf'[1].pos = hand.posNext
        BY <3>2 DEF MarkPos
      <4>3. mark' = mark \/ (1 \in DOMAIN buf /\ mark' = buf[1])
        BY <1>t, <3>2 DEF MarkPos
      <4> QED  BY <1>t, <2>1, <4>1, <4>2, <4>3 DEF Marked, Passed
    <3> QED  BY <1>2, <3>1, <3>2 DEF HandlerRead, pos
  <2> QED  BY <1>a, <1>b, <2>2, <2>3
<1>3. CASE HandlerOpen
  <2>1. UNCHANGED <<mark, buf>>
    BY <1>3 DEF HandlerOpen, pos
  <2>2. hand'.at = "already" \/ (hand'.at = "read" /\ hand'.in \in {0, mark.pos})
    <3>1. hand'.at = "already" \/ BeginAt(0) \/ BeginAt(mark.pos)
      BY <1>3, <1>t DEF HandlerOpen, RoundBegins, HandTo, HandlerState
    <3> QED  BY <3>1 DEF BeginAt
  <2>3. \A line \in Lines : Passed(line)' => Marked(line)
    BY <1>t, <2>2 DEF Marked, Passed
  <2>4. \A line : Marked(line)' <=> Marked(line)
    BY <2>1 DEF Marked
  <2> QED  BY <1>a, <1>b, <2>3, <2>4
<1>4. CASE HandlerMark
  <2>1. /\ hand.at = "finish" /\ hand'.at = "rest"
        /\ mark'.pos = hand.posNext /\ DOMAIN buf' = {}
    BY <1>4, <1>t DEF HandlerMark, HandTo, HandlerState
  <2>2. hand.posNext <= hand.in
    BY <2>1 DEF LossSound
  <2>3. \A line \in Lines : ~Passed(line)' /\ (Marked(line)' => Passed(line))
    BY <1>t, <2>1, <2>2 DEF Marked, Passed
  <2> QED  BY <1>a, <1>b, <2>3
<1>5. CASE Crash
  <2>1. hand'.at = "none" /\ mark' = mark /\ DOMAIN buf' = {}
    BY <1>5 DEF Crash, NoHandler
  <2>2. \A line : ~Passed(line)' /\ (Marked(line)' => Marked(line))
    BY <2>1 DEF Marked, Passed
  <2> QED  BY <1>a, <1>b, <2>2
<1>6. CASE HandlerSkip \/ HandlerExit \/ Start \/ HandlerEnd \/ HandlerFlag \/ HandlerBackup
  <2>1. /\ UNCHANGED <<mark, buf>>
        /\ \/ hand'.at \in {"rest", "none"}
           \/ hand'.at \in {"eof", "finish"} /\ hand.at \in {"read", "eof"} /\ hand'.in = hand.in
    BY <1>6, <1>t DEF HandlerSkip, HandlerExit, Start, HandlerEnd, HandlerFlag,
       HandlerBackup, HandTo, HandlerState, NoHandler, pos
  <2>2. \A line : (Passed(line)' => Passed(line)) /\ (Marked(line)' <=> Marked(line))
    BY <2>1 DEF Marked, Passed
  <2> QED  BY <1>a, <1>b, <2>2
<1>7. CASE \/ Write \/ Truncate \/ Transmit \/ Stop \/ HandlerOpenFails \/ HandlerStatFails
           \/ OnReportHandle \/ UNCHANGED vars
  <2>1. UNCHANGED <<hand, mark, buf>>
    BY <1>7 DEF Write, Truncate, Transmit, Stop, HandlerOpenFails, HandlerStatFails,
       OnReportHandle, ReporterScan, ReporterSend, ReporterSendFails, ReporterClear,
       ReporterReset, ReporterCheck, vars, pos
  <2>2. Claimed' = Claimed
    BY <2>1 DEF Claimed
  <2> QED  BY <2>2
<1> QED
  BY <1>1, <1>2, <1>3, <1>4, <1>5, <1>6, <1>7 DEF Next, OnFilelogHandle

\* A step loses nothing, but a crash the lines that wait, a start those in vec_log and a
\* zmq_send that fails its line.
LEMMA LostGrows ==
  ASSUME TypeOK, PipeInv, TypeOK', LossSound, [Next]_vars, base = 0
  PROVE  /\ Crash => Lost' \subseteq Lost \union Waiting
         /\ Start => Lost' \subseteq Lost \union Elements(Pending)
         /\ ReporterSendFails => Lost' \subseteq Lost \union {Head(Pending)}
         /\ ~Crash /\ ~Start /\ ~ReporterSendFails => Lost' \subseteq Lost
<1>p. Crash \/ Start \/ ReporterSendFails => ~HandlerPush
  BY DEF Crash, Start, ReporterSendFails, HandlerPush, HandTo, NoHandler, TypeOK,
     HandlerState
<1>1. CASE ~Crash /\ ~Start /\ ~ReporterSendFails
  <2>1. base + hand.in = hand.in
    <3>1. MaxLines \in Nat
      BY FileLogAssumption
    <3> QED  BY <3>1 DEF TypeOK, HandlerState, Offsets
  <2> QED  BY <1>1, <2>1, ClaimedGrows, GotGrows DEF Lost
<1>2. CASE Crash
  <2>1. wire' = wire
    BY <1>2 DEF Crash
  <2>2. ~Start /\ ~ReporterSendFails
    BY <1>2 DEF Crash, Start, ReporterSendFails, NoHandler, NoReporter, TypeOK,
       ReporterState
  <2> QED  BY <1>2, <1>p, <2>1, <2>2, ClaimedGrows DEF Lost
<1>3. CASE Start
  <2>1. wire' = wire /\ outq' = outq
    BY <1>3 DEF Start, socket
  <2>2. Elements(outq) \subseteq Waiting'
    BY <2>1 DEF Waiting, Elements
  <2>3. ~Crash /\ ~ReporterSendFails
    BY <1>3 DEF Crash, Start, ReporterSendFails, NoHandler
  <2> QED  BY <1>3, <1>p, <2>1, <2>2, <2>3, ClaimedGrows DEF Lost, Waiting
<1>4. CASE ReporterSendFails
  <2>1. ~Crash /\ ~Start
    BY <1>4 DEF Crash, Start, ReporterSendFails, NoHandler, NoReporter, TypeOK,
       ReporterState
  <2> QED  BY <1>4, <1>p, <2>1, ClaimedGrows, FailureLoses DEF Lost
<1> QED  BY <1>1, <1>2, <1>3, <1>4

\* A part of the union of a set with one of at most n elements.
LEMMA UnionSize ==
  ASSUME NEW S, NEW T, NEW U, NEW n \in Nat, IsFiniteSet(S), IsFiniteSet(T),
         Cardinality(T) <= n, U \subseteq S \union T
  PROVE  /\ IsFiniteSet(U) /\ Cardinality(U) \in Nat
         /\ Cardinality(U) <= Cardinality(S) + n
<1>1. Cardinality(S) \in Nat /\ Cardinality(T) \in Nat
  BY FS_CardinalityType
<1>2. /\ IsFiniteSet(S \union T)
      /\ Cardinality(S \union T) = Cardinality(S) + Cardinality(T) - Cardinality(S \cap T)
  BY FS_Union
<1>3. Cardinality(S \cap T) \in Nat
  <2>1. IsFiniteSet(S \cap T)
    BY FS_Subset
  <2> QED  BY <2>1, FS_CardinalityType
<1>4. /\ IsFiniteSet(U) /\ Cardinality(U) \in Nat
      /\ Cardinality(U) <= Cardinality(S \union T)
  BY <1>2, FS_Subset, FS_CardinalityType
<1>5. Cardinality(S \union T) <= Cardinality(S) + n
  BY <1>1, <1>2, <1>3
<1> QED  BY <1>1, <1>2, <1>3, <1>4, <1>5

\* What waits is a batch and a send queue at most.
LEMMA WaitingFew ==
  ASSUME TypeOK, PipeInv
  PROVE  /\ IsFiniteSet(Waiting) /\ Cardinality(Waiting) \in Nat
         /\ Cardinality(Waiting) <= Capacity
         /\ Capacity \in Nat /\ nReadLineNum \in Nat /\ nReadLineNum <= Capacity
         /\ 1 <= Capacity
<1>1. /\ nReadLineNum \in Nat /\ SNDHWM \in Nat /\ 1 <= nReadLineNum
      /\ Capacity = nReadLineNum + SNDHWM
  BY FileLogAssumption DEF Capacity
<1>2. /\ IsFiniteSet(Elements(outq)) /\ Cardinality(Elements(outq)) \in Nat
      /\ Cardinality(Elements(outq)) <= SNDHWM
  <2>1. outq \in Seq(Lines) /\ Len(outq) <= SNDHWM
    BY DEF TypeOK
  <2>2. /\ IsFiniteSet(Elements(outq)) /\ Cardinality(Elements(outq)) \in Nat
        /\ Cardinality(Elements(outq)) <= Len(outq) /\ Len(outq) \in Nat
    BY <2>1, ElementsFew
  <2> QED  BY <1>1, <2>1, <2>2
<1>3. /\ IsFiniteSet(Elements(Pending))
      /\ Cardinality(Elements(Pending)) <= nReadLineNum
  BY PendingFew
<1>4. Waiting \subseteq Elements(outq) \union Elements(Pending)
  BY DEF Waiting
<1>5. /\ IsFiniteSet(Waiting) /\ Cardinality(Waiting) \in Nat
      /\ Cardinality(Waiting) <= Cardinality(Elements(outq)) + nReadLineNum
  BY <1>1, <1>2, <1>3, <1>4, UnionSize
<1> QED  BY <1>1, <1>2, <1>5

LEMMA LostSize ==
  ASSUME TypeOK, PipeInv, TypeOK', LossSound, [Next]_vars, base = 0
  PROVE  /\ Cardinality(Lost) \in Nat /\ Cardinality(Lost') \in Nat
         /\ Cardinality(Lost') <= Cardinality(Lost) + Capacity
         /\ Lost' \subseteq Lost => Cardinality(Lost') <= Cardinality(Lost)
<1>1. IsFiniteSet(Lines)
  BY FileLogAssumption, IntervalSize DEF Lines
<1>2. Lost \subseteq Lines
  BY DEF Lost, Claimed
<1>3. IsFiniteSet(Lost) /\ Cardinality(Lost) \in Nat
  BY <1>1, <1>2, FS_Subset, FS_CardinalityType
<1>4. /\ IsFiniteSet(Waiting) /\ Cardinality(Waiting) <= Capacity
      /\ Capacity \in Nat
  BY WaitingFew
<1>5. ReporterSendFails => Head(Pending) \in Waiting
  <2> SUFFICES ASSUME ReporterSendFails PROVE Head(Pending) \in Elements(Pending)
    BY DEF Waiting
  <2>1. Pending \in Seq(Lines) /\ Pending # <<>>
    BY PendingType, TurnsToOldest DEF ReporterSendFails
  <2> QED  BY <2>1, ElementsHead
<1>6. Lost' \subseteq Lost \union Waiting
  BY <1>5, LostGrows DEF Waiting
<1>7. Lost' \subseteq Lost => Cardinality(Lost') <= Cardinality(Lost)
  BY <1>3, FS_Subset
<1> QED  BY <1>3, <1>4, <1>6, <1>7, UnionSize

LEMMA HandlerStays ==
  ASSUME TypeOK, [Next]_vars, ~Crash, ~Start, ~Stop
  PROVE  /\ b_state' = b_state
         /\ ~HandlerExit /\ hand.at # "none" => hand'.at # "none"
         /\ hand'.at # "none" \/ vec_log' # <<>> => hand.at # "none" \/ vec_log # <<>>
<1>t. hand \in HandlerState
  BY DEF TypeOK
<1>1. CASE OnFilelogHandle
  <2>1. b_state' = b_state /\ hand.at # "none"
    BY <1>1 DEF OnFilelogHandle, HandlerOpen, HandlerOpenFails, HandlerStatFails,
       RoundBegins, HandlerSkip, HandlerRead, HandlerEnd, HandlerPush, HandlerFlag,
       HandlerMark, HandlerBackup, HandlerExit
  <2>2. ~HandlerExit => hand'.at # "none"
    <3>1. CASE HandlerOpen
      BY <1>t, <3>1 DEF HandlerOpen, HandTo, BeginAt, HandlerState
    <3>2. CASE HandlerRead
      BY <1>t, <3>2 DEF HandlerRead, HandlerState
    <3>3. CASE \/ HandlerSkip \/ HandlerEnd \/ HandlerPush \/ HandlerFlag
               \/ HandlerMark \/ HandlerBackup \/ HandlerOpenFails \/ HandlerStatFails
      BY <1>t, <3>3 DEF RoundBegins, HandlerOpenFails, HandlerStatFails, HandlerSkip,
         HandlerEnd, HandlerPush, HandlerFlag, HandlerMark, HandlerBackup, HandTo,
         HandlerState
    <3> QED  BY <1>1, <3>1, <3>2, <3>3 DEF OnFilelogHandle
  <2> QED  BY <2>1, <2>2
<1>2. CASE Write \/ Truncate \/ Transmit \/ OnReportHandle \/ UNCHANGED vars
  <2>1. b_state' = b_state /\ hand' = hand /\ (vec_log' = vec_log \/ vec_log' = <<>>)
    BY <1>2 DEF Write, Truncate, Transmit, OnReportHandle, ReporterScan, ReporterSend,
       ReporterSendFails, ReporterClear, ReporterReset, ReporterCheck, vars
  <2> QED  BY <2>1
<1> QED  BY <1>1, <1>2 DEF Next

LEMMA LossStep ==
  ASSUME TypeOK, PipeInv, TypeOK', LossSound, [Next]_vars
  PROVE  LossSound'
<1>t. hand \in HandlerState /\ hand.in \in Int /\ hand.posNext \in Int /\ hand.st \in Int
  <2>1. MaxLines \in Nat
    BY FileLogAssumption
  <2> QED  BY <2>1 DEF TypeOK, HandlerState, Offsets
<1>1. hand'.at \in OpenAt => hand'.posNext <= hand'.in
  <2>1. CASE HandlerOpen
    <3>1. hand'.at = "already" \/ BeginAt(0) \/ BeginAt(mark.pos)
      BY <2>1, <1>t DEF HandlerOpen, HandTo, HandlerState
    <3>2. mark.pos \in Int
      BY FileLogAssumption DEF TypeOK, Record, Offsets
    <3> QED  BY <3>1, <3>2 DEF BeginAt, OpenAt
  <2>2. CASE HandlerRead
    <3>1. /\ hand'.in = hand.in + 1
          /\ hand'.posNext = (IF hand.in + 1 > hand.st THEN hand.st ELSE hand.in + 1)
      BY <2>2, <1>t DEF HandlerRead, HandlerState
    <3> QED  BY <1>t, <3>1
  <2>3. CASE HandlerPush \/ HandlerEnd \/ HandlerFlag
    <3>1. hand.at \in OpenAt /\ hand'.posNext = hand.posNext /\ hand'.in = hand.in
      BY <2>3, <1>t DEF HandlerPush, HandlerEnd, HandlerFlag, HandTo, HandlerState, OpenAt
    <3> QED  BY <3>1 DEF LossSound, OpenAt
  <2>4. CASE HandlerSkip \/ HandlerMark \/ HandlerBackup \/ HandlerExit \/ Start \/ Crash
    <3>1. hand'.at \in {"rest", "none"}
      BY <2>4, <1>t DEF HandlerSkip, HandlerMark, HandlerBackup, HandlerExit, Start, Crash,
         HandTo, HandlerState, NoHandler
    <3> QED  BY <3>1 DEF OpenAt
  <2>5. CASE \/ Write \/ Truncate \/ Transmit \/ Stop \/ HandlerOpenFails
             \/ HandlerStatFails \/ OnReportHandle \/ UNCHANGED vars
    <3>1. hand' = hand
      BY <2>5 DEF Write, Truncate, Transmit, Stop, HandlerOpenFails, HandlerStatFails,
         OnReportHandle, ReporterScan, ReporterSend, ReporterSendFails, ReporterClear,
         ReporterReset, ReporterCheck, vars
    <3> QED  BY <3>1 DEF LossSound, OpenAt
  <2> QED
    BY <2>1, <2>2, <2>3, <2>4, <2>5 DEF Next, OnFilelogHandle
<1>2. b_state' => hand'.at # "none"
  <2>1. CASE Crash \/ Start \/ Stop \/ HandlerExit
    BY <2>1 DEF Crash, Start, Stop, HandlerExit, NoHandler
  <2>2. CASE ~Crash /\ ~Start /\ ~Stop /\ ~HandlerExit
    <3>1. b_state' = b_state /\ (hand.at # "none" => hand'.at # "none")
      BY <2>2, HandlerStays
    <3> QED  BY <3>1 DEF LossSound
  <2> QED  BY <2>1, <2>2
<1>3. ASSUME base' = 0
      PROVE  /\ Cardinality(Lost') <= Capacity * faults'
             /\ ~b_state' /\ (hand'.at # "none" \/ vec_log' # <<>>) =>
                  Cardinality(Lost') + Capacity <= Capacity * faults'
  <2>1. base = 0
    <3>1. base' = base \/ base' = written
      BY DEF Next, Write, Truncate, Transmit, Crash, Start, Stop, OnFilelogHandle,
         HandlerOpen, HandlerOpenFails, HandlerStatFails, HandlerSkip, HandlerRead,
         HandlerEnd, HandlerPush, HandlerFlag, HandlerMark, HandlerBackup, MoveAway,
         HandlerExit, OnReportHandle, ReporterScan, ReporterSend, ReporterSendFails,
         ReporterClear, ReporterReset, ReporterCheck, file, vars
    <3> QED  BY <1>3, <3>1, FileLogAssumption DEF TypeOK, Offsets
  <2>2. /\ Cardinality(Lost) \in Nat /\ Cardinality(Lost') \in Nat
        /\ Cardinality(Lost') <= Cardinality(Lost) + Capacity
        /\ Lost' \subseteq Lost => Cardinality(Lost') <= Cardinality(Lost)
    BY <2>1, LostSize
  <2>3. /\ Cardinality(Lost) <= Capacity * faults
        /\ ~b_state /\ (hand.at # "none" \/ vec_log # <<>>) =>
             Cardinality(Lost) + Capacity <= Capacity * faults
    BY <2>1 DEF LossSound
  <2>4. /\ Capacity \in Nat /\ faults \in Nat
        /\ Capacity * faults \in Nat
        /\ Capacity * (faults + 1) = Capacity * faults + Capacity
    <3>1. Capacity \in Nat /\ faults \in Nat
      BY WaitingFew, FileLogAssumption DEF TypeOK
    <3> QED  BY <3>1
  <2> DEFINE size == Cardinality(Lost)
             size1 == Cardinality(Lost')
             room == Capacity * faults
  <2>5. faults' = faults \/ faults' = faults + 1
    BY DEF Next, Write, Truncate, Transmit, Crash, Start, Stop, OnFilelogHandle,
       HandlerOpen, HandlerOpenFails, HandlerStatFails, HandlerSkip, HandlerRead,
       HandlerEnd, HandlerPush, HandlerFlag, HandlerMark, HandlerBackup, HandlerExit,
       OnReportHandle, ReporterScan, ReporterSend, ReporterSendFails, ReporterClear,
       ReporterReset, ReporterCheck, Fault, vars
  <2>6. CASE Crash
    <3>1. faults' = faults + 1 /\ hand'.at = "none" /\ vec_log' = <<>>
      BY <2>6 DEF Crash, Fault, NoHandler
    <3> QED  BY <2>2, <2>3, <2>4, <3>1
  <2>7. CASE Start
    <3>1. /\ b_state' /\ faults' = faults /\ hand.at = "none" /\ rep.at = "none"
          /\ Pending = vec_log
      BY <2>7 DEF Start, Pending
    <3>2. ~b_state
      BY <3>1 DEF LossSound
    <3>3. CASE vec_log = <<>>
      <4>1. Elements(Pending) = {}
        BY <3>1, <3>3 DEF Elements
      <4>2. Lost' \subseteq Lost
        BY <2>1, <2>7, <4>1, LostGrows
      <4>3. Capacity * faults' = Capacity * faults
        BY <3>1
      <4> QED  BY <2>2, <2>3, <2>4, <3>1, <4>2, <4>3
    <3>4. CASE vec_log # <<>>
      BY <2>2, <2>3, <2>4, <3>1, <3>2, <3>4
    <3> QED  BY <3>3, <3>4
  <2>8. CASE Stop
    <3>1. faults' = faults + 1 /\ ~Crash /\ ~Start /\ ~ReporterSendFails
      <4>1. faults' = faults + 1 /\ b_state /\ ~b_state' /\ hand' = hand
        BY <2>8 DEF Stop, Fault
      <4>2. hand.at # "none"
        BY <4>1 DEF LossSound
      <4>3. ~Crash
        BY <4>1, <4>2 DEF Crash, NoHandler
      <4>4. ~Start /\ ~ReporterSendFails
        BY <4>1 DEF Start, ReporterSendFails
      <4> QED  BY <4>1, <4>3, <4>4
    <3>2. Lost' \subseteq Lost
      BY <2>1, <3>1, LostGrows
    <3> QED  BY <2>2, <2>3, <2>4, <3>1, <3>2
  <2>9. CASE ReporterSendFails
    <3>1. /\ faults' = faults + 1
          /\ b_state' = b_state /\ hand' = hand /\ vec_log' = vec_log
      BY <2>9 DEF ReporterSendFails, Fault
    <3> QED  BY <2>2, <2>3, <2>4, <3>1
  <2>10. CASE ~Crash /\ ~Start /\ ~Stop /\ ~ReporterSendFails
    <3>1. Lost' \subseteq Lost
      BY <2>1, <2>10, LostGrows
    <3>2. /\ b_state' = b_state
          /\ hand'.at # "none" \/ vec_log' # <<>> => hand.at # "none" \/ vec_log # <<>>
      BY <2>10, HandlerStays
    <3> QED  BY <2>2, <2>3, <2>4, <2>5, <3>1, <3>2
  <2> QED  BY <2>6, <2>7, <2>8, <2>9, <2>10
<1> QED  BY <1>1, <1>2, <1>3 DEF LossSound, OpenAt

\* In any state before a truncation, no more lines behind the mark of posList.pos have
\* failed to leave the process than one batch and one send queue for each fault so far
\* and those in memory.
THEOREM LossBounded == Spec => []BoundedLoss
<1>1. Init => LossSound
  <2> SUFFICES ASSUME Init PROVE LossSound
    OBVIOUS
  <2>1. Claimed = {}
    <3>1. \A line \in Lines : line >= 1 /\ line \in Int
      BY FileLogAssumption DEF Lines
    <3>2. hand.at = "none" /\ mark.pos = 0 /\ DOMAIN buf = {}
      BY DEF Init, NoHandler, NewRecord
    <3> QED  BY <3>1, <3>2 DEF Claimed
  <2>2. Lost = {} /\ Cardinality({}) = 0
    BY <2>1, FS_EmptySet DEF Lost
  <2>3. Capacity * 0 = 0
    BY FileLogAssumption DEF Capacity
  <2> QED  BY <2>2, <2>3 DEF Init, LossSound, NoHandler
<1>2. FileLogInv /\ FileLogInv' /\ LossSound /\ [Next]_vars => LossSound'
  BY LossStep DEF FileLogInv
<1>3. FileLogInv /\ LossSound => BoundedLoss
  <2> SUFFICES ASSUME FileLogInv, LossSound, base = 0
               PROVE  Cardinality(Covered \ wire) <= Capacity * (faults + 1)
    BY DEF BoundedLoss, Capacity
  <2>1. Covered \ wire \subseteq Lost \union Waiting
    <3>1. Covered \subseteq Claimed
      BY FileLogAssumption DEF FileLogInv, TypeOK, Record, Offsets, Covered, Claimed, Lines
    <3> QED  BY <3>1 DEF Lost
  <2>2. /\ IsFiniteSet(Lost) /\ Cardinality(Lost) \in Nat
    <3>1. IsFiniteSet(Lines) /\ Lost \subseteq Lines
      BY FileLogAssumption, IntervalSize DEF Lines, Lost, Claimed
    <3> QED  BY <3>1, FS_Subset, FS_CardinalityType
  <2>3. /\ IsFiniteSet(Waiting) /\ Cardinality(Waiting) <= Capacity /\ Capacity \in Nat
    BY WaitingFew DEF FileLogInv
  <2>4. /\ Cardinality(Covered \ wire) \in Nat
        /\ Cardinality(Covered \ wire) <= Cardinality(Lost) + Capacity
    BY <2>1, <2>2, <2>3, UnionSize
  <2>5. Capacity * faults \in Nat /\ Capacity * (faults + 1) = Capacity * faults + Capacity
    <3>1. faults \in Nat
      BY FileLogAssumption DEF FileLogInv, TypeOK
    <3> QED  BY <2>3, <3>1
  <2>6. Cardinality(Lost) <= Capacity * faults
    BY DEF LossSound
  <2> QED  BY <2>2, <2>3, <2>4, <2>5, <2>6
<1> QED  BY <1>1, <1>2, <1>3, PipeSafe, PTL DEF Spec
=============================================================================

--------------------------- MODULE LogReceiver_proofs ---------------------------
(***************************************************************************)
(* Proofs about LogReceiver, for the plugins with a reactor, any records,  *)
(* lists, batches and free or taken ports, where threads are prompt.       *)
(***************************************************************************)
EXTENDS LogReceiver, SequenceTheorems, TLAPS

ServerState == [at : ServerAt, rec : Records \union {<<>>}]
ReporterState ==
  [at : ReporterAt, n : 0 .. nBreakCtrl + 1, ctrl : BOOLEAN, rec : Records \union {<<>>}]

(* Lists *)

LEMMA HeadAndTail ==
  ASSUME NEW S, NEW s \in Seq(S), s # <<>>
  PROVE  /\ Head(s) \in S /\ Tail(s) \in Seq(S)
         /\ Len(Tail(s)) = Len(s) - 1 /\ Len(s) \in Nat /\ Len(s) >= 1
  BY HeadTailProperties, LenProperties, EmptySeq

\* What is appended to a list that is not empty does not change its head.
LEMMA AppendKeepsHead ==
  ASSUME NEW S, NEW s \in Seq(S), NEW x \in S
  PROVE  /\ Append(s, x) \in Seq(S) /\ Len(Append(s, x)) = Len(s) + 1
         /\ s # <<>> => Append(s, x) # <<>> /\ Head(Append(s, x)) = Head(s)
<1>1. Append(s, x) \in Seq(S) /\ Len(Append(s, x)) = Len(s) + 1
  BY AppendProperties
<1>2. ASSUME s # <<>> PROVE Head(Append(s, x)) = Head(s) /\ Append(s, x) # <<>>
  BY <1>2, HeadAndTail, AppendProperties
<1> QED  BY <1>1, <1>2

-----------------------------------------------------------------------------
(* Threads *)

LEMMA FirstIsFree ==
  ASSUME NEW threads, Idle(threads), Free(threads) # {}
  PROVE  FirstFree(threads) \in Threads /\ MaxThreads >= 1
<1>1. MaxThreads \in Nat
  BY ReceiverAssumption
<1>2. 1 \in Free(threads) /\ \A u \in Free(threads) : 1 <= u
  BY <1>1 DEF Idle, Free, Threads
<1>3. FirstFree(threads) \in Free(threads)
  BY <1>2 DEF FirstFree
<1> QED  BY <1>1, <1>2, <1>3 DEF Idle, Free, Threads

\* A step of the server thread: the others are not there, and nothing of the report
\* thread changes.
LEMMA ServerMoves ==
  ASSUME TypeOK, OneOfEach, NEW s \in Threads, Server(s)
  PROVE  /\ servers[s].at # "none" /\ servers' \in [Threads -> ServerState]
         /\ \A t \in Threads : t # s => servers'[t] = servers[t] /\ servers[t].at = "none"
         /\ IF servers'[s].at = "input" THEN servers'[s].rec \in Records
            ELSE servers'[s].rec = <<>>
         /\ UNCHANGED <<kind, call, reporters, pServer, filtered, out, num>>
<1>1. servers \in [Threads -> ServerState]
  BY DEF TypeOK, ServerState
<1>2. servers[s].at # "none"
  BY DEF Server, ServerOpens, ServerFails, ServerReads, ServerAppends, ServerLeavesLoop,
     ServerDown, ServerDeletes
<1>3. \A t \in Threads : t # s => servers[t].at = "none"
  BY <1>2 DEF OneOfEach, Free
<1>4. UNCHANGED <<kind, call, reporters, pServer, filtered, out, num>>
  BY DEF Server, ServerOpens, ServerFails, ServerReads, ServerAppends, ServerLeavesLoop,
     ServerDown, ServerDeletes, serverFrame
<1>5. CASE \E at \in ServerAt \ {"input"} :
             servers[s].at # "input" /\ servers' = [servers EXCEPT ![s].at = at]
  BY <1>1, <1>2, <1>3, <1>4, <1>5 DEF OneOfEach, ServerState
<1>6. CASE ServerReads(s)
  <2>1. PICK src \in Sources :
          servers' = [servers EXCEPT ![s] =
                        [at |-> "input", rec |-> [no |-> received + 1, src |-> src]]]
    BY <1>6 DEF ServerReads
  <2>2. [no |-> received + 1, src |-> src] \in Records
    BY <1>6, ReceiverAssumption DEF ServerReads, TypeOK, Records
  <2>3. [at |-> "input", rec |-> [no |-> received + 1, src |-> src]] \in ServerState
    BY <2>2 DEF ServerState, ServerAt
  <2> QED  BY <1>1, <1>2, <1>3, <1>4, <2>1, <2>2, <2>3
<1>7. CASE ServerAppends(s)
  <2>1. servers' = [servers EXCEPT ![s] = [at |-> "loop", rec |-> <<>>]]
    BY <1>7 DEF ServerAppends
  <2>2. [at |-> "loop", rec |-> <<>>] \in ServerState
    BY DEF ServerState, ServerAt
  <2> QED  BY <1>1, <1>2, <1>3, <1>4, <2>1, <2>2
<1>8. CASE \/ ServerOpens(s) \/ ServerFails(s) \/ ServerLeavesLoop(s) \/ ServerDown(s)
           \/ ServerDeletes(s)
  BY <1>5, <1>8 DEF ServerOpens, ServerFails, ServerLeavesLoop, ServerDown, ServerDeletes,
     ServerTo, ServerAt
<1> QED  BY <1>6, <1>7, <1>8 DEF Server

\* A step of the report thread, likewise.
LEMMA ReporterMoves ==
  ASSUME TypeOK, OneOfEach, ReporterSound, NEW r \in Threads, Reporter(r)
  PROVE  /\ reporters[r].at # "none" /\ reporters' \in [Threads -> ReporterState]
         /\ \A t \in Threads : t # r => reporters'[t] = reporters[t]
                                        /\ reporters[t].at = "none"
         /\ reporters'[r].at = "none" => reporters'[r] = NoReporter
         /\ UNCHANGED <<kind, call, servers, m_bServerState, pReactor, ended, filtered,
                        received>>
<1>1. reporters \in [Threads -> ReporterState] /\ nBreakCtrl \in Nat
  BY ReceiverAssumption DEF TypeOK, ReporterState
<1>2. reporters[r].at # "none"
  BY DEF Reporter, ReporterLooks, ReporterLeaves, SyslogRound, BatchedRound, ReporterTakes,
     RoundEnds, BatchedLooksBack, TrapRound, TrapTaken, ReporterEnds, ReporterDown
<1>3. \A t \in Threads : t # r => reporters[t].at = "none"
  BY <1>2 DEF OneOfEach, Free
<1>4. UNCHANGED <<kind, call, servers, m_bServerState, pReactor, ended, filtered, received>>
  BY DEF Reporter, ReporterLooks, ReporterLeaves, SyslogRound, BatchedRound, ReporterTakes,
     RoundEnds, BatchedLooksBack, TrapRound, TrapTaken, ReporterEnds, ReporterDown,
     reporterFrame
<1>0. 0 \in 0 .. nBreakCtrl + 1
  BY <1>1
<1>5. ASSUME NEW y \in ReporterState, reporters' = [reporters EXCEPT ![r] = y],
             y.at = "none" => y = NoReporter
      PROVE  /\ reporters' \in [Threads -> ReporterState]
             /\ \A t \in Threads : t # r => reporters'[t] = reporters[t]
             /\ reporters'[r].at = "none" => reporters'[r] = NoReporter
  BY <1>1, <1>5
<1>6. CASE ReporterLooks(r) \/ ReporterDown(r)
  <2>1. NoReporter \in ReporterState /\ [NoReporter EXCEPT !.at = "inner"] \in ReporterState
    BY <1>0 DEF NoReporter, ReporterState, ReporterAt
  <2> QED  BY <1>2, <1>3, <1>4, <1>5, <1>6, <2>1 DEF ReporterLooks, ReporterDown, NoReporter
<1>7. CASE \E at \in ReporterAt \ {"none"} : reporters' = [reporters EXCEPT ![r].at = at]
  BY <1>1, <1>2, <1>3, <1>4, <1>7 DEF ReporterState
<1>8. CASE \/ ReporterLeaves(r) \/ RoundEnds(r) \/ ReporterEnds(r)
  BY <1>7, <1>8 DEF ReporterLeaves, RoundEnds, ReporterEnds, ReporterTo, ReporterAt
<1>9. CASE SyslogRound(r) \/ BatchedRound(r)
  <2>1. CASE reporters' = [reporters EXCEPT ![r].at = "batch", ![r].n = 0]
    <3>1. [reporters[r] EXCEPT !.at = "batch", !.n = 0] \in ReporterState
      BY <1>0, <1>1 DEF ReporterState, ReporterAt
    <3> QED  BY <1>1, <1>2, <1>3, <1>4, <2>1, <3>1
  <2>2. CASE ReporterTo(r, "tail")
    BY <1>7, <2>2 DEF ReporterTo, ReporterAt
  <2> QED  BY <1>9, <2>1, <2>2 DEF SyslogRound, BatchedRound
<1>10. CASE ReporterTakes(r)
  <2>1. CASE UNCHANGED reporters
    BY <1>1, <1>2, <1>3, <1>4, <2>1
  <2>2. CASE reporters' = [reporters EXCEPT ![r].n = @ + 1]
    <3>1. reporters[r].n + 1 \in 0 .. nBreakCtrl + 1
      BY <1>1, <1>10 DEF ReporterTakes, ReporterState
    <3>2. [reporters[r] EXCEPT !.n = @ + 1] \in ReporterState
      BY <1>1, <3>1 DEF ReporterState
    <3> QED  BY <1>1, <1>2, <1>3, <1>4, <2>2, <3>2
  <2> QED  BY <1>10, <2>1, <2>2 DEF ReporterTakes
<1>11. CASE BatchedLooksBack(r)
  <2>1. PICK b \in BOOLEAN : reporters' = [reporters EXCEPT ![r].at = "inner", ![r].ctrl = b]
    <3> DEFINE b == IF num = 0 THEN FALSE ELSE reporters[r].ctrl \/ num = Len(list)
    <3>1. b \in BOOLEAN
      BY <1>1 DEF ReporterState
    <3>2. reporters' = [reporters EXCEPT ![r].at = "inner", ![r].ctrl = b]
      BY <1>1, <1>11 DEF BatchedLooksBack
    <3> QED  BY <3>1, <3>2
  <2>2. [reporters[r] EXCEPT !.at = "inner", !.ctrl = b] \in ReporterState
    BY <1>1 DEF ReporterState, ReporterAt
  <2> QED  BY <1>1, <1>2, <1>3, <1>4, <2>1, <2>2
<1>12. CASE TrapRound(r)
  <2>1. Head(list) \in Records
    BY <1>12, HeadAndTail DEF TrapRound, TypeOK
  <2>2. [reporters[r] EXCEPT !.at = "trap", !.rec = Head(list)] \in ReporterState
    BY <1>1, <2>1 DEF ReporterState, ReporterAt
  <2>3. reporters' = [reporters EXCEPT ![r].at = "trap", ![r].rec = Head(list)]
    BY <1>12 DEF TrapRound
  <2> QED  BY <1>1, <1>2, <1>3, <1>4, <2>2, <2>3
<1>13. CASE TrapTaken(r)
  <2>1. [reporters[r] EXCEPT !.at = "inner", !.rec = <<>>] \in ReporterState
    BY <1>1 DEF ReporterState, ReporterAt
  <2>2. reporters' = [reporters EXCEPT ![r].at = "inner", ![r].rec = <<>>]
    BY <1>13 DEF TrapTaken
  <2> QED  BY <1>1, <1>2, <1>3, <1>4, <2>1, <2>2
<1> QED
  BY <1>6, <1>8, <1>9, <1>10, <1>11, <1>12, <1>13 DEF Reporter

-----------------------------------------------------------------------------
(* Every step preserves each part of the invariant *)

\* A new thread of either sort.
LEMMA StartMoves ==
  ASSUME ReceiverInv, HasReactor, Prompt, StartServer \/ StartReport
  PROVE  \E t \in Threads :
           /\ MaxThreads >= 1
           /\ StartServer =>
                /\ servers' = [servers EXCEPT ![t] = [at |-> "open", rec |-> <<>>]]
                /\ reporters' = reporters /\ Idle(servers) /\ Idle(reporters)
           /\ StartReport =>
                /\ reporters' = [reporters EXCEPT ![t] = [NoReporter EXCEPT !.at = "new"]]
                /\ servers' = servers /\ Idle(reporters)
<1> USE DEF ReceiverInv
<1>1. servers \in [Threads -> ServerState] /\ reporters \in [Threads -> ReporterState]
  BY DEF TypeOK, ServerState, ReporterState
<1>2. CASE StartServer
  <2>1. Idle(servers) /\ Idle(reporters) /\ Free(servers) # {} /\ call = "idle"
    BY <1>2 DEF StartServer, CallSound
  <2>2. FirstFree(servers) \in Threads /\ MaxThreads >= 1
    BY <2>1, FirstIsFree
  <2>3. [servers[FirstFree(servers)] EXCEPT !.at = "open"] = [at |-> "open", rec |-> <<>>]
    BY <1>1, <2>1, <2>2 DEF Idle, Free, OneOfEach, ServerState
  <2>4. servers' = [servers EXCEPT ![FirstFree(servers)].at = "open"]
    BY <1>2 DEF StartServer
  <2> QED  BY <1>1, <1>2, <2>1, <2>2, <2>3, <2>4 DEF StartServer, StartReport
<1>3. CASE StartReport
  <2>1. Idle(reporters) /\ MaxThreads >= 1 /\ call = "server"
    BY <1>3 DEF StartReport, CallSound, OneOfEach
  <2>2. Free(reporters) # {}
    BY <2>1, ReceiverAssumption DEF Idle, Threads
  <2>3. FirstFree(reporters) \in Threads
    BY <2>1, <2>2, FirstIsFree
  <2>4. [reporters[FirstFree(reporters)] EXCEPT !.at = "new"]
          = [NoReporter EXCEPT !.at = "new"]
    BY <2>1, <2>3 DEF Idle, OneOfEach
  <2>5. reporters' = [reporters EXCEPT ![FirstFree(reporters)].at = "new"]
    BY <1>3 DEF StartReport
  <2> QED  BY <1>1, <1>3, <2>1, <2>3, <2>4, <2>5 DEF StartServer, StartReport
<1> QED  BY <1>2, <1>3

LEMMA OneStep ==
  ASSUME ReceiverInv, HasReactor, Prompt, [Next]_vars
  PROVE  /\ OneOfEach'
         /\ servers' \in [Threads -> ServerState] /\ reporters' \in [Threads -> ReporterState]
<1> USE DEF ReceiverInv
<1>1. servers \in [Threads -> ServerState] /\ reporters \in [Threads -> ReporterState]
  BY DEF TypeOK, ServerState, ReporterState
<1>2. CASE StartServer \/ StartReport
  <2>1. PICK t \in Threads :
           /\ MaxThreads >= 1
           /\ StartServer =>
                /\ servers' = [servers EXCEPT ![t] = [at |-> "open", rec |-> <<>>]]
                /\ reporters' = reporters /\ Idle(servers)
           /\ StartReport =>
                /\ reporters' = [reporters EXCEPT ![t] = [NoReporter EXCEPT !.at = "new"]]
                /\ servers' = servers /\ Idle(reporters)
    BY <1>2, StartMoves
  <2>2. [at |-> "open", rec |-> <<>>] \in ServerState
        /\ [NoReporter EXCEPT !.at = "new"] \in ReporterState
    <3>1. 0 \in 0 .. nBreakCtrl + 1
      BY ReceiverAssumption
    <3> QED  BY <3>1 DEF ServerState, ServerAt, ReporterState, ReporterAt, NoReporter
  <2>3. CASE StartServer
    BY <1>1, <2>1, <2>2, <2>3 DEF OneOfEach, Idle, Free
  <2>4. CASE StartReport
    BY <1>1, <2>1, <2>2, <2>4 DEF OneOfEach, Idle, Free, NoReporter
  <2> QED  BY <1>2, <2>3, <2>4
<1>3. CASE SetData \/ StartReturns \/ Stop \/ StopReturns \/ UNCHANGED vars
  <2>1. UNCHANGED <<servers, reporters>> /\ (call' # "idle" => call' = call \/ Stop)
    BY <1>3 DEF SetData, StartReturns, Stop, StopReturns, vars
  <2>2. Stop => MaxThreads >= 1
    BY ReceiverAssumption DEF Stop, CallSound, Busy, Threads
  <2> QED  BY <1>1, <2>1, <2>2 DEF OneOfEach, Free
<1>4. ASSUME NEW s \in Threads, Server(s) PROVE OneOfEach' /\ servers' \in [Threads -> ServerState] /\ reporters' = reporters
  BY <1>1, <1>4, ServerMoves DEF OneOfEach, Free
<1>5. ASSUME NEW r \in Threads, Reporter(r) PROVE OneOfEach' /\ reporters' \in [Threads -> ReporterState] /\ servers' = servers
  BY <1>1, <1>5, ReporterMoves DEF OneOfEach, Free
<1> QED  BY <1>1, <1>2, <1>3, <1>4, <1>5 DEF Next, Worker

LEMMA TypeStep ==
  ASSUME ReceiverInv, HasReactor, Prompt, [Next]_vars
  PROVE  TypeOK'
<1> USE DEF ReceiverInv
<1>1. servers' \in [Threads -> ServerState] /\ reporters' \in [Threads -> ReporterState]
  BY OneStep
<1>2. /\ list \in Seq(Records) /\ out \in Seq(Records) /\ Len(list) \in Nat
      /\ MaxRecords \in Nat
  BY ReceiverAssumption, LenProperties DEF TypeOK
<1>3. CASE Worker \/ UNCHANGED vars
  <2>1. /\ call' \in {"idle", "server", "report", "stopping"} /\ list' \in {list, <<>>}
        /\ ended' \subseteq Loops /\ filtered' \subseteq Sources /\ pServer' \in BOOLEAN
        /\ UNCHANGED <<kind, stateVars, pReactor, mtx, list_num, num, received, out>>
    BY <1>3 DEF TypeOK, Worker, SetData, StartServer, StartReport, StartReturns, Stop,
       StopReturns, dataVars, stateVars, vars, NoReactor
  <2>2. <<>> \in Seq(Records)
    BY EmptySeq
  <2> QED  BY <1>1, <1>2, <2>1, <2>2 DEF TypeOK, ServerState, ReporterState, stateVars
<1>4. ASSUME NEW s \in Threads, Server(s) PROVE TypeOK'
  <2>1. UNCHANGED <<kind, call, reporters, pServer, filtered, out, num, mtx>>
    BY <1>4, ServerMoves DEF Server, ServerOpens, ServerFails, ServerReads, ServerAppends,
       ServerLeavesLoop, ServerDown, ServerDeletes
  <2>2. /\ m_bServerState' \in BOOLEAN /\ m_bIsRunning' \in BOOLEAN
        /\ pReactor' \in Loops \union {NoReactor} /\ ended' \subseteq Loops
    BY <1>4 DEF TypeOK, Server, ServerOpens, ServerFails, ServerReads, ServerAppends,
       ServerLeavesLoop, ServerDown, ServerDeletes, NewReactor, stateVars, Loops
  <2>4. received' \in 0 .. MaxRecords
    <3>1. received' = received \/ (received < MaxRecords /\ received' = received + 1)
      BY <1>4 DEF Server, ServerOpens, ServerFails, ServerReads, ServerAppends,
         ServerLeavesLoop, ServerDown, ServerDeletes
    <3> QED  BY <1>2, <3>1 DEF TypeOK
  <2>3. list' \in Seq(Records) /\ list_num' \in 0 .. MaxRecords
    <3>1. CASE ServerAppends(s)
      <4>1. servers[s].rec \in Records /\ list_num < received
        BY <3>1 DEF ServerAppends, OneOfEach, ListSound, Busy
      <4>2. Append(list, servers[s].rec) \in Seq(Records)
        BY <1>2, <4>1, AppendKeepsHead
      <4>3. list_num + 1 \in 0 .. MaxRecords
        BY <1>2, <4>1 DEF TypeOK
      <4> QED  BY <3>1, <4>2, <4>3 DEF ServerAppends, TypeOK
    <3>2. CASE ~ServerAppends(s)
      BY <1>2, <1>4, <3>2 DEF TypeOK, Server, ServerOpens, ServerFails, ServerReads,
         ServerLeavesLoop, ServerDown, ServerDeletes
    <3> QED  BY <3>1, <3>2
  <2> QED  BY <1>1, <2>1, <2>2, <2>3, <2>4 DEF TypeOK, ServerState, ReporterState
<1>5. ASSUME NEW r \in Threads, Reporter(r) PROVE TypeOK'
  <2>1. UNCHANGED <<kind, call, servers, m_bServerState, pReactor, ended, filtered, received>>
    BY <1>5, ReporterMoves
  <2>2. /\ m_bIsRunning' \in BOOLEAN /\ pServer' \in BOOLEAN
        /\ mtx' \in {Nobody, Lost} \union Threads
    BY <1>5 DEF TypeOK, Reporter, ReporterLooks, ReporterLeaves, SyslogRound, BatchedRound,
       ReporterTakes, RoundEnds, BatchedLooksBack, TrapRound, TrapTaken, ReporterEnds,
       ReporterDown, stateVars
  <2>3. num' \in 0 .. MaxRecords
    <3>1. Len(list) \in 0 .. MaxRecords /\ 0 \in 0 .. MaxRecords
      BY <1>2 DEF TypeOK, ListSound
    <3> QED  BY <1>5, <3>1 DEF TypeOK, Reporter, ReporterLooks, ReporterLeaves,
         SyslogRound, BatchedRound, ReporterTakes, RoundEnds, BatchedLooksBack, TrapRound,
         TrapTaken, ReporterEnds, ReporterDown
  <2>4. list' \in Seq(Records) /\ out' \in Seq(Records) /\ list_num' \in 0 .. MaxRecords
    <3>1. CASE ReporterTakes(r)
      <4>1. /\ Head(list) \in Records /\ Tail(list) \in Seq(Records)
            /\ kind \in Syslog => list_num >= 1
        BY <1>2, <3>1, HeadAndTail DEF ReporterTakes, ListSound, TypeOK
      <4>2. Append(out, Head(list)) \in Seq(Records)
        BY <1>2, <4>1, AppendKeepsHead
      <4>3. kind \in Syslog => list_num - 1 \in 0 .. MaxRecords
        BY <1>2, <4>1 DEF TypeOK
      <4> QED  BY <1>2, <3>1, <4>1, <4>2, <4>3 DEF ReporterTakes, TypeOK
    <3>2. CASE TrapTaken(r)
      BY <3>2 DEF TrapTaken, ReporterSound
    <3>3. CASE ReporterEnds(r)
      BY <1>2, <3>3, EmptySeq DEF ReporterEnds, TypeOK
    <3>4. CASE ~ReporterTakes(r) /\ ~TrapTaken(r) /\ ~ReporterEnds(r)
      BY <1>2, <1>5, <3>4 DEF TypeOK, Reporter, ReporterLooks, ReporterLeaves, SyslogRound,
         BatchedRound, RoundEnds, BatchedLooksBack, TrapRound, ReporterDown
    <3> QED  BY <3>1, <3>2, <3>3, <3>4
  <2> QED  BY <1>1, <2>1, <2>2, <2>3, <2>4 DEF TypeOK, ServerState, ReporterState
<1> QED  BY <1>3, <1>4, <1>5 DEF Next

\* The place of the one server thread that is there.
LEMMA ServerPlaces ==
  ASSUME ReceiverInv, HasReactor, NEW s \in Threads, Server(s)
  PROVE  /\ Busy(servers, {"loop", "input", "closing"})
              <=> servers[s].at \in {"loop", "input", "closing"}
         /\ Busy(servers', {"loop", "input", "closing"})
              <=> servers'[s].at \in {"loop", "input", "closing"}
         /\ Busy(servers, {"loop", "input"}) <=> servers[s].at \in {"loop", "input"}
         /\ Busy(servers', {"loop", "input"}) <=> servers'[s].at \in {"loop", "input"}
         /\ Busy(servers, {"input"}) <=> servers[s].at = "input"
         /\ Busy(servers', {"input"}) <=> servers'[s].at = "input"
         /\ ~Idle(servers) /\ (Idle(servers') <=> servers'[s].at = "none")
         /\ \A t \in Threads : t # s => servers[t].at = "none" /\ servers'[t].at = "none"
         /\ UNCHANGED <<kind, call, reporters, pServer>>
<1>1. /\ servers[s].at # "none"
      /\ \A t \in Threads : t # s => servers'[t] = servers[t] /\ servers[t].at = "none"
      /\ UNCHANGED <<kind, call, reporters, pServer>>
  BY ServerMoves DEF ReceiverInv
<1> QED  BY <1>1 DEF Busy, Idle, Free

LEMMA ReporterPlaces ==
  ASSUME ReceiverInv, HasReactor, NEW r \in Threads, Reporter(r)
  PROVE  ~Idle(reporters) /\ (Idle(reporters') <=> reporters'[r].at = "none")
<1>1. /\ reporters[r].at # "none"
      /\ \A t \in Threads : t # r => reporters'[t] = reporters[t]
                                     /\ reporters[t].at = "none"
  BY ReporterMoves DEF ReceiverInv
<1> QED  BY <1>1 DEF Idle, Free

\* A report thread that does not end here goes on.
LEMMA ReporterStays ==
  ASSUME ReceiverInv, HasReactor, NEW r \in Threads, Reporter(r), ~ReporterDown(r)
  PROVE  reporters'[r].at \notin {"none", "new"}
<1>1. reporters \in [Threads -> ReporterState]
  BY DEF ReceiverInv, TypeOK, ReporterState
<1>2. CASE ReporterLeaves(r) \/ RoundEnds(r) \/ ReporterEnds(r)
  BY <1>1, <1>2 DEF ReporterLeaves, RoundEnds, ReporterEnds, ReporterTo, ReporterState
<1>6. CASE ReporterLooks(r)
  BY <1>1, <1>6 DEF ReporterLooks, NoReporter
<1>3. CASE SyslogRound(r) \/ BatchedLooksBack(r) \/ TrapTaken(r) \/ TrapRound(r)
  BY <1>1, <1>3 DEF SyslogRound, BatchedLooksBack, TrapTaken, TrapRound, ReporterState
<1>4. CASE BatchedRound(r)
  <2>1. CASE reporters' = [reporters EXCEPT ![r].at = "batch", ![r].n = 0]
    BY <1>1, <2>1 DEF ReporterState
  <2>2. CASE ReporterTo(r, "tail")
    BY <1>1, <2>2 DEF ReporterTo, ReporterState
  <2> QED  BY <1>4, <2>1, <2>2 DEF BatchedRound
<1>5. CASE ReporterTakes(r)
  <2>1. reporters' = reporters \/ reporters' = [reporters EXCEPT ![r].n = @ + 1]
    BY <1>5 DEF ReporterTakes
  <2> QED  BY <1>1, <1>5, <2>1 DEF ReporterTakes, ReporterState
<1> QED  BY <1>2, <1>3, <1>4, <1>5, <1>6 DEF Reporter

LEMMA ServerStep ==
  ASSUME ReceiverInv, HasReactor, Prompt, [Next]_vars
  PROVE  ServerSound'
<1> USE DEF ReceiverInv
<1>t. /\ servers \in [Threads -> ServerState]
      /\ kind \in Reactors
  BY DEF HasReactor, TypeOK, ServerState
<1>1. CASE SetData \/ StartReport \/ StartReturns \/ UNCHANGED vars
  <2>1. /\ UNCHANGED <<kind, servers, m_bServerState, m_bIsRunning, pServer, pReactor, ended>>
        /\ call' = call \/ (call = "server" /\ call' = "report" /\ ~Busy(servers, {"open"}))
           \/ (call = "report" /\ call' = "idle")
    BY <1>t, <1>1 DEF SetData, StartReport, StartReturns, vars, stateVars, dataVars, Awaited
  <2>2. \A s \in Threads : servers[s].at = "open" => call' = "server"
    BY <2>1 DEF ServerSound, Busy
  <2> QED  BY <2>1, <2>2 DEF ServerSound, Busy, LoopOf
<1>2. CASE StartServer
  <2>1. PICK t \in Threads :
           servers' = [servers EXCEPT ![t] = [at |-> "open", rec |-> <<>>]]
    BY <1>2, StartMoves
  <2>2. /\ call = "idle" /\ call' = "server" /\ ~m_bIsRunning /\ Idle(servers)
        /\ UNCHANGED <<kind, m_bServerState, m_bIsRunning, pReactor>>
        /\ ended' = ended /\ pServer'
    BY <1>t, <1>2 DEF StartServer, CallSound, stateVars, Reactors
  <2>3. kind \in Batched \/ ended' = {}
    <3>1. CASE kind \in Syslog
      BY <2>2, <3>1 DEF ServerSound, Syslog
    <3> QED  BY <1>t, <3>1 DEF Batched, Syslog, Reactors
  <2>4. ~Busy(servers, {"loop", "input", "closing"})
        /\ ~Busy(servers', {"loop", "input", "closing"})
    BY <1>t, <2>1, <2>2 DEF Busy, Idle, Free
  <2>5. \A s \in Threads : servers'[s].at \in {"none", "open"}
    BY <1>t, <2>1, <2>2 DEF Idle, Free
  <2>6. kind \in Syslog => kind \notin Batched
    BY DEF Syslog, Batched
  <2> QED  BY <2>2, <2>3, <2>4, <2>5, <2>6 DEF ServerSound
<1>3. CASE Stop
  <2>1. /\ UNCHANGED <<kind, servers, m_bServerState, pServer, pReactor>>
        /\ call' = "stopping" /\ call = "idle" /\ m_bIsRunning
    BY <1>3 DEF Stop, stateVars
  <2>2. Busy(servers, {"loop", "input"})
    BY <2>1 DEF CallSound
  <2>3. \A s \in Threads : servers[s].at # "open"
    BY <2>1 DEF ServerSound
  <2> QED  BY <2>1, <2>2, <2>3 DEF ServerSound, Busy, LoopOf
<1>4. CASE StopReturns
  BY <1>4 DEF StopReturns, ServerSound, CallSound, Busy, Idle, Free, stateVars
<1>5. ASSUME NEW s \in Threads, Server(s) PROVE ServerSound'
  <2>1. /\ Busy(servers, {"loop", "input", "closing"})
              <=> servers[s].at \in {"loop", "input", "closing"}
        /\ Busy(servers', {"loop", "input", "closing"})
              <=> servers'[s].at \in {"loop", "input", "closing"}
        /\ Busy(servers, {"loop", "input"}) <=> servers[s].at \in {"loop", "input"}
        /\ Busy(servers', {"loop", "input"}) <=> servers'[s].at \in {"loop", "input"}
        /\ \A t \in Threads : t # s => servers[t].at = "none" /\ servers'[t].at = "none"
        /\ UNCHANGED <<kind, call, pServer>>
    BY <1>5, ServerPlaces
  <2> USE DEF ServerSound, LoopOf
  <2>4. CASE ServerOpens(s)
    BY <1>t, <2>1, <2>4 DEF ServerOpens, NewReactor, ServerTo, Batched, Syslog
  <2>5. CASE ServerFails(s)
    BY <1>t, <2>1, <2>5 DEF ServerFails, NewReactor, ServerTo, Batched, Syslog
  <2>6. CASE ServerReads(s) \/ ServerAppends(s)
    <3>1. /\ servers[s].at \in {"loop", "input"} /\ servers'[s].at \in {"loop", "input"}
          /\ UNCHANGED <<m_bServerState, m_bIsRunning, pReactor, ended>>
      BY <1>t, <2>6 DEF ServerReads, ServerAppends, stateVars
    <3> QED  BY <2>1, <3>1
  <2>7. CASE ServerLeavesLoop(s)
    BY <1>t, <2>1, <2>7 DEF ServerLeavesLoop, ServerTo, stateVars
  <2>8. CASE ServerDown(s)
    <3>1. /\ servers[s].at = "closing" /\ call = "stopping" /\ ~m_bServerState'
          /\ servers'[s].at = IF kind \in Batched THEN "deleting" ELSE "none"
          /\ UNCHANGED <<m_bIsRunning, pReactor, ended>>
      BY <1>t, <2>8 DEF ServerDown, ServerTo
    <3> QED  BY <2>1, <3>1
  <2>9. CASE ServerDeletes(s)
    <3>1. /\ servers[s].at = "deleting" /\ kind \in Batched
          /\ servers'[s].at = "none" /\ UNCHANGED <<m_bServerState, m_bIsRunning, ended>>
      BY <1>t, <2>9 DEF ServerDeletes, ServerTo, stateVars
    <3> QED  BY <2>1, <3>1 DEF Batched, Syslog
  <2> QED  BY <1>5, <2>4, <2>5, <2>6, <2>7, <2>8, <2>9 DEF Server
<1>6. ASSUME NEW r \in Threads, Reporter(r) PROVE ServerSound'
  <2>1. UNCHANGED <<kind, call, servers, m_bServerState, pReactor, ended>>
    BY <1>6, ReporterMoves
  <2>2. pServer' => pServer
    BY <1>6 DEF Reporter, ReporterLooks, ReporterLeaves, SyslogRound, BatchedRound,
       ReporterTakes, RoundEnds, BatchedLooksBack, TrapRound, TrapTaken, ReporterEnds,
       ReporterDown
  <2>3. m_bIsRunning' => m_bIsRunning \/ \A s \in Threads : servers[s].at # "open"
    BY <1>6, ReporterMoves DEF CallSound, Idle, ServerSound, Free
  <2> QED  BY <2>1, <2>2, <2>3 DEF ServerSound, Busy, LoopOf
<1> QED  BY <1>1, <1>2, <1>3, <1>4, <1>5, <1>6 DEF Next, Worker

LEMMA ReporterStep ==
  ASSUME ReceiverInv, HasReactor, Prompt, [Next]_vars
  PROVE  ReporterSound'
<1> USE DEF ReceiverInv
<1>t. /\ servers \in [Threads -> ServerState] /\ reporters \in [Threads -> ReporterState]
      /\ kind \in Reactors
  BY DEF HasReactor, TypeOK, ServerState, ReporterState
<1>n. call # "report" => \A r \in Threads : reporters[r].at # "new"
  BY DEF ReporterSound
<1>1. CASE SetData \/ Stop \/ StopReturns \/ UNCHANGED vars
  <2>1. UNCHANGED <<servers, reporters, m_bServerState, m_bIsRunning, pServer, list, kind>>
        /\ (call' = call \/ call # "report")
    BY <1>1 DEF SetData, Stop, StopReturns, vars, stateVars, dataVars
  <2> QED  BY <1>n, <2>1 DEF ReporterSound, Idle, Free
<1>2. CASE StartServer
  <2>1. UNCHANGED reporters /\ Idle(reporters)
    BY <1>2 DEF StartServer, CallSound
  <2> QED  BY <2>1 DEF ReporterSound, Idle, Free
<1>3. CASE StartReport
  <2>1. PICK t \in Threads :
          /\ reporters' = [reporters EXCEPT ![t] = [NoReporter EXCEPT !.at = "new"]]
          /\ servers' = servers /\ Idle(reporters)
    BY <1>3, StartMoves
  <2>2. UNCHANGED m_bIsRunning /\ call' = "report" /\ (m_bIsRunning => Idle(servers))
    BY <1>3 DEF StartReport, CallSound, stateVars
  <2>3. \A r \in Threads : reporters'[r].at \in {"none", "new"}
    BY <1>t, <2>1 DEF Idle, Free, NoReporter
  <2> QED  BY <2>1, <2>2, <2>3 DEF ReporterSound, Idle, Free
<1>4. CASE StartReturns
  <2>1. UNCHANGED <<kind, servers, reporters, m_bServerState, m_bIsRunning, pServer, list>>
        /\ call = "report" /\ Settled
    BY <1>t, <1>4 DEF StartReturns, stateVars, dataVars, Awaited
  <2>2. \A s \in Threads : servers[s].at \in {"none", "loop", "input"}
    BY <1>t, <2>1 DEF ServerSound, ServerState, ServerAt
  <2>3. ASSUME NEW r \in Threads, reporters[r].at = "new" PROVE FALSE
    <3>1. m_bIsRunning => Idle(servers)
      BY <2>3 DEF ReporterSound
    <3>2. CASE Busy(servers, {"loop", "input"})
      BY <2>1, <3>1, <3>2 DEF Settled, Busy, Idle, Free
    <3>3. CASE ~Busy(servers, {"loop", "input"})
      <4>1. Idle(servers)
        BY <2>2, <3>3 DEF Busy, Idle, Free
      <4>2. Free(reporters) = Threads
        BY <2>1, <3>3, <4>1 DEF Settled, CallSound
      <4> QED  BY <2>3, <4>2 DEF Free
    <3> QED  BY <3>2, <3>3
  <2> QED  BY <2>1, <2>3 DEF ReporterSound, Idle, Free
<1>5. ASSUME NEW s \in Threads, Server(s) PROVE ReporterSound'
  <2>1. /\ ~Idle(servers) /\ UNCHANGED <<kind, call, reporters, pServer>>
    BY <1>5, ServerPlaces
  <2>2. \A r \in Threads : reporters[r].at # "down"
    BY <2>1 DEF ReporterSound
  <2>3. CASE ServerOpens(s) \/ ServerFails(s)
    <3>1. servers[s].at = "open"
      BY <2>3 DEF ServerOpens, ServerFails
    <3>2. Idle(reporters)
      BY <3>1 DEF ServerSound, CallSound
    <3> QED  BY <2>1, <3>2 DEF ReporterSound, Idle, Free
  <2>4. CASE ServerAppends(s)
    <3>3. UNCHANGED <<m_bServerState, m_bIsRunning>>
      BY <2>4 DEF ServerAppends, stateVars
    <3> QED  BY <2>1, <2>2, <3>3 DEF ReporterSound
  <2>5. CASE ServerReads(s) \/ ServerLeavesLoop(s) \/ ServerDown(s) \/ ServerDeletes(s)
    <3>1. (m_bServerState' => m_bServerState) /\ UNCHANGED <<m_bIsRunning, list>>
      BY <2>5 DEF ServerReads, ServerLeavesLoop, ServerDown, ServerDeletes, stateVars,
         TypeOK
    <3> QED  BY <2>1, <2>2, <3>1 DEF ReporterSound
  <2> QED  BY <1>5, <2>3, <2>4, <2>5 DEF Server
<1>6. ASSUME NEW r \in Threads, Reporter(r) PROVE ReporterSound'
  <2>1. /\ UNCHANGED <<kind, call, servers, m_bServerState>>
        /\ \A t \in Threads : t # r => reporters'[t].at = "none"
        /\ ~Idle(reporters) /\ reporters' \in [Threads -> ReporterState]
    BY <1>6, ReporterMoves, ReporterPlaces
  <2>2. SUFFICES /\ reporters'[r].at # "look"
                 /\ reporters'[r].at \notin {"none", "new"} => m_bIsRunning'
                 /\ reporters'[r].at \in {"end", "down"} => ~m_bServerState
                 /\ reporters'[r].at = "down" => Idle(servers) /\ ~pServer'
                 /\ reporters'[r].at # "new" /\ reporters'[r].at # "trap"
    BY <2>1, <2>2 DEF ReporterSound, Idle, Free
  <2> USE DEF ReporterSound
  <2>3. CASE ReporterLooks(r)
    <3>1. reporters[r].at = "new" => m_bIsRunning \/ m_bServerState
      <4>1. CASE Idle(servers)
        BY <2>1, <4>1 DEF CallSound
      <4>2. CASE ~Idle(servers)
        BY <1>t, <4>2 DEF ServerSound, Idle, Free, Busy, ServerState, ServerAt
      <4> QED  BY <4>1, <4>2
    <3>2. reporters'[r].at = "inner" /\ m_bIsRunning'
      BY <1>t, <2>3, <3>1 DEF ReporterLooks, NoReporter
    <3> QED  BY <3>2
  <2>4. CASE ReporterLeaves(r)
    <3>1. m_bIsRunning /\ m_bIsRunning' /\ ~m_bServerState /\ reporters'[r].at = "end"
      BY <1>t, <2>4 DEF ReporterLeaves, ReporterTo, Up, stateVars
    <3> QED  BY <3>1
  <2>5. CASE SyslogRound(r) \/ BatchedRound(r) \/ ReporterTakes(r) \/ RoundEnds(r)
             \/ BatchedLooksBack(r) \/ TrapTaken(r)
    <3>1. m_bIsRunning /\ m_bIsRunning' = m_bIsRunning
      BY <2>5 DEF SyslogRound, BatchedRound, ReporterTakes, RoundEnds, BatchedLooksBack,
         TrapTaken, stateVars
    <3>2. reporters'[r].at \in {"inner", "batch", "tail"}
      <4>1. CASE SyslogRound(r) \/ RoundEnds(r) \/ BatchedLooksBack(r) \/ TrapTaken(r)
        BY <1>t, <4>1 DEF SyslogRound, RoundEnds, BatchedLooksBack, TrapTaken, ReporterTo,
           ReporterState
      <4>2. CASE BatchedRound(r)
        <5>1. CASE reporters' = [reporters EXCEPT ![r].at = "batch", ![r].n = 0]
          BY <1>t, <5>1 DEF ReporterState
        <5>2. CASE ReporterTo(r, "tail")
          BY <1>t, <5>2 DEF ReporterTo, ReporterState
        <5> QED  BY <4>2, <5>1, <5>2 DEF BatchedRound
      <4>3. CASE ReporterTakes(r)
        <5>1. reporters' = reporters \/ reporters' = [reporters EXCEPT ![r].n = @ + 1]
          BY <4>3 DEF ReporterTakes
        <5> QED  BY <1>t, <4>3, <5>1 DEF ReporterTakes, ReporterState
      <4> QED  BY <2>5, <4>1, <4>2, <4>3
    <3> QED  BY <3>1, <3>2
  <2>6. CASE TrapRound(r)
    BY <1>t, <2>6 DEF TrapRound, Reactors
  <2>7. CASE ReporterEnds(r)
    <3>1. reporters[r].at = "end" /\ m_bIsRunning /\ ~m_bServerState
      BY <2>7 DEF ReporterEnds
    <3>2. Idle(servers)
      BY <1>t, <2>7, <3>1 DEF ReporterEnds, ServerSound, Busy, Idle, Free,
         ServerState, ServerAt
    <3>3. reporters'[r].at = "down" /\ ~pServer' /\ m_bIsRunning'
      BY <1>t, <2>7, <3>1 DEF ReporterEnds, ReporterTo, stateVars, ReporterState
    <3> QED  BY <3>1, <3>2, <3>3
  <2>8. CASE ReporterDown(r)
    BY <1>t, <2>8 DEF ReporterDown, NoReporter
  <2> QED  BY <1>6, <2>3, <2>4, <2>5, <2>6, <2>7, <2>8 DEF Reporter
<1> QED  BY <1>1, <1>2, <1>3, <1>4, <1>5, <1>6 DEF Next, Worker

LEMMA CallStep ==
  ASSUME ReceiverInv, HasReactor, Prompt, [Next]_vars
  PROVE  CallSound'
<1> USE DEF ReceiverInv
<1>t. /\ servers \in [Threads -> ServerState] /\ reporters \in [Threads -> ReporterState]
      /\ kind \in Reactors /\ m_bIsRunning \in BOOLEAN
  BY DEF HasReactor, TypeOK, ServerState, ReporterState
<1>1. CASE SetData \/ UNCHANGED vars
  <2>1. UNCHANGED <<kind, call, servers, reporters, m_bIsRunning, pServer>>
    BY <1>1 DEF SetData, vars, stateVars
  <2> QED  BY <2>1 DEF CallSound, Busy, Idle, Free
<1>2. CASE StartServer
  <2>1. PICK t \in Threads :
          /\ servers' = [servers EXCEPT ![t] = [at |-> "open", rec |-> <<>>]]
          /\ reporters' = reporters /\ Idle(reporters)
    BY <1>2, StartMoves
  <2>2. call' = "server" /\ ~m_bIsRunning'
    BY <1>2 DEF StartServer, stateVars
  <2>3. ~Idle(servers') /\ Idle(reporters')
    BY <1>t, <2>1 DEF Idle, Free
  <2> QED  BY <2>2, <2>3 DEF CallSound, Idle, Free
<1>3. CASE StartReport
  <2>1. PICK t \in Threads :
          /\ reporters' = [reporters EXCEPT ![t] = [NoReporter EXCEPT !.at = "new"]]
          /\ servers' = servers
    BY <1>3, StartMoves
  <2>2. /\ call' = "report" /\ call = "server" /\ UNCHANGED <<kind, m_bIsRunning>>
    BY <1>3 DEF StartReport, stateVars
  <2>3. reporters'[t].at = "new"
    BY <1>t, <2>1 DEF NoReporter
  <2> QED  BY <2>1, <2>2, <2>3 DEF CallSound, Idle, Free
<1>4. CASE StartReturns
  <2>1. /\ call = "report" /\ call' = "idle" /\ Settled
        /\ UNCHANGED <<kind, servers, reporters, m_bIsRunning>>
    BY <1>t, <1>4 DEF StartReturns, stateVars, Awaited
  <2>2. \A s \in Threads : servers[s].at \in {"none", "loop", "input"}
    BY <1>t, <2>1 DEF ServerSound, ServerState, ServerAt
  <2>3. CASE Busy(servers, {"loop", "input"})
    BY <2>1, <2>3 DEF Settled, CallSound, Busy, Idle, Free
  <2>4. CASE ~Busy(servers, {"loop", "input"})
    <3>1. Idle(servers)
      BY <2>2, <2>4 DEF Busy, Idle, Free
    <3>2. Idle(reporters) /\ ~m_bIsRunning
      BY <2>1, <2>4, <3>1 DEF Settled, CallSound, Idle
    <3> QED  BY <2>1, <3>1, <3>2 DEF CallSound, Idle, Free
  <2> QED  BY <2>3, <2>4
<1>5. CASE Stop
  BY <1>5 DEF Stop, CallSound, Idle, Free, stateVars
<1>6. CASE StopReturns
  BY <1>6 DEF StopReturns, CallSound, Idle, Free, stateVars
<1>7. ASSUME NEW s \in Threads, Server(s) PROVE CallSound'
  <2>1. /\ Busy(servers, {"loop", "input"}) <=> servers[s].at \in {"loop", "input"}
        /\ Busy(servers', {"loop", "input"}) <=> servers'[s].at \in {"loop", "input"}
        /\ ~Idle(servers) /\ (Idle(servers') <=> servers'[s].at = "none")
        /\ UNCHANGED <<kind, call, reporters, pServer>>
    BY <1>7, ServerPlaces
  <2>2. CASE ServerOpens(s) \/ ServerReads(s) \/ ServerAppends(s)
    <3>1. /\ servers[s].at \in {"open", "loop", "input"} /\ m_bIsRunning' = m_bIsRunning
          /\ servers'[s].at \in {"loop", "input"}
      <4>1. CASE ServerOpens(s)
        BY <1>t, <4>1 DEF ServerOpens, ServerTo
      <4>2. CASE ServerReads(s)
        BY <1>t, <4>2 DEF ServerReads, stateVars
      <4>3. CASE ServerAppends(s)
        BY <1>t, <4>3 DEF ServerAppends, stateVars
      <4> QED  BY <2>2, <4>1, <4>2, <4>3
    <3> QED  BY <2>1, <3>1 DEF CallSound, Idle, Free
  <2>3. CASE ServerFails(s)
    <3>1. servers[s].at = "open" /\ servers'[s].at = "none" /\ m_bIsRunning'
      <4>1. servers[s].at = "open" /\ ServerTo(s, "none")
        BY <2>3 DEF ServerFails
      <4>2. servers'[s].at = "none"
        BY <1>t, <4>1 DEF ServerTo
      <4>3. m_bIsRunning' = (m_bIsRunning \/ kind \in Reactors)
        BY <2>3 DEF ServerFails
      <4> QED  BY <1>t, <4>1, <4>2, <4>3
    <3>2. call = "server"
      BY <1>t, <3>1 DEF ServerSound
    <3> QED  BY <2>1, <3>1, <3>2 DEF CallSound, Idle, Free
  <2>4. CASE ServerLeavesLoop(s) \/ ServerDown(s) \/ ServerDeletes(s)
    <3>1. call = "stopping" /\ m_bIsRunning' = m_bIsRunning
      BY <1>t, <2>4 DEF ServerLeavesLoop, ServerDown, ServerDeletes, ServerSound, LoopOf,
         stateVars
    <3> QED  BY <2>1, <3>1 DEF CallSound, Idle, Free
  <2> QED  BY <1>7, <2>2, <2>3, <2>4 DEF Server
<1>8. ASSUME NEW r \in Threads, Reporter(r) PROVE CallSound'
  <2>1. /\ UNCHANGED <<kind, call, servers>> /\ ~Idle(reporters)
        /\ (Idle(reporters') <=> reporters'[r].at = "none")
    BY <1>8, ReporterMoves, ReporterPlaces
  <2>2. CASE ReporterDown(r)
    <3>1. Idle(servers) /\ ~pServer /\ m_bIsRunning
      BY <2>2 DEF ReporterDown, ReporterSound
    <3>2. ~m_bIsRunning' /\ reporters'[r].at = "none" /\ ~pServer'
      BY <1>t, <2>2, <3>1 DEF ReporterDown, NoReporter
    <3> QED  BY <2>1, <3>1, <3>2 DEF CallSound, Busy, Idle, Free
  <2>3. CASE ~ReporterDown(r)
    <3>1. reporters'[r].at \notin {"none", "new"}
      BY <1>8, <2>3, ReporterStays
    <3>2. m_bIsRunning'
      BY <1>8, <3>1, ReporterStep DEF Next, ReporterSound
    <3>3. m_bIsRunning \/ call = "report"
      BY <1>8, ReporterMoves DEF ReporterSound
    <3> QED  BY <2>1, <3>1, <3>2, <3>3 DEF CallSound, Busy, Idle, Free
  <2> QED  BY <2>2, <2>3
<1> QED  BY <1>1, <1>2, <1>3, <1>4, <1>5, <1>6, <1>7, <1>8 DEF Next, Worker

LEMMA ListStep ==
  ASSUME ReceiverInv, HasReactor, Prompt, [Next]_vars
  PROVE  ListSound'
<1> USE DEF ReceiverInv
<1>t. /\ servers \in [Threads -> ServerState] /\ reporters \in [Threads -> ReporterState]
      /\ list \in Seq(Records) /\ Len(list) \in Nat /\ Len(<<>>) = 0
      /\ list_num \in Nat /\ received \in Nat
  BY LenProperties, EmptySeq DEF TypeOK, ServerState, ReporterState
<1>1. CASE Worker \/ UNCHANGED vars
  <2>1. /\ UNCHANGED <<kind, list_num, received>> /\ list' \in {list, <<>>}
        /\ servers' = servers \/ StartServer
    BY <1>1 DEF Worker, SetData, StartServer, StartReport, StartReturns, Stop, StopReturns,
       vars, dataVars
  <2>2. CASE StartServer
    <3>1. PICK t \in Threads :
            servers' = [servers EXCEPT ![t] = [at |-> "open", rec |-> <<>>]]
      BY <2>2, StartMoves
    <3>2. Busy(servers', {"input"}) => Busy(servers, {"input"})
      BY <1>t, <3>1 DEF Busy
    <3> QED  BY <1>t, <2>1, <3>2 DEF ListSound
  <2>3. CASE servers' = servers
    BY <1>t, <2>1, <2>3 DEF ListSound, Busy
  <2> QED  BY <2>1, <2>2, <2>3
<1>2. ASSUME NEW s \in Threads, Server(s) PROVE ListSound'
  <2>1. /\ Busy(servers, {"input"}) <=> servers[s].at = "input"
        /\ Busy(servers', {"input"}) <=> servers'[s].at = "input"
        /\ kind' = kind
    BY <1>2, ServerPlaces
  <2>2. CASE ServerReads(s)
    <3>1. UNCHANGED <<list, list_num>> /\ received' = received + 1
      BY <2>2 DEF ServerReads
    <3> QED  BY <1>t, <2>1, <3>1 DEF ListSound
  <2>3. CASE ServerAppends(s)
    <3>1. servers[s].at = "input" /\ servers[s].rec \in Records /\ received' = received
      BY <2>3 DEF ServerAppends, OneOfEach
    <3>2. Len(Append(list, servers[s].rec)) = Len(list) + 1
      BY <1>t, <3>1, AppendKeepsHead
    <3>3. servers'[s].at = "loop"
      BY <1>t, <2>3 DEF ServerAppends
    <3>4. \/ list' = list /\ list_num' = list_num
          \/ /\ list' = Append(list, servers[s].rec)
             /\ list_num' = IF kind \in Syslog THEN list_num + 1 ELSE list_num
      BY <2>3 DEF ServerAppends
    <3> QED  BY <1>t, <2>1, <3>1, <3>2, <3>3, <3>4 DEF ListSound
  <2>4. CASE ServerOpens(s) \/ ServerFails(s) \/ ServerLeavesLoop(s) \/ ServerDown(s)
             \/ ServerDeletes(s)
    <3>1. servers'[s].at # "input" /\ UNCHANGED <<list, list_num, received>>
      <4>1. \E at \in ServerAt \ {"input"} : servers' = [servers EXCEPT ![s].at = at]
        BY <2>4 DEF ServerOpens, ServerFails, ServerLeavesLoop, ServerDown, ServerDeletes,
           ServerTo, ServerAt
      <4>2. servers'[s].at # "input"
        BY <1>t, <4>1 DEF ServerState
      <4> QED  BY <2>4, <4>2 DEF ServerOpens, ServerFails, ServerLeavesLoop, ServerDown,
                  ServerDeletes
    <3> QED  BY <2>1, <3>1 DEF ListSound
  <2> QED  BY <1>2, <2>2, <2>3, <2>4 DEF Server
<1>3. ASSUME NEW r \in Threads, Reporter(r) PROVE ListSound'
  <2>1. UNCHANGED <<kind, servers, received>>
    BY <1>3, ReporterMoves
  <2>2. /\ Len(list') \in Nat /\ Len(list') <= Len(list)
        /\ list_num' \in Nat /\ list_num' <= list_num
        /\ kind \in Syslog => Len(list') <= list_num'
    <3>1. CASE ReporterTakes(r)
      <4>1. /\ list # <<>> /\ list' = Tail(list)
            /\ list_num' = IF kind \in Syslog THEN list_num - 1 ELSE list_num
        BY <3>1 DEF ReporterTakes
      <4>2. Len(Tail(list)) = Len(list) - 1 /\ Len(list) >= 1
        BY <1>t, <4>1, HeadAndTail
      <4> QED  BY <1>t, <4>1, <4>2 DEF ListSound
    <3>2. CASE TrapTaken(r)
      BY <3>2 DEF TrapTaken, ReporterSound
    <3>3. CASE ReporterEnds(r)
      BY <1>t, <3>3 DEF ReporterEnds, ListSound
    <3>4. CASE ~ReporterTakes(r) /\ ~TrapTaken(r) /\ ~ReporterEnds(r)
      <4>1. UNCHANGED <<list, list_num>>
        BY <1>3, <3>4 DEF Reporter, ReporterLooks, ReporterLeaves, SyslogRound,
           BatchedRound, RoundEnds, BatchedLooksBack, TrapRound, ReporterDown
      <4> QED  BY <1>t, <4>1 DEF ListSound
    <3> QED  BY <3>1, <3>2, <3>3, <3>4
  <2> QED  BY <1>t, <2>1, <2>2 DEF ListSound, Busy
<1> QED  BY <1>1, <1>2, <1>3 DEF Next

LEMMA InitSound ==
  ASSUME Init
  PROVE  ReceiverInv
<1> USE DEF Init
<1>1. 0 \in 0 .. nBreakCtrl + 1 /\ 0 \in 0 .. MaxRecords
  BY ReceiverAssumption
<1>2. NoServer \in ServerState /\ NoReporter \in ReporterState
  BY <1>1 DEF NoServer, NoReporter, ServerState, ReporterState, ServerAt, ReporterAt
<1>3. TypeOK
  BY <1>1, <1>2, EmptySeq DEF TypeOK, ServerState, ReporterState, Loops, Shared, NoReactor,
     Nobody
<1>4. Idle(servers) /\ Idle(reporters)
  BY DEF Idle, Free, NoServer, NoReporter
<1>5. OneOfEach
  BY <1>4 DEF OneOfEach, Idle, Free, NoServer
<1>6. ServerSound
  BY DEF ServerSound, Busy, NoServer
<1>7. ReporterSound
  BY DEF ReporterSound, NoReporter
<1>8. CallSound
  BY <1>4 DEF CallSound
<1>9. ListSound
  BY <1>1, EmptySeq DEF ListSound, Busy, NoServer
<1> QED  BY <1>3, <1>5, <1>6, <1>7, <1>8, <1>9 DEF ReceiverInv

-----------------------------------------------------------------------------
\* A plugin stays what it is.
LEMMA KindStays ==
  ASSUME [Next]_vars
  PROVE  kind' = kind /\ (HasReactor <=> HasReactor')
<1>1. CASE Worker \/ UNCHANGED vars
  BY <1>1 DEF Worker, SetData, StartServer, StartReport, StartReturns, Stop, StopReturns,
     vars, HasReactor
<1>2. ASSUME NEW s \in Threads, Server(s) PROVE kind' = kind
  BY <1>2 DEF Server, ServerOpens, ServerFails, ServerReads, ServerAppends,
     ServerLeavesLoop, ServerDown, ServerDeletes, serverFrame
<1>3. ASSUME NEW r \in Threads, Reporter(r) PROVE kind' = kind
  BY <1>3 DEF Reporter, ReporterLooks, ReporterLeaves, SyslogRound, BatchedRound,
     ReporterTakes, RoundEnds, BatchedLooksBack, TrapRound, TrapTaken, ReporterEnds,
     ReporterDown, reporterFrame
<1> QED  BY <1>1, <1>2, <1>3 DEF Next, HasReactor

\* Server thread, report thread and Worker agree about who is there: at most one thread of
\* either sort, and m_bIsRunning tells the Worker what it needs to know.
THEOREM ReceiverSafe ==
  ASSUME Prompt
  PROVE  Spec => [](HasReactor => ReceiverInv)
<1>1. Init => (HasReactor => ReceiverInv)
  BY InitSound
<1>2. (HasReactor => ReceiverInv) /\ [Next]_vars => (HasReactor => ReceiverInv)'
  <2> SUFFICES ASSUME HasReactor => ReceiverInv, [Next]_vars, HasReactor'
               PROVE  ReceiverInv'
    OBVIOUS
  <2>1. HasReactor
    BY KindStays
  <2> QED  BY <2>1, OneStep, TypeStep, ServerStep, ReporterStep, CallStep, ListStep
              DEF ReceiverInv
<1> QED  BY <1>1, <1>2, PTL DEF Spec

\* A plugin that says it does not run has no thread left, so that it may be freed.
THEOREM StoppedSafe ==
  ASSUME Prompt
  PROVE  Spec => []StoppedIsQuiet
<1>1. (HasReactor => ReceiverInv) => StoppedIsQuiet
  <2> SUFFICES ASSUME ReceiverInv, HasReactor, call = "idle", ~m_bIsRunning, NEW t \in Threads
               PROVE  servers[t] = NoServer /\ reporters[t] = NoReporter
    BY DEF StoppedIsQuiet
  <2>1. t \in Free(servers) /\ t \in Free(reporters)
    BY DEF ReceiverInv, CallSound, Idle
  <2>2. servers[t] \in ServerState /\ servers[t].at = "none" /\ servers[t].rec = <<>>
    BY <2>1 DEF ReceiverInv, TypeOK, ServerState, OneOfEach, Free
  <2> QED  BY <2>1, <2>2 DEF ReceiverInv, OneOfEach, ServerState, NoServer
<1> QED  BY <1>1, ReceiverSafe, PTL

\* An open port is closed by a Stop and by nothing else.
THEOREM StaysUpSafe ==
  ASSUME Prompt
  PROVE  Spec => StaysUp
<1>1. ASSUME ReceiverInv, HasReactor, [Next]_vars, NEW t \in Threads,
             servers[t].at = "loop", servers'[t].at = "closing"
      PROVE  call = "stopping"
  <2>t. servers \in [Threads -> ServerState]
    BY <1>1 DEF ReceiverInv, TypeOK, ServerState
  <2>1. CASE \E s \in Threads : Server(s)
    <3>1. PICK s \in Threads : Server(s)
      BY <2>1
    <3>2. s = t
      BY <1>1, <3>1, ServerPlaces
    <3>3. CASE ServerLeavesLoop(t)
      BY <1>1, <3>3 DEF ReceiverInv, ServerSound, ServerLeavesLoop
    <3>4. CASE ~ServerLeavesLoop(t)
      BY <1>1, <2>t, <3>1, <3>2, <3>4 DEF Server, ServerOpens, ServerFails, ServerReads,
         ServerAppends, ServerDown, ServerDeletes, ServerTo
    <3> QED  BY <3>3, <3>4
  <2>2. CASE \E r \in Threads : Reporter(r)
    BY <1>1, <2>2, ReporterMoves DEF ReceiverInv
  <2>3. CASE Worker \/ UNCHANGED vars
    <3>1. servers' = servers \/ \E u \in Threads : servers' = [servers EXCEPT ![u].at = "open"]
      <4>1. StartServer => FirstFree(servers) \in Threads
        BY <1>1, FirstIsFree DEF StartServer, ReceiverInv, CallSound
      <4> QED  BY <2>3, <4>1 DEF Worker, SetData, StartServer, StartReport, StartReturns,
                  Stop, StopReturns, vars
    <3>2. ASSUME NEW u \in Threads, servers' = [servers EXCEPT ![u].at = "open"]
          PROVE  servers'[t].at \in {servers[t].at, "open"}
      BY <2>t, <3>2 DEF ServerState
    <3> QED  BY <1>1, <3>1, <3>2
  <2> QED  BY <1>1, <2>1, <2>2, <2>3 DEF Next
<1>2. (HasReactor => ReceiverInv) /\ [Next]_vars =>
        [\A t \in Threads :
           HasReactor /\ servers[t].at = "loop" /\ servers'[t].at = "closing"
             => call = "stopping"]_vars
  BY <1>1
<1> QED  BY <1>2, ReceiverSafe, PTL DEF Spec, StaysUp

-----------------------------------------------------------------------------
(* The relay: every step is one of the abstract one, or changes nothing of it *)

\* The Worker passes policies, and clears the list of a new server, only while the port
\* is closed.
LEMMA WorkerRelays ==
  ASSUME ReceiverInv, HasReactor, HasReactor', Prompt, Worker
  PROVE  [Relay!Next]_(Relay!relayVars)
<1>1. CASE SetData
  <2>1. ~m_bServerState
    BY <1>1 DEF ReceiverInv, SetData, CallSound, ServerSound, Busy, Idle, Free
  <2>2. m_bServerState = FALSE
    BY <2>1 DEF ReceiverInv, TypeOK
  <2> QED  BY <1>1, <2>2 DEF SetData, stateVars, dataVars, Relay!Next, Relay!Configure
<1>2. CASE StartServer
  <2>1. ~m_bServerState
    BY <1>2 DEF ReceiverInv, StartServer, CallSound, ServerSound, Busy, Idle, Free
  <2> QED  BY <1>2, <2>1 DEF StartServer, stateVars, Relay!Next, Relay!Forget,
              Relay!relayVars
<1>3. CASE StartReport \/ StartReturns \/ Stop \/ StopReturns
  BY <1>3 DEF StartReport, StartReturns, Stop, StopReturns, stateVars, dataVars,
     Relay!relayVars
<1> QED  BY <1>1, <1>2, <1>3 DEF Worker

\* The server thread opens and closes the port, and appends to the list.
LEMMA ServerRelays ==
  ASSUME ReceiverInv, HasReactor, HasReactor', Prompt, NEW s \in Threads, Server(s)
  PROVE  [Relay!Next]_(Relay!relayVars)
<1>1. CASE ServerOpens(s)
  BY <1>1 DEF ServerOpens, serverFrame, Relay!Next, Relay!Open
<1>2. CASE ServerDown(s)
  BY <1>2 DEF ServerDown, serverFrame, Relay!Next, Relay!Close
<1>3. CASE ServerAppends(s)
  <2>1. servers[s].rec \in Records
    BY <1>3 DEF ReceiverInv, ServerAppends, OneOfEach
  <2> QED  BY <1>3, <2>1 DEF ServerAppends, serverFrame, stateVars, Relay!Next,
              Relay!Accept, Relay!relayVars
<1>4. CASE ServerFails(s) \/ ServerReads(s) \/ ServerLeavesLoop(s) \/ ServerDeletes(s)
  BY <1>4 DEF ServerFails, ServerReads, ServerLeavesLoop, ServerDeletes, serverFrame,
     stateVars, Relay!relayVars
<1> QED  BY <1>1, <1>2, <1>3, <1>4 DEF Server

\* The report thread reports or drops the head of the list, and clears it once the port
\* is closed.
LEMMA ReporterRelays ==
  ASSUME ReceiverInv, HasReactor, HasReactor', Prompt, NEW r \in Threads, Reporter(r)
  PROVE  [Relay!Next]_(Relay!relayVars)
<1>1. CASE ReporterTakes(r)
  BY <1>1 DEF ReporterTakes, reporterFrame, stateVars, IsFiltered, Relay!Next,
     Relay!Report, Relay!Filter
<1>2. CASE TrapTaken(r)
  BY <1>2 DEF ReceiverInv, TrapTaken, ReporterSound
<1>3. CASE ReporterEnds(r)
  <2>1. ~m_bServerState
    BY <1>3 DEF ReceiverInv, ReporterEnds, ReporterSound
  <2> QED  BY <1>3, <2>1 DEF ReporterEnds, reporterFrame, stateVars, Relay!Next,
              Relay!Forget, Relay!relayVars
<1>4. CASE ~ReporterTakes(r) /\ ~TrapTaken(r) /\ ~ReporterEnds(r)
  <2>1. UNCHANGED <<list, out, filtered, m_bServerState>>
    BY <1>4 DEF Reporter, ReporterLooks, ReporterLeaves, SyslogRound, BatchedRound,
       RoundEnds, BatchedLooksBack, TrapRound, ReporterDown, reporterFrame, stateVars
  <2> QED  BY <2>1 DEF Relay!relayVars
<1> QED  BY <1>1, <1>2, <1>3, <1>4

\* Of a plugin without a reactor the relay shows the policies only.
LEMMA OtherRelays ==
  ASSUME Next, ~HasReactor, ~HasReactor'
  PROVE  [Relay!Next]_(Relay!relayVars)
<1>1. filtered' = filtered \/ SetData
  <2>1. ASSUME NEW s \in Threads, Server(s) PROVE filtered' = filtered
    BY <2>1 DEF Server, ServerOpens, ServerFails, ServerReads, ServerAppends,
       ServerLeavesLoop, ServerDown, ServerDeletes, serverFrame
  <2>2. ASSUME NEW r \in Threads, Reporter(r) PROVE filtered' = filtered
    BY <2>2 DEF Reporter, ReporterLooks, ReporterLeaves, SyslogRound, BatchedRound,
       ReporterTakes, RoundEnds, BatchedLooksBack, TrapRound, TrapTaken, ReporterEnds,
       ReporterDown, reporterFrame
  <2> QED  BY <2>1, <2>2 DEF Next, Worker, StartServer, StartReport, StartReturns, Stop,
              StopReturns
<1> QED  BY <1>1 DEF SetData, Relay!Next, Relay!Configure, Relay!relayVars

\* Records are passed on in the order of their arrival and once each, and while the port is
\* open only filtered ones are dropped: the receiver implements the relay.
THEOREM RelayCorrect ==
  ASSUME Prompt
  PROVE  Spec => RelaySpec
<1>1. Init => Relay!Init
  BY DEF Init, Relay!Init
<1>2. (HasReactor => ReceiverInv) /\ [Next]_vars => [Relay!Next]_(Relay!relayVars)
  <2> SUFFICES ASSUME HasReactor => ReceiverInv, [Next]_vars
               PROVE  [Relay!Next]_(Relay!relayVars)
    OBVIOUS
  <2>0. HasReactor <=> HasReactor'
    BY KindStays
  <2>1. CASE UNCHANGED vars
    BY <2>0, <2>1 DEF vars, dataVars, stateVars, Relay!relayVars
  <2>2. CASE Next /\ HasReactor
    BY <2>0, <2>2, WorkerRelays, ServerRelays, ReporterRelays DEF Next
  <2>3. CASE Next /\ ~HasReactor
    BY <2>0, <2>3, OtherRelays
  <2> QED  BY <2>1, <2>2, <2>3
<1> QED  BY <1>1, <1>2, ReceiverSafe, PTL DEF Spec, RelaySpec, Relay!Spec
=============================================================================

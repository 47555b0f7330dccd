------------------------------- MODULE LogReceiver -------------------------------
(***************************************************************************)
(* The plugins that listen on a port: syslog over UDP and TCP, flow,       *)
(* netflow and snmptrap (Plugin/syslog, flow, netflow, snmptrap).  Each has*)
(* a server thread, whose event loop puts what arrives into a list, and a  *)
(* report thread, which passes the list on to the agent.  Start creates    *)
(* both and is called by the agent's Worker; the report thread sets        *)
(* m_bIsRunning when it sees that the server has opened its port, and      *)
(* resets it when the server has ended.                                    *)
(***************************************************************************)
EXTENDS Integers, Sequences, SequencesExt

CONSTANTS
  Kinds,        \* the plugins of the instance
  Failing,      \* those whose port may be taken
  Filtering,    \* those that are given sources to filter
  Sources,      \* addresses of devices
  MaxRecords,   \* bound: records that arrive
  MaxThreads,   \* bound: threads of either sort that are there at a time
  MaxLogList,   \* stands for max_size()/10, the limit of syslog's list
  nListCtrl,    \* records that flow and netflow let wait (configuration)
  nBreakCtrl,   \* records reported in one go (configuration)
  Prompt        \* threads keep up with the waits of 50 ms that Start makes for
                \* them, see Awaited

Reactors == {"udp", "tcp", "flow", "netflow"}
Syslog == {"udp", "tcp"}
Batched == {"flow", "netflow"}

ASSUME ReceiverAssumption ==
  /\ Kinds \subseteq Reactors \union {"snmptrap"}
  /\ MaxRecords \in Nat /\ MaxThreads \in Nat /\ MaxLogList \in Nat
  /\ nListCtrl \in Nat /\ nBreakCtrl \in Nat
  /\ Prompt \in BOOLEAN

VARIABLES
  kind,             \* which plugin this is
  call,             \* what the Worker does: it calls Start or Stop, or neither
  servers,          \* the server threads
  reporters,        \* the report threads
  m_bServerState, m_bIsRunning,
  pServer,          \* the server object exists
  pReactor,         \* the event loop that pReactor, or the singleton, refers to
  ended,            \* event loops that were told to end
  filtered,         \* m_setPolicy, m_listPolicy, m_vecfilter_*
  mtx,              \* who holds m_inputMutex
  list,             \* m_strLogList, m_netflow_result
  list_num,
  num,              \* static in OnReportHandle
  received,         \* records that have arrived
  out               \* records passed to the agent

vars == <<kind, call, servers, reporters, m_bServerState, m_bIsRunning, pServer,
          pReactor, ended, filtered, mtx, list, list_num, num, received, out>>

Threads == 1 .. MaxThreads
Shared == 0    \* the singleton reactor of syslog, the main loop of snmptrap
NoReactor == -1
Nobody == 0
Lost == -1     \* a thread has ended with the mutex in hand
Loops == Threads \union {Shared}

Records == [no : 1 .. MaxRecords, src : Sources]

NoServer == [at |-> "none", rec |-> <<>>]
NoReporter == [at |-> "none", n |-> 0, ctrl |-> FALSE, rec |-> <<>>]

ServerAt == {"none", "open", "loop", "input", "closing", "deleting"}
ReporterAt == {"none", "new", "look", "inner", "batch", "tail", "trap", "end", "down"}

TypeOK ==
  /\ kind \in Kinds
  /\ call \in {"idle", "server", "report", "stopping"}
  /\ servers \in [Threads -> [at : ServerAt, rec : Records \union {<<>>}]]
  /\ reporters \in [Threads -> [at : ReporterAt, n : 0 .. nBreakCtrl + 1, ctrl : BOOLEAN,
                                rec : Records \union {<<>>}]]
  /\ m_bServerState \in BOOLEAN /\ m_bIsRunning \in BOOLEAN /\ pServer \in BOOLEAN
  /\ pReactor \in Loops \union {NoReactor}
  /\ ended \subseteq Loops
  /\ filtered \subseteq Sources
  /\ mtx \in {Nobody, Lost} \union Threads
  /\ list \in Seq(Records) /\ out \in Seq(Records)
  /\ list_num \in 0 .. MaxRecords /\ num \in 0 .. MaxRecords
  /\ received \in 0 .. MaxRecords

Init ==
  /\ kind \in Kinds
  /\ call = "idle"
  /\ servers = [t \in Threads |-> NoServer]
  /\ reporters = [t \in Threads |-> NoReporter]
  /\ m_bServerState = FALSE /\ m_bIsRunning = FALSE /\ pServer = FALSE
  /\ pReactor = IF kind \in Batched THEN NoReactor ELSE Shared
  /\ ended = {}
  /\ filtered = {}
  /\ mtx = Nobody
  /\ list = <<>> /\ list_num = 0 /\ num = 0
  /\ received = 0 /\ out = <<>>

-----------------------------------------------------------------------------
(* The Worker: SetData, Start, Stop *)

dataVars == <<list, list_num, num, received, out>>
stateVars == <<m_bServerState, m_bIsRunning>>

\* A thread is created in the first free place.
Free(threads) == {t \in Threads : threads[t].at = "none"}
FirstFree(threads) == CHOOSE t \in Free(threads) : \A u \in Free(threads) : t <= u

Busy(threads, places) == \E t \in Threads : threads[t].at \in places

\* New policies, which the manager passes to a plugin that does not run.
SetData ==
  /\ call = "idle"
  /\ ~m_bIsRunning
  /\ kind \in Filtering
  /\ filtered' \in SUBSET Sources
  /\ UNCHANGED <<kind, call, servers, reporters, stateVars, pServer, pReactor, ended,
                 mtx, dataVars>>

\* Start: the server object is there or created, and the server thread is created.
\* snmptrap's constructor and netflow's Start clear the list.
StartServer ==
  /\ call = "idle"
  /\ ~m_bIsRunning
  /\ Free(servers) # {} /\ Free(reporters) # {}
  /\ call' = "server"
  /\ servers' = [servers EXCEPT ![FirstFree(servers)].at = "open"]
  /\ pServer' = TRUE
  /\ list' = IF kind = "netflow" \/ (kind = "snmptrap" /\ ~pServer) THEN <<>> ELSE list
  /\ ended' = IF kind = "snmptrap" /\ ~pServer THEN {} ELSE ended
  /\ UNCHANGED <<kind, reporters, stateVars, pReactor, filtered, mtx, list_num, num,
                 received, out>>

\* The sleeps of Start give the new threads of a plugin with a reactor the time to open
\* the port, or not, and to see that.  snmptrap's does not wait: its 20 ms are over
\* before its report thread, which looks once a second, has looked.
Awaited == Prompt /\ kind \in Reactors

\* 50 ms later, or at once for snmptrap, the report thread is created.
StartReport ==
  /\ call = "server"
  /\ Awaited => ~Busy(servers, {"open"})
  /\ call' = "report"
  /\ reporters' = [reporters EXCEPT ![FirstFree(reporters)].at = "new"]
  /\ UNCHANGED <<kind, servers, stateVars, pServer, pReactor, ended, filtered, mtx,
                 dataVars>>

\* The report thread has seen whether the server has opened its port.
Settled ==
  /\ ~Busy(servers, {"open"})
  /\ IF Busy(servers, {"loop", "input"}) THEN m_bIsRunning
     ELSE Free(reporters) = Threads

StartReturns ==
  /\ call = "report"
  /\ Awaited => Settled
  /\ call' = "idle"
  /\ UNCHANGED <<kind, servers, reporters, stateVars, pServer, pReactor, ended, filtered,
                 mtx, dataVars>>

\* Slip: the plugin says at once that it does not run.
StopAtOnce ==
  /\ call = "idle"
  /\ m_bIsRunning
  /\ call' = "stopping"
  /\ m_bIsRunning' = FALSE
  /\ ended' = ended \union ({pReactor} \ {NoReactor})
  /\ UNCHANGED <<kind, servers, reporters, m_bServerState, pServer, pReactor, filtered,
                 mtx, dataVars>>

\* Stop: the socket is closed and the event loop told to end; the manager waits.
Stop ==
  /\ call = "idle"
  /\ m_bIsRunning
  /\ call' = "stopping"
  /\ ended' = ended \union ({pReactor} \ {NoReactor})
  /\ UNCHANGED <<kind, servers, reporters, stateVars, pServer, pReactor, filtered, mtx,
                 dataVars>>

StopReturns ==
  /\ call = "stopping"
  /\ ~m_bIsRunning
  /\ call' = "idle"
  /\ UNCHANGED <<kind, servers, reporters, stateVars, pServer, pReactor, ended, filtered,
                 mtx, dataVars>>

Worker == SetData \/ StartServer \/ StartReport \/ StartReturns \/ Stop \/ StopReturns

-----------------------------------------------------------------------------
(* The server thread: OnSatrtUdpServer, OnSatrtTcpServer, OnStartUdpServer, *)
(* OnSnmpTrapServer                                                        *)

ServerTo(s, at) == servers' = [servers EXCEPT ![s].at = at]
serverFrame == <<kind, call, reporters, pServer, filtered, out, num>>

\* The event loop of the server thread s.
LoopOf(s) == IF kind \in Batched THEN s ELSE Shared

\* Another server thread of this plugin listens on the port.
PortTaken == Busy(servers, {"loop", "input"})

\* flow and netflow create a reactor of their own.
NewReactor(s) ==
  IF kind \in Batched
  THEN pReactor' = s /\ ended' = ended \ {s}
  ELSE UNCHANGED <<pReactor, ended>>

ServerOpens(s) ==
  /\ servers[s].at = "open"
  /\ ~PortTaken
  /\ NewReactor(s)
  /\ m_bServerState' = TRUE
  /\ ServerTo(s, "loop")
  /\ UNCHANGED <<serverFrame, m_bIsRunning, mtx, list, list_num, received>>

\* The port cannot be opened.  m_bIsRunning is set for the report thread to end by;
\* snmptrap's thread returns without it.
ServerFails(s) ==
  /\ servers[s].at = "open"
  /\ kind \in Failing \/ PortTaken
  /\ NewReactor(s)
  /\ m_bIsRunning' = (m_bIsRunning \/ kind \in Reactors)
  /\ ServerTo(s, "none")
  /\ UNCHANGED <<serverFrame, m_bServerState, mtx, list, list_num, received>>

\* handle_input, snmp_input: a record has arrived.  Stop closes the socket of the
\* UDP plugins; the others may dispatch what arrived before.
ServerReads(s) ==
  /\ servers[s].at = "loop"
  /\ LoopOf(s) \in ended => kind \in {"tcp", "snmptrap"}
  /\ received < MaxRecords
  /\ received' = received + 1
  /\ \E src \in Sources :
       servers' = [servers EXCEPT ![s] =
                     [at |-> "input", rec |-> [no |-> received + 1, src |-> src]]]
  /\ UNCHANGED <<serverFrame, stateVars, pReactor, ended, mtx, list, list_num>>

\* Under m_inputMutex; syslog's list has a limit.
ServerAppends(s) ==
  /\ servers[s].at = "input"
  /\ mtx = Nobody
  /\ IF kind \in Syslog /\ list_num >= MaxLogList
     THEN UNCHANGED <<list, list_num>>
     ELSE /\ list' = Append(list, servers[s].rec)
          /\ list_num' = IF kind \in Syslog THEN list_num + 1 ELSE list_num
  /\ servers' = [servers EXCEPT ![s] = [at |-> "loop", rec |-> <<>>]]
  /\ UNCHANGED <<serverFrame, stateVars, pReactor, ended, mtx, received>>

\* Slip: the singleton reactor is not closed, its end flag stays set.
ServerLeavesLoopOpen(s) ==
  /\ servers[s].at = "loop"
  /\ LoopOf(s) \in ended
  /\ ServerTo(s, "closing")
  /\ UNCHANGED <<serverFrame, stateVars, pReactor, ended, mtx, list, list_num, received>>

\* The event loop ends.  syslog closes the singleton: the next one is new.
ServerLeavesLoop(s) ==
  /\ servers[s].at = "loop"
  /\ LoopOf(s) \in ended
  /\ ended' = IF kind \in Syslog THEN {} ELSE ended
  /\ ServerTo(s, "closing")
  /\ UNCHANGED <<serverFrame, stateVars, pReactor, mtx, list, list_num, received>>

\* The end of the event loop shows; the report thread waits for that.
ServerDown(s) ==
  /\ servers[s].at = "closing"
  /\ m_bServerState' = FALSE
  /\ ServerTo(s, IF kind \in Batched THEN "deleting" ELSE "none")
  /\ UNCHANGED <<serverFrame, m_bIsRunning, pReactor, ended, mtx, list, list_num,
                 received>>

\* flow and netflow delete whatever pReactor refers to by now.
ServerDeletes(s) ==
  /\ servers[s].at = "deleting"
  /\ pReactor' = NoReactor
  /\ ServerTo(s, "none")
  /\ UNCHANGED <<serverFrame, stateVars, ended, mtx, list, list_num, received>>

Server(s) ==
  \/ ServerOpens(s) \/ ServerFails(s) \/ ServerReads(s) \/ ServerAppends(s)
  \/ ServerLeavesLoop(s) \/ ServerDown(s) \/ ServerDeletes(s)

-----------------------------------------------------------------------------
(* The report thread: OnReportHandle *)

ReporterTo(r, at) == reporters' = [reporters EXCEPT ![r].at = at]
reporterFrame == <<kind, call, servers, m_bServerState, pReactor, ended, filtered,
                   received>>

Up == m_bServerState /\ m_bIsRunning

\* The top of the outer loop.
ReporterLooks(r) ==
  /\ reporters[r].at \in {"new", "look"}
  /\ m_bIsRunning' = (m_bIsRunning \/ m_bServerState)
  /\ reporters' = [reporters EXCEPT ![r] = [NoReporter EXCEPT !.at = "inner"]]
  /\ UNCHANGED <<reporterFrame, pServer, mtx, list, list_num, num, out>>

\* Slip: the end of the server is slept through.
ReporterSleepsOn(r) ==
  /\ reporters[r].at = "inner"
  /\ ~Up
  /\ ReporterTo(r, "look")
  /\ UNCHANGED <<reporterFrame, stateVars, pServer, mtx, list, list_num, num, out>>

\* The inner loop is left: for the end, or for a second's sleep.
ReporterLeaves(r) ==
  /\ reporters[r].at = "inner"
  /\ ~Up
  /\ ReporterTo(r, IF m_bIsRunning THEN "end" ELSE "look")
  /\ UNCHANGED <<reporterFrame, stateVars, pServer, mtx, list, list_num, num, out>>

\* A round of syslog reports at once, without the mutex but for each pop.
SyslogRound(r) ==
  /\ kind \in Syslog
  /\ reporters[r].at = "inner"
  /\ Up
  /\ reporters' = [reporters EXCEPT ![r].at = "batch", ![r].n = 0]
  /\ UNCHANGED <<reporterFrame, stateVars, pServer, mtx, list, list_num, num, out>>

\* Slip: only a list of the remembered length is reported.
BatchedRoundByLength(r) ==
  /\ kind \in Batched
  /\ reporters[r].at = "inner"
  /\ Up
  /\ IF reporters[r].ctrl
     THEN /\ mtx = Nobody
          /\ mtx' = r
          /\ reporters' = [reporters EXCEPT ![r].at = "batch", ![r].n = 0]
     ELSE ReporterTo(r, "tail") /\ UNCHANGED mtx
  /\ UNCHANGED <<reporterFrame, stateVars, pServer, list, list_num, num, out>>

\* flow and netflow wait until there are more records than nListCtrl, or as many as
\* they remember.
BatchedRound(r) ==
  /\ kind \in Batched
  /\ reporters[r].at = "inner"
  /\ Up
  /\ IF Len(list) > nListCtrl \/ reporters[r].ctrl
     THEN /\ mtx = Nobody
          /\ mtx' = r
          /\ reporters' = [reporters EXCEPT ![r].at = "batch", ![r].n = 0]
     ELSE ReporterTo(r, "tail") /\ UNCHANGED mtx
  /\ UNCHANGED <<reporterFrame, stateVars, pServer, list, list_num, num, out>>

IsFiltered(rec) == rec.src \in filtered

\* Slip: a record that is filtered is reported all the same.
ReporterTakesAll(r) ==
  /\ reporters[r].at = "batch"
  /\ list # <<>>
  /\ reporters[r].n <= nBreakCtrl
  /\ list' = Tail(list)
  /\ list_num' = IF kind \in Syslog THEN list_num - 1 ELSE list_num
  /\ out' = Append(out, Head(list))
  /\ reporters' = [reporters EXCEPT ![r].n = @ + 1]
  /\ UNCHANGED <<reporterFrame, stateVars, pServer, mtx, num>>

\* Slip: a round goes on past nBreakCtrl.
ReporterTakesOn(r) ==
  /\ reporters[r].at = "batch"
  /\ list # <<>>
  /\ list' = Tail(list)
  /\ list_num' = IF kind \in Syslog THEN list_num - 1 ELSE list_num
  /\ IF IsFiltered(Head(list))
     THEN UNCHANGED <<out, reporters>>
     ELSE /\ out' = Append(out, Head(list))
          /\ reporters' = [reporters EXCEPT ![r].n = @ + 1]
  /\ UNCHANGED <<reporterFrame, stateVars, pServer, mtx, num>>

\* The first record of the list is taken out, and reported or, if its source is
\* filtered, dropped.
ReporterTakes(r) ==
  /\ reporters[r].at = "batch"
  /\ list # <<>>
  /\ reporters[r].n <= nBreakCtrl
  /\ list' = Tail(list)
  /\ list_num' = IF kind \in Syslog THEN list_num - 1 ELSE list_num
  /\ IF IsFiltered(Head(list))
     THEN UNCHANGED <<out, reporters>>
     ELSE /\ out' = Append(out, Head(list))
          /\ reporters' = [reporters EXCEPT ![r].n = @ + 1]
  /\ UNCHANGED <<reporterFrame, stateVars, pServer, mtx, num>>

RoundEnds(r) ==
  /\ reporters[r].at = "batch"
  /\ list = <<>> \/ reporters[r].n > nBreakCtrl
  /\ ReporterTo(r, IF kind \in Syslog THEN "inner" ELSE "tail")
  /\ mtx' = IF kind \in Syslog THEN mtx ELSE Nobody
  /\ num' = IF kind = "flow" THEN 0 ELSE num
  /\ UNCHANGED <<reporterFrame, stateVars, pServer, list, list_num, out>>

\* The length of the list is remembered, until it is met again.
BatchedLooksBack(r) ==
  /\ reporters[r].at = "tail"
  /\ num' = IF num = 0 THEN Len(list) ELSE num
  /\ reporters' = [reporters EXCEPT ![r].at = "inner",
                     ![r].ctrl = IF num = 0 THEN FALSE ELSE @ \/ num = Len(list)]
  /\ UNCHANGED <<reporterFrame, stateVars, pServer, mtx, list, list_num, out>>

\* snmptrap takes the mutex for the first trap of a copy of the list.
TrapRound(r) ==
  /\ kind = "snmptrap"
  /\ reporters[r].at = "inner"
  /\ Up
  /\ list # <<>>
  /\ reporters' = [reporters EXCEPT ![r].at = "trap", ![r].rec = Head(list)]
  /\ UNCHANGED <<reporterFrame, stateVars, pServer, mtx, list, list_num, num, out>>

\* A trap of a filtered source is not erased, and the mutex, which is recursive, not
\* given back.
TrapTaken(r) ==
  /\ reporters[r].at = "trap"
  /\ mtx \in {Nobody, r}
  /\ IF IsFiltered(reporters[r].rec)
     THEN mtx' = r /\ UNCHANGED <<list, out>>
     ELSE /\ out' = Append(out, reporters[r].rec)
          /\ list' = RemoveFirst(list, reporters[r].rec)
          /\ mtx' = Nobody
  /\ reporters' = [reporters EXCEPT ![r].at = "inner", ![r].rec = <<>>]
  /\ UNCHANGED <<reporterFrame, stateVars, pServer, list_num, num>>

\* Destroy, handle_close; syslog clears its list, but not list_num.  The lists of
\* flow and netflow go with the server object; snmptrap's is static.
ReporterEnds(r) ==
  /\ reporters[r].at = "end"
  /\ Prompt => ~Busy(servers, {"deleting"})
  /\ pServer' = FALSE
  /\ list' = IF kind = "snmptrap" THEN list ELSE <<>>
  /\ ReporterTo(r, "down")
  /\ UNCHANGED <<reporterFrame, stateVars, mtx, list_num, num, out>>

\* m_bIsRunning is reset last: the manager may free the plugin.
ReporterDown(r) ==
  /\ reporters[r].at = "down"
  /\ m_bIsRunning' = FALSE
  /\ reporters' = [reporters EXCEPT ![r] = NoReporter]
  /\ mtx' = IF mtx = r THEN Lost ELSE mtx
  /\ UNCHANGED <<reporterFrame, pServer, list, list_num, num, out>>

Reporter(r) ==
  \/ ReporterLooks(r) \/ ReporterLeaves(r)
  \/ SyslogRound(r) \/ BatchedRound(r) \/ ReporterTakes(r) \/ RoundEnds(r)
  \/ BatchedLooksBack(r) \/ TrapRound(r) \/ TrapTaken(r)
  \/ ReporterEnds(r) \/ ReporterDown(r)

-----------------------------------------------------------------------------
Next == Worker \/ \E t \in Threads : Server(t) \/ Reporter(t)

Spec == Init /\ [][Next]_vars

(***************************************************************************)
(* Threads are scheduled; the report thread sleeps without the mutex after *)
(* every round, so that the server thread gets it in the end.              *)
(***************************************************************************)
FairSpec ==
  /\ Spec
  /\ WF_vars(StartReport) /\ WF_vars(StartReturns) /\ WF_vars(StopReturns)
  /\ \A t \in Threads : SF_vars(Server(t)) /\ WF_vars(Reporter(t))

-----------------------------------------------------------------------------
(* Properties.  They are about the plugins with a reactor, whose Start waits for its *)
(* threads.  snmptrap keeps none of them: before its report thread has looked, the   *)
(* plugin says that it does not run, so that a STOP stops nothing and a START makes  *)
(* a second pair of threads.                                                         *)

HasReactor == kind \in Reactors

\* Between the Worker's calls, a plugin that says it does not run has no thread
\* left that would touch it: the manager may free it or start it again.
StoppedIsQuiet ==
  HasReactor /\ call = "idle" /\ ~m_bIsRunning =>
    \A t \in Threads : servers[t] = NoServer /\ reporters[t] = NoReporter

\* A server that has opened its port leaves its loop only because of a Stop.
StaysUp ==
  [][\A t \in Threads :
       HasReactor /\ servers[t].at = "loop" /\ servers'[t].at = "closing"
         => call = "stopping"]_vars

\* Records are passed on in order and once, and only filtered ones are dropped,
\* except for those that wait when the plugin stops.
Relay == INSTANCE LogRelay WITH
  SourceOf <- LAMBDA rec : rec.src,
  waiting <- IF HasReactor THEN list ELSE <<>>,
  reported <- IF HasReactor THEN out ELSE <<>>,
  open <- HasReactor /\ m_bServerState

RelaySpec == Relay!Spec

\* A stop comes to its end.
StopEnds == HasReactor /\ call = "stopping" ~> call = "idle"

\* As long as the port is open, no more records are kept waiting than nListCtrl
\* allows; syslog keeps none.
Allowed == IF kind \in Batched THEN nListCtrl ELSE 0
Relayed ==
  HasReactor /\ Len(list) > Allowed ~> (Len(list) <= Allowed \/ ~m_bServerState)

\* Policies filter the records of the devices that they name, and no others: a
\* record of another device that has arrived does not stay while the port is open.
Unreported(rec) ==
  \/ \E k \in DOMAIN list : list[k] = rec
  \/ \E s \in Threads : servers[s].at = "input" /\ servers[s].rec = rec
OthersPass ==
  \A rec \in Records :
    (Unreported(rec) /\ ~IsFiltered(rec))
      ~> (~Unreported(rec) \/ IsFiltered(rec) \/ ~m_bServerState)
-----------------------------------------------------------------------------
(* The inductive invariant, where threads are prompt *)

Idle(threads) == Free(threads) = Threads

\* There is one server thread and one report thread at most, and those that are not
\* there have left nothing behind.
OneOfEach ==
  /\ \A s, t \in Threads : s \in Free(servers) \/ t \in Free(servers) \/ s = t
  /\ \A r, t \in Threads : r \in Free(reporters) \/ t \in Free(reporters) \/ r = t
  /\ \A t \in Threads :
       /\ IF servers[t].at = "input" THEN servers[t].rec \in Records
          ELSE servers[t].rec = <<>>
       /\ t \in Free(reporters) => reporters[t] = NoReporter
  /\ call # "idle" => MaxThreads >= 1

\* What the server thread may be about during the Worker's calls; its loop ends only
\* because of a Stop.
ServerSound ==
  /\ m_bServerState <=> Busy(servers, {"loop", "input", "closing"})
  /\ kind \notin Batched => pReactor = Shared
  /\ \A s \in Threads :
       /\ servers[s].at = "open" =>
            call = "server" /\ ~m_bIsRunning /\ (kind \in Batched \/ Shared \notin ended)
       /\ servers[s].at \in {"loop", "input"} =>
            pReactor = LoopOf(s) /\ (LoopOf(s) \in ended => call = "stopping")
       /\ servers[s].at \in {"closing", "deleting"} => call = "stopping"
       /\ servers[s].at = "deleting" => kind \in Batched
  /\ kind \in Syslog /\ ended # {} =>
       call = "stopping" /\ Busy(servers, {"loop", "input"})

\* The report thread ends only after the server, and m_bIsRunning with it.
ReporterSound ==
  \A r \in Threads :
    /\ reporters[r].at # "look"
    /\ reporters[r].at \notin {"none", "new"} => m_bIsRunning
    /\ reporters[r].at \in {"end", "down"} => ~m_bServerState
    /\ reporters[r].at = "down" => Idle(servers) /\ ~pServer
    /\ reporters[r].at = "new" => call = "report" /\ (m_bIsRunning => Idle(servers))
    /\ reporters[r].at # "trap"

\* The flag tells the Worker the truth at the places where it looks.
CallSound ==
  /\ call = "idle" /\ ~m_bIsRunning => Idle(servers) /\ Idle(reporters)
  /\ call = "idle" /\ m_bIsRunning =>
       Busy(servers, {"loop", "input"}) /\ ~Idle(reporters)
  /\ call = "server" => Idle(reporters) /\ (Idle(servers) <=> m_bIsRunning)
  /\ call = "report" =>
       IF Idle(servers) THEN Idle(reporters) <=> ~m_bIsRunning
       ELSE ~Idle(reporters)
  /\ call = "stopping" =>
       IF m_bIsRunning THEN ~Idle(reporters)
       ELSE Idle(servers) /\ Idle(reporters) /\ ~pServer

\* No more records wait than have arrived; syslog's counter is not below its list.
ListSound ==
  /\ Len(list) <= received /\ list_num <= received
  /\ Busy(servers, {"input"}) => Len(list) < received /\ list_num < received
  /\ kind \in Syslog => Len(list) <= list_num

\* Server thread, report thread and Worker agree about who is there, at every step of
\* starts, stops and failures to open the port.
ReceiverInv ==
  /\ TypeOK
  /\ HasReactor => OneOfEach /\ ServerSound /\ ReporterSound /\ CallSound /\ ListSound
=============================================================================

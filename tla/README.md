# Formal models of the SOC collector agent

This directory holds TLA+ specifications of the collector agent (`src/Agent`) and
of its plugins (`src/Plugin`), the TLC configurations that check them on small
instances, and TLAPS proofs about all components that are modelled in detail.

## 1. Inventory: the system

The agent is one process. At start it loads the plugins named in a module file
(shared libraries with the interface `CScModuleBase`), then runs four threads. A
management server (MS) sends commands; the plugins collect data and hand it to the
agent, which sends it to the analysis server.

| Component | State | Operations | Correct when |
|---|---|---|---|
| Agent application (`BDScModuleApp`) | REP socket `m_zmq_server`, REQ socket `m_zmq_requester`, request list `m_listreq`, `m_registered`, heartbeat periods, encryption settings, `m_nLog` | threads Reader, Worker, HeartBeatSend, HeartBeatRecv; `Sender`, called by every plugin | each message is answered; requests are executed once and in order; the heartbeat goes on; each report is labelled as it was encoded |
| Module manager (`BDScModuleMgr`) | `m_ScModuleList` under `m_mtxScModuleList`, a copy `bIsRunning` per module | `Load`, `Unload`, `SetModuleData`, `StartModule`, `StopModule`, `StartModuleTask`, `GetModuleStateString` | a plugin is only asked for what its state allows; a listed plugin is in memory; a stop is complete before the plugin is freed |
| Thread-pool plugins (weakpasswd, ping, monitor, inspector, ... ) | `m_vecPolicy` with results and flags, `m_vecThreadPool`, `m_pthreadnum`, `m_pthreadnum_alive`, `m_bIsRunning` | `SetData`, `Start`, `Stop`; handler threads and a report thread | a stop ends and leaves no thread; handlers have separate work; each result is reported whole and once; a task runs when and as often as it is asked for |
| filelog plugin | the pool above, `vec_log`, `bSendFalg`, the file `MarkPos/posList.pos` | a handler reads files line by line, the report thread sends batches, marks are written on the way | every line is sent, or the log tells why not; a crash loses and repeats little; no line is sent twice otherwise |
| Receivers (syslog over UDP and TCP, snmptrap, flow, netflow) | `m_strLogList` under `m_inputMutex`, `m_bServerState`, `m_bIsRunning`, the event loop `pReactor` | a server thread opens a port and appends what arrives, the report thread takes | records are relayed in order and once; a stop ends and leaves no thread behind; no record waits for ever |
| Watchdog (`AgentCheck`) | none | looks for the agent's process, starts a script | a dead agent is started again |
| Helpers (`utils`, `config`, `crypt`, `probuf`, `Plugin/share`, `Jni`) | none that threads share | parsing, probes, ciphers, generated code | functions return what their callers expect |

How they interact: Reader puts requests into `m_listreq`, Worker takes them and calls
the manager, the manager calls the plugin's virtual functions while it holds the list
mutex, HeartBeatSend takes the same mutex to ask each plugin for its state. Plugins
call back through `ReportData` into `Sender`. Inside a plugin the threads share plain
fields without a lock.

Hard behaviours: unsynchronised counters and flags in every plugin, thread start-up
that relies on sleeps of 1 ms and 10 ms, a stop that waits without limit under a mutex,
positions that are made durable before the data is sent, a file that changes while it
is read, a crash between any two steps, lost replies on a REQ socket.
`PROJECT.json` lists each of these hazards at its line with the properties that cover
it, or the reason why none does.

## 2. Modules

| Module | Models | Composes |
|---|---|---|
| `PluginPool` | the thread pool of one plugin: `SetData`, `Start`, `Stop`, handlers, report thread (`WeakpasswdMgr.cpp`) | - |
| `ManagedPlugin` | one plugin under the manager: load, configure, start, stop and wait, free | extends `PluginPool` |
| `PluginLife` | abstract: what a plugin promises the manager | - |
| `FileLogPipe` | filelog's handler, report thread, marks and backup, with the log file and faults around them | - |
| `BoundedQueue` | abstract: items leave in order and once; at most `capacity` wait | - |
| `Agent` | boot, Reader, Worker with the manager, HeartBeatSend; a plugin is a `PluginLife` here | - |
| `ServerLink` | HeartBeatSend and HeartBeatRecv on the REQ socket, `Sender`, MANAGE_AGENT's settings, an MS that is restarted | - |
| `LogReceiver` | server thread, list and report thread of the five receivers | - |
| `LogRelay` | abstract: records are passed on in order and once, or filtered | - |
| `TaskPlugin` | what handlers and report thread of ten pool plugins do with tasks, results and flags | extends `Cron` |
| `Cron` | `check_cron`: is a task due | - |
| `MC*` | instances for TLC: symmetry sets and small definitions | |
| `ManagedPlugin_proofs`, `LogReceiver_proofs`, `FileLogPipe_proofs`, `Agent_proofs`, `ServerLink_proofs`, `TaskPlugin_proofs` | theorems and proofs | extend their module |
| `FileLogOnce_proofs`, `AgentLife_proofs` | theorems and proofs that rest on those | extend `FileLogPipe_proofs`, `Agent_proofs` |

The detailed modules are tied together by the abstract ones. `ManagedPlugin` implements
`PluginLife` (property `LifeSpec`); `Agent` uses plugins only through `PluginLife` and keeps to
its rules (`LivesRespected`). The pipes in `FileLogPipe` and `Agent` both implement
`BoundedQueue` (`PipeSpec`, `RequestsInOrder`). The four receivers with a reactor implement
`LogRelay` (`RelaySpec`). `TaskPlugin` starts where `ManagedPlugin` leaves the pool, with its
threads running, and looks at what passes between them; `ServerLink` has the report threads of
all plugins as senders.

### 2.1 PluginPool and ManagedPlugin

A step is one access to a shared field, or several that no other thread can tell
apart. `call` is the thread that calls into the plugin (the Worker) with its place in
`StartScModule`, `Start`, `StopScModule`, ...; `hand[h]` and `rep[r]` are the threads
with their local variables. `--m_pthreadnum_alive` is a load and a store. `strResult`
is kept as the set of hosts whose passwords the text lists. `GetWeakPassword` is a
nondeterministic outcome. What threads of a freed object would do to its successor is
undefined in C++, so a load waits for `Quiet`; the properties look at the moment before.
Several report threads exist because a second `Start` may come while an old report
thread is on its way out.

Three assumptions of the code about time are constants, so that each run says which it
makes. `Start` sleeps 10 ms per handler "since a thread needs some time to start":
`PromptHandler` says that the handler gets through its prologue in that time. `Start`
and the loop in `StopScModule` sleep 1 ms: `PromptReporter` says that the report
thread's straight-line stretches fit into that. But `StopScModule` asks for the state
once more after `Stop`, and skips its loop with the sleep if the plugin has ended by then
(`BDScModuleMgr.cpp:175-180`, `StopAsk`): a stop may then return while the report thread
is between `m_bIsRunning = false` and `clear()` (`WeakpasswdMgr.cpp:326-327`).
`PromptClear` says that it gets over these two statements before the Worker has
come to the next `Start`; no sleep ensures that. `CreateMayFail` lets
`pthread_create` fail. The runs and theorems that make assumptions on them say which
(`Dependable`: threads can be created, the report thread is prompt and clears in time),
and `plugin_faults` shows what survives without; section 3 says what happens without
each.

### 2.2 FileLogPipe

Lines are numbered in the order of writing; the file holds `base + 1 .. written`, and an
offset is a number of lines. `mark` is the file's record in `posList.pos`, `buf` a record
still in the C++ stream's buffer: `MarkPos` seeks before it writes, which flushes the
previous record. `Rested` is the handler's `sleep(60)`: without `SlowReporter` one scan
of the report thread ends within it. `Start` stands for `SetData`, which makes a new
policy with an empty `vec_log`, and the creation of the threads.

`ReportData` retries on EAGAIN until zmq has the line, which is not the network: the line
is in `outq`, a queue of `SNDHWM` messages in the process, until `Transmit` puts it on the
`wire`. `sent` lists what `ReportData` took. With any other error it returns false and the
loop goes on with the next line (`ReporterSendFails`); the plugin's log tells of such a
line, and so does `refused`.

What may go wrong is counted by `faults`. `Crash` loses the threads, `vec_log`, `buf` and
`outq`. `Truncate` is a rotation in place (only while the handler does not read, otherwise
the stream's behaviour would have to be modelled). `Fault("rename")` is a failing backup.
`HandlerOpenFails`: a file that cannot be opened is moved away unread, in the mode that
keeps positions too, and its mark stays, so that the first lines of its successor may be
taken for sent. `HandlerStatFails`: a file that cannot be looked at waits for the next
round.

### 2.3 Agent

`reader`, `worker` and `beat` are the three threads with their places; `up` tells whether
`RunProcess` has created them, for `Initlize` loads the modules before: until then the main
thread stands at the Worker's place. `ZmqSend` on a REP socket that owes no answer fails, which
is what the second answer to an empty message does. `life[m]` and `tasked[m]` are the plugins as
`PluginLife` sees them, `m_ScModuleList[k].bIsRunning` the manager's copy. `SelfStopping` are
controller and threatint, whose report thread calls the plugin's own `Stop` after a report
(`ControllerMgr.cpp:310-318`, `ThreatIntMgr.cpp:364-372`): `PluginQuits` takes them down with
work left, and the copy stays true until the plugin is asked again. `quit` in a list entry is
history and remembers that; it is what `CopyNotAhead` excepts. Requests that are not for a
plugin carry no module, since the Worker does not look at it, except for MANAGE_AGENT, whose
settings are in `ServerLink`. The `while` loop that `StopScModule` waits in is the guard of
`StopReturns`, with the mutex held. `GetRealModuleId`, which maps one special id to another, is
the identity for every plugin in this repository and is left out. A failed parse of the module
file is a load in which every module fails; the modules come in any order. Access to `m_listreq`
is atomic, for the Worker reads `size()` and the front without the lock that the push holds, and
a `std::list` keeps its front in place.

### 2.4 ServerLink

`talk[t]` is a thread that makes a message and the message itself: it is encoded with
the settings of one moment (`Encode`), labelled with those of a later one (`Label`) and
sent. `EnCodeData` gives the ways in which a content may come out: if the encryption
throws, the exception is caught, the content stays plain, and the message is labelled as
encrypted all the same (`BDScModuleApp.cpp:986-991`, `918`). `calm` is history and tells
whether a setting has changed between encoding and label. The settings at start are the
configuration's (`BDScModuleApp.cpp:456-463`); `WriteSetting` is one of the four
assignments of MANAGE_AGENT, `worker.i` counts them. `Valid` is the assertion in the
generated setters: the Makefile has no `-DNDEBUG`, so a number outside the enumeration
ends the process (`alive`), and nothing tests what the MS asks for (`854-855`). That
happens with numbers that the repository documents: `socmsg.proto:134` names 0 and 1 to
5, the enumeration has 4000 to 4005. `link` has such a number, and its properties
except an agent that has ended. `req` tells which call the REQ
socket waits for, `wire` and `reply` are the request and the answer under way; a send on
a socket that waits for an answer fails and its message is lost. The MS is external: it
answers REGISTER with SESSION, and any heartbeat of an agent that it does not know with
REGISTER. `MsRestarts` makes it forget the agent and, if `Lossy`, loses what is under way.
Senders have a message object of their own; in the code all plugins that send the same
type share one, and two threads that change one protobuf string at a time have no defined
outcome. Nor is the use of one zmq socket by two threads modelled.

### 2.5 LogReceiver

One module for five plugins, whose differences are in the guards: which of them own a
reactor (`Batched`), use ACE's singleton (`Syslog`), or a loop of their own (`snmptrap`).
`servers[t]` and `reporters[t]` are threads with their places, several of each since a
new Start may come while an old thread is on its way out; `ended` are the event loops
that were told to end, so that a flag which stays set would end the next server at once.
`ReporterTakes` is one turn of the loop over the list; `RoundEnds` and
`BatchedLooksBack` are what flow and netflow do between two rounds, with `num` static
and `ctrl` local as in the code. `Prompt` stands for the sleeps of 50 ms in the `Start` of
the four plugins with a reactor, and of a second in their server threads: a thread gets to
its next wait in that time. `list` keeps `list_num` beside it, for syslog never resets it.

snmptrap's `Start` makes both threads one after the other and returns 20 ms later
(`SnmpTrapMgr.cpp:219-231`), while its report thread looks once a second (`326`). Until it
has looked the plugin says that it does not run: a STOP then stops nothing, the plugin may
be freed with threads in it, and a START makes a second pair of threads, one of
whose servers finds the port taken (`PortTaken`) and whose report thread does not end. The
model has these starts and stops, as far as they are defined (a server object that is used
while another thread deletes it is not), and no property holds of snmptrap beside the types;
so the properties of this module are about the other four (`HasReactor`).

### 2.6 TaskPlugin and Cron

A policy stands for one of its subtasks: its result is the number of the run that made it, its
flag is `nfinished`, `m_mapFinished[i]` or `bChange`. `handlers[h]` goes through its policies in
steps of `m_pthreadnum`, `reporter` through all of them, and nothing is assumed about how fast
they are. `Gated` plugins do not run a task whose flag is set, `Silent` ones need not have a
result, `Scheduled` ones ask `check_cron`, `Commanded` ones stop themselves after a report.
`ReportData` may fail: ping keeps the flag then and tries again, the other nine reset it as
after a success (`MonitorMgr.cpp:311-316`, `BdSarMgr.cpp:327-332`, `ControllerMgr.cpp:303-312`),
and the result is lost. `made` and `tried`, the results stored and those handed to `ReportData`,
are history. `Tick` passes two minutes of each day, from a Sunday on which the 1st of a month
falls. `check_cron` is translated as the compiler reads it: `>>` binds weaker than `-`, and `%`
stronger, so all days from the n-th on are tested, not the n-th (`bdstring.cpp:412,418`).

## 3. Runs

| Run | Instance | Shows |
|---|---|---|
| `plugin_one` | 2 handlers with a host each, automatic start, fair | every stop ends unless a decrement is lost, `LifeSpec` |
| `plugin_pool` | 2 handlers, 2 report threads, 3 hosts in shares of 2, restarts without limit | the inductive invariant and what follows from it: quiet stops, separate work, whole results, a counter that is never too low |
| `plugin_faults` | 2 handlers, 2 report threads, failing `pthread_create`, slow handlers | a plugin that says it runs has a report thread |
| `filelog_calm` | 6 lines (one empty), batches of 2, marks every 2 lines, a send queue of 1, both modes, 2 stops, failing `stat`s or failing reports, fair | handoff, sent once, `PipeSpec`, every line leaves the process |
| `filelog_crash` | 8 lines, batches of 1, marks every 2 lines, a send queue of 1, both modes, slow reporter, 2 faults of all seven kinds | types and the inductive invariant, bounds on loss and repetition |
| `agent` | 1 plugin that is started automatically and may stop itself, 2 messages of any kind, fair | the inductive invariant, answers, order, life cycles; requests are served, heartbeats go on |
| `receivers` | all five, 2 records of 2 devices, ports that may be taken, filters, restarts without limit, fair | of the four with a reactor: `LogRelay` is implemented, a stop ends and leaves no thread, records do not wait for ever |
| `link` | heartbeats and one report thread, one change of the settings, a number that is no enumerator among them, a restart of the MS with losses, fair | labels, refusals, registration |
| `tasks` | each of ten plugins, 1 or 2 handlers, 2 policies, 3 runs, 4 minutes, two crons | results once and in order, runs bounded, once a minute at most |

Three more runs refute what a comment says; `findings` in `PROJECT.json` quotes it:

| Run | Refuted | What happens |
|---|---|---|
| `plugin_lost` | `ReporterFollows` | two handlers end at once, one decrement of `m_pthreadnum_alive` is lost (`WeakpasswdMgr.cpp:398`), and the report thread waits for ever for a zero; so does `StopScModule`, with the list mutex held |
| `receiver_filter` | `OthersPass` | a trap of a filtered device stays at the head of the list and the mutex with the report thread, and no other trap is reported any more |
| `tasks_saturday` | `OnSchedule` | a task for Saturdays runs on Mondays: the precedence in `check_cron` |

The passing runs hold under assumptions that the code makes without ensuring them. To
see what each is worth, change the constant and run again:

| In | Set | Violated | Because |
|---|---|---|---|
| `plugin_one` | `PromptHandler = FALSE` | `StopEnds` | a handler scheduled after `Stop` arms its entry again |
| `plugin_one` | `PromptClear = FALSE` | `StopEnds`, `LifeSpec` | a stop has returned before `clear()`, which then empties the pool that the next start is filling: `Stop` no longer reaches the handlers |
| `plugin_pool` | `PromptClear = FALSE` | `OwnPoolEntry` | the same: handlers without an entry in the pool |
| `plugin_pool` | `PromptHandler = FALSE` | `OwnPoolEntry`, `ResultNotTorn` | a handler takes its number when it is scheduled, and may find a pool that has grown since |
| `plugin_pool` | `PromptReporter = FALSE` | `StoppedIsQuiet`, `NeverUndercounted`, `DownOnlyWhenEmpty` | the report thread that `Start` has created has not begun yet when `Start` returns |
| `plugin_pool` | `CreateMayFail = TRUE` | `StoppedIsQuiet` | a failed start leaves its threads and a module that counts as stopped |
| `plugin_faults` | three `Reporters`, and check them | `NeverUndercounted` | a report thread that is left over from failed starts clears the pool while `Start` fills it: a handler ends at once, and its decrement overwrites an increment of `Start` |
| `filelog_calm` | `Faults` with `"truncate"` | `AlreadySent` | a file truncated and filled up to its old size looks unchanged |
| `filelog_calm` | `Faults` with `"open"` | `AlreadySent`, `EveryLineSent` | a file that cannot be opened is moved away unread, and its mark covers the first lines of the next one |
| `filelog_calm` | `Faults` with `"crash"` | `AlreadySent` | a crash loses the last batch of a file whose end is marked already |
| `filelog_calm` | `SlowReporter = TRUE` | `AlreadySent` | a stop lets both threads end with lines in `vec_log` |
| `filelog_calm` | `GrowWhileRead = TRUE` | `SentOnce` | lines appended while the file is read are sent, but not marked |
| `filelog_crash` | `GrowWhileRead = TRUE`, `WRITE_RATE = 1` | `BoundedRepeat` | the mark stays at the size that the file had when it was opened, however many lines follow |
| `receivers` | `Prompt = FALSE` | `StoppedIsQuiet`, `StaysUp`, `RelaySpec` | flow's and netflow's server thread deletes the reactor of its successor; a report thread sees an old server's state |

One more property of `ManagedPlugin` states what the code means to do and does not hold:
`ResultOfItsHost` (`WeakpasswdMgr.cpp:346`, the vector of passwords is not emptied between
two hosts).

Bounds. Two handlers suffice for each race on the pool, since every shared field is touched by
pairs of threads; where threads can be created there is one report thread at most
(`ReporterSound`, proved), and the second slot would show a second one. In `plugin_faults` the
two slots hold one of an old and one of a new start; `HasRoom` keeps a start that would need
more from happening, and the table above shows why that bound is not enough for other
properties. Its own property is proved for any number. Three hosts in shares of two give one
handler a second host. In `filelog_calm` six lines with batches of two give several batches, a
last incomplete one and several marks. `filelog_crash` has seven lines that are not empty, and
two faults of two lines each, with the two that wait, allow six to be lost: the bound of
`BoundedLoss` can be broken, and two faults let one hit the recovery from the other. The file
does not grow while it is read in either run; `PipeCorrect` and `LossBounded` are proved for
that case too. With the automatic start two messages give a start, a command and a stop, or an
unload followed by a load. The plugin of `agent` is one that may stop itself, which may also not
happen; a second one is beyond liveness checking, and safety is proved for any number of plugins
of both sorts. In `receivers` a list limit of one and batches of one make the limits bite with
two records, and two threads of either sort are an old and a new one; filters of snmptrap are
left to `receiver_filter`. In `link` three refusals are reached, so the bound of `FewRefused` is
tight. In `tasks` two policies with one thread make a share of two, with two threads shares of
one; the third run of a task is the one that `RunsBounded` forbids; four minutes contain the end
of a day and of a week's day. The sets of days of `tasks` are ones for which `check_cron` is
right, `tasks_saturday` has one for which it is not. `received`, `written`, `faults`, `changes`,
`restarts`, `runs` and `minute` are bounded in the guards, and every bound is a constant with a
comment.

`plugin_faults`, `tasks`, `tasks_saturday`, `link` and `receiver_filter` set
`CHECK_DEADLOCK FALSE`: a start that fails halfway leaves a plugin that has used up the
instance's slots for good, a plugin whose threads have ended after a stop has no further step
in `TaskPlugin`, an agent that has failed an assertion is gone, and the filtered trap brings
everything to a standstill. In the other instances no state is without a successor.

Fairness. The kernel schedules every thread that can run (weak fairness), sleeps end,
and `ReportData` and the probes return. The agent's Worker and HeartBeatSend get strong
fairness because each waits for a mutex that the other takes again and again; the code
justifies it by the sleeps of both threads outside the mutex, during which the other
gets it. A receiver's server thread gets strong fairness for the same reason: the report
thread sleeps without the mutex after every round. Commands, records, log lines and
restarts come or do not come: they have no fairness. The MS answers (`ServerLink`), as a
REP socket has to, and the network takes what zmq has queued (`Transmit`). In `Agent` a
plugin's `Up` and `Down` are weakly fair. `LifeSpec` shows that of a pool of two handlers
under the timing assumptions of 2.1, unless a decrement of the counter is lost; so
`RequestsServed` and `HeartbeatGoesOn` hold of an agent whose plugins lose none.
`plugin_lost` shows that they may: then neither holds, and the Worker waits with the mutex.

## 4. Proofs

TLAPS proves for every value of the constants that satisfies the named assumptions
(`PoolAssumption`, `AutoStartAssumption`, `ReceiverAssumption`, `FileLogAssumption`,
`AgentAssumption`, `LinkAssumption`, `TaskAssumption`):

| Module | Theorem | Statement |
|---|---|---|
| `ManagedPlugin_proofs` | `PoolSafe` | `Spec => []PoolInv`, if threads can be created and the report thread is prompt (`Dependable`) |
| | `PluginSafe` | `Spec => []PluginInv`, if `Dependable` |
| | `StoppedQuiet` | `Spec => []StoppedIsQuiet`, if `Dependable`: a report thread before `clear()` may be left |
| | `CountedEnough` | `Spec => []NeverUndercounted`, if `Dependable` |
| | `DownWhenEmpty` | `Spec => DownOnlyWhenEmpty`, if `Dependable` |
| | `OwnEntry` | `Spec => []OwnPoolEntry`, if `Dependable` and `PromptHandler` |
| | `NotTorn` | `Spec => []ResultNotTorn`, if `Dependable` and `PromptHandler` |
| | `LifeKept` | `Spec => Life!Spec`, the safety half of `LifeSpec`, if `Dependable`: the plugin implements `PluginLife` |
| | `RunningWatched` | `Spec => []RunningIsWatched`, whatever the constants say |
| `LogReceiver_proofs` | `ReceiverSafe` | `Spec => [](HasReactor => ReceiverInv)`, if threads are prompt (`Prompt`) |
| | `StoppedSafe` | `Spec => []StoppedIsQuiet`, if `Prompt` |
| | `StaysUpSafe` | `Spec => StaysUp`, if `Prompt` |
| | `RelayCorrect` | `Spec => RelaySpec`, if `Prompt`: the four receivers with a reactor implement `LogRelay` |
| `FileLogPipe_proofs` | `PipeSafe` | `Spec => []FileLogInv` |
| | `HandoffSafe` | `Spec => []HandoffExclusive` |
| | `PipeCorrect` | `Spec => PipeSpec`: filelog's two threads implement a bounded, possibly lossy queue |
| `FileLogOnce_proofs` | `OrderSafe` | `Spec => []OnceInv`, in an undisturbed instance (`Undisturbed`) |
| | `OnceSafe` | `Spec => []SentOnce`, under the same assumption |
| | `AlreadySafe` | `Spec => []AlreadySent`, under the same assumption |
| | `LossBounded` | `Spec => []BoundedLoss` |
| | `RepeatBounded` | `Spec => []BoundedRepeat`, where positions are kept (`bLargeLog`), if not `GrowWhileRead` |
| `Agent_proofs` | `AgentSafe` | `Spec => []AgentInv` |
| | `AnswerSafe` | `Spec => []Answered` |
| | `ListSafe` | `Spec => []ListedAreLoaded` |
| | `QueueCorrect` | `Spec => RequestsInOrder`: Reader and Worker implement a queue |
| `AgentLife_proofs` | `LifeSafe` | `Spec => []LifeInv` |
| | `CopySafe` | `Spec => []CopyNotAhead` |
| | `LivesCorrect` | `Spec => LivesRespected`: plugins are only asked for what `PluginLife` allows |
| `ServerLink_proofs` | `LinkSafe` | `Spec => []LinkInv`, whatever the MS asks for |
| | `RefusalsBounded` | `Spec => []FewRefused` |
| `TaskPlugin_proofs` | `HandoffSafe` | `Spec => []TaskInv` |
| | `EachResultOnce` | `Spec => []EachOnce` |
| | `OnceIsOnce` | `Spec => []OnceBounded`, a half of `RunsBounded` |
| | `RunsAreBounded` | `Spec => []RunsBounded` |
| | `BeginsOnceAMinute` | `Spec => OnceAMinute` |

`PoolInv` says who is there at each place of the Worker. The hard part is the counter
`m_pthreadnum_alive`, whose decrement is a load and a store: a handler that has read it writes
back one less, and forgets what others have written in between. `WaitSound` keeps it from going
too low: not only is the counter at least the number of handlers alive, so is each value that a
handler holds (`Alive <= hand[h].reg`), so that the store of the handler that leaves next is
still enough. It may stay too high, for good: that is `plugin_lost`. It holds because decrements
begin only in a stop: `RunSound` says that a handler leaves its loop nowhere else, `StartSound`
that `Start` counts alone, while the handlers that it has made are in their loops, and
`RestSound` that a stopped plugin is as good as new but for a pool that the report thread is
about to clear, and `PromptClear` that a start finds not even that. `ReporterSound` adds that
there is one report thread, whose place tells whether the plugin runs, and that it gets to the
end only when the last handler is gone. `StoppedIsQuiet`, `NeverUndercounted` and
`DownOnlyWhenEmpty` follow. The number of handlers is a `Cardinality`: the proof needs that
creating one adds one and ending one takes one away, and no more.

`ShareSound` is the division of work among prompt handlers: while `Start` sleeps, one
handler at a time is in its prologue and takes the last entry of the pool
(`NumberSound`), so numbers differ; each handler goes through hosts that are its number
plus a multiple of `m_pthreadnum` (`Walks`), and these sets are disjoint
(`ShareUnique`, the one lemma with multiplication). A handler therefore never writes a host
whose result is being sent (`SendSound`).

`RunningIsWatched` needs no invariant beside types of its own and no assumption: only
the report thread sets `m_bIsRunning`, and it resets the flag before it leaves its loop.
What the other theorems lose without `Dependable`, the table of section 3 says.

`ReceiverInv`: server thread, report thread and Worker learn about each other from
`m_bServerState`, `m_bIsRunning` and `pReactor` alone. `OneOfEach` says that old threads are
gone when new ones are made, `ServerSound` that the loop that was told to end is the one that
runs, `ReporterSound` that the report thread ends after the server, `CallSound` what the flags
mean to the Worker where it looks. All of that is said of the plugins with a reactor, and of any
of them whose port may be taken (`Failing`). `ListSound` bounds the list and syslog's counter by
what has arrived. In the refinement `LogRelay`'s `waiting` is `list` and its `open` is
`m_bServerState`; `StaysUp` is what a step may do to that.

`PipeInv` strengthens `HandoffExclusive`: it is preserved by the handler's steps only if
a full batch is always released (`BatchBounded`), by the report thread's only if its
index and the emptied vector are where its place says (`ReporterInside`), and the
restart, which drops `vec_log`, is a step of the lossless queue only if nothing waits
between rounds (`Released`, where the reporter is not slow). `MarksSound` and
`InsideFile` keep the types of the marks and offsets.

`Undisturbed` is what `filelog_calm` assumes of the mode with positions: a file that does not
grow while it is read, a report thread that comes within the handler's sleep, no faults but
stops, failing `stat`s and failing reports; section 3 shows what breaks without. `OnceInv`
then says that `sent` followed by what waits in `vec_log` is in order, and is, with what was
`refused`, the file up to the handler's place without its empty lines (`StreamInOrder`), and
that each mark lies at the handler's place or at the end of what it has read
(`MarksInTime`), so that the next round begins where the last one ended. `AlreadySafe`
follows, for a handler that leaves a file alone has taken all that its mark covers.

`AgentInv`: `ReaderOwes` extends `Answered` to the place after the reply; `MutexHeld`
ties the mutex to its holder's place; `ListSound` says that outside `Unload` the list
names each module at most once and only modules in memory, and that a load adds modules
it has not gone through; `QueueSound` keeps the request in execution at the front of
`m_listreq`, without which `WorkerPop` could take another one. `ListedAreLoaded` follows
because the heartbeat's mutex keeps the Worker out of `Unload`. `LifeInv` adds
`LifeSound`, which ties the state of each plugin to the Worker's place (a plugin on its
way up or down is the one that the Worker waits for, what is in memory is listed or just
being loaded, `Unload` has freed exactly the entries before its index), and `CopySound`,
which lets the copy `bIsRunning` run ahead only in a stop or an unload, or of a plugin that has
stopped itself since it was asked.

`LinkInv`: a label is true, but for a content that could not be encrypted, because a message
that was encoded in peace came out as the settings allow (`EncodedAsAsked`) as long as
they are those of one request (`Consistent`); a number that is no enumerator ends the agent
before it sends a label. `RefusalInv` counts the heartbeats that may still be refused: two on the
way of an agent that believes itself registered, one fewer for each answer that tells it
otherwise.

`HandoffInv` of `TaskPlugin`: each handler keeps to its share of the policies and no two
are at the same one (`SharesKept`); the report thread works where the flag is set, a
handler with a new result where it is not (`FlagsSound`); a stored result is the last of
`made` and waits until it is the last of `tried` (`ResultsSound`); the one report of a task
that is to run once (`OnceSound`). None of that depends on how fast a thread is. Two more
invariants stand on it.

- `RoundsSound`: the flag of a command keeps it from running again, and the stop comes
  before the flag is reset, so that only the round under way can bring a second run
  (`Ahead`).
- `MinutesSound`: before a round a handler of inspector has not run its last task in this
  minute, for after a run of it the handler sleeps into the next one.

What does not hold is that everything asked for is done and reported: a failed report is
not repeated (ping excepted); a result of ping or bdsar that is stored between report
and reset loses its flag; a result stored after the report thread's last scan is not reported;
and threatint's stop may come before the first command of another handler, which then leaves
its commands out (`ThreatIntMgr.cpp:364`, `432-436`). `hazards` lists these.

`LossSound` gives `BoundedLoss` without any assumption. It looks at all lines behind a mark, be
it in the file or in the stream's buffer, or behind the handler (`Claimed`): those that have not
left the process and do not wait in it (`Waiting`) are `Lost`. A step loses at most what waits,
a batch and a full send queue (`Capacity`); a crash loses all of it, a failing report one line,
a start what the batch still holds. A start has something to lose only after a stop, which is a
fault too; so each stop keeps a `Capacity` in reserve until the next start. `RepeatSound` says
that `nCount` counts the lines since the last mark, which is in the buffer or in the file, and
that a mark in the buffer is at most `WRITE_RATE` lines ahead of the one in the file.

Only model-checked: liveness (`StopEnds` of the plugins and of the receivers, `EveryLineSent`,
`RequestsServed`, `HeartbeatGoesOn`, `Relayed`, `OthersPass`, `EndsRegistered`), for fairness
and `ENABLED` are out of the prover's reach, and with it the fairness in `LifeSpec`, whose
safety is `LifeKept`. Each invariant and each action property that a passing run checks is
stated by a theorem, but for snmptrap's types. What `check_cron` computes for a set of days is
only evaluated by TLC, for the sets of `tasks` and `tasks_saturday`.

## 5. Not modelled

Vendored and generated code (OpenVAS client, ciphers, protocol buffers), the probes in
`Plugin/share` (a probe is a nondeterministic outcome), configuration files, the JNI
library, test programs, the watchdog.

Agent: the two heartbeat periods (`nPolicy * 1000000` overflows a 32-bit int above
2147 s), the counter `m_nLog`, `vecPolicy[0]` of an empty policy, which is undefined, and
the boot order of tables that plugins already use.

filelog: several files and directories of one policy, lines that are written in part
when they are read, and a `posList.pos` that cannot be opened.

Receivers: what becomes of snmptrap's server object while threads of two starts use it
(section 2.5), a failing `pthread_create`, several TCP connections, the parsing of records,
the reads of `begin()` and `size()` outside the mutex, and snmptrap's iterator into a copy
of the list that has been destroyed (`SnmpTrapMgr.cpp:302`), which are undefined.

Pool plugins: the work of a task and its subtasks; nmapscan's handler that returns after a
failed `popen` without counting itself out (`NmapscanMgr.cpp:356,471`), so that a stop
waits for ever; ping's first comparison with an uninitialised `nResult`
(`PingMgr.cpp:186`); the maps that inspector's handlers extend while the report thread
reads them; inspecUrl's `Stop`, which says at once that the plugin does not run
(`inspecUrlMgr.cpp:300`; the model has it, but not the manager that frees the plugin then).
sftp, openvas, topu, wmi and scanport organise their threads differently and are left
out: sftp's batches repeat filelog's handoff without marks; wmi and scanport have a single
thread and reset `m_bIsRunning` in `Stop` itself; openvas has a timer thread that nobody
waits for; topu has two pools.

## 6. What could come next

1. `ManagedPlugin` with the plugins that say too early that they have stopped
   (inspecUrl, wmi, scanport, openvas' timer): what the manager frees then.
2. sftp: a file is removed from the server although its download failed
   (`SftpMgr.cpp:468-478`), and read locally all the same.
3. topu's two pools.
4. Proofs: for which sets of days `check_cron` is right; the bounds on loss for a
   truncated file, and for one that is moved away unread.

-------------------------- MODULE ManagedPlugin_proofs --------------------------
(***************************************************************************)
(* Proofs about ManagedPlugin, for any numbers of handlers, report threads,*)
(* hosts and pool entries, where threads can be created and the report     *)
(* thread is prompt (Dependable); most of them for handlers of any speed.  *)
(***************************************************************************)
EXTENDS ManagedPlugin, FiniteSetTheorems, SequenceTheorems, TLAPS

(* The number of threads that SetData asks for *)

LEMMA CeilDivType ==
  ASSUME NEW a \in Nat, NEW c \in Nat \ {0}
  PROVE  /\ CeilDiv(a, c) \in Nat
         /\ CeilDiv(a, c) = 0 => a = 0
<1> DEFINE q == (a + c - 1) \div c
           r == (a + c - 1) % c
<1>1. a + c - 1 \in Nat
  OBVIOUS
<1>2. q \in Int /\ r \in 0 .. c - 1 /\ a + c - 1 = c * q + r
  BY <1>1
<1>3. q >= 0
  <2> SUFFICES ASSUME q <= -1 PROVE FALSE
    BY <1>2
  <2>1. c * q <= -c
    <3>1. c * (-1 - q) >= 0
      BY <1>2
    <3> QED  BY <1>2, <3>1
  <2> QED  BY <1>1, <1>2, <2>1
<1>4. q = 0 => a = 0
  BY <1>2
<1> HIDE DEF q, r
<1> QED  BY <1>2, <1>3, <1>4 DEF CeilDiv, q

LEMMA CeilDivMonotone ==
  ASSUME NEW a \in Nat, NEW b \in Nat, NEW c \in Nat \ {0}, a <= b
  PROVE  CeilDiv(a, c) <= CeilDiv(b, c)
<1> DEFINE p == (a + c - 1) \div c
           q == (b + c - 1) \div c
           r == (a + c - 1) % c
           s == (b + c - 1) % c
<1>1. /\ p \in Int /\ r \in 0 .. c - 1 /\ a + c - 1 = c * p + r
      /\ q \in Int /\ s \in 0 .. c - 1 /\ b + c - 1 = c * q + s
  OBVIOUS
<1> HIDE DEF p, q, r, s
<1>2. p <= q
  <2> SUFFICES ASSUME p >= q + 1 PROVE FALSE
    BY <1>1
  <2>1. c * (p - q - 1) >= 0
    BY <1>1
  <2>2. c * (p - q - 1) = c * p - c * q - c
    BY <1>1
  <2>3. c * p \in Int /\ c * q \in Int
    BY <1>1
  <2> QED  BY <1>1, <2>1, <2>2, <2>3
<1> QED  BY <1>2 DEF CeilDiv, p, q

-----------------------------------------------------------------------------
(* The sets of threads *)

LEMMA AliveType ==
  ASSUME PoolInv
  PROVE  Alive \in Nat /\ (Alive = 0 <=> LiveHandlers = {})
BY FS_CardinalityType, FS_EmptySet DEF PoolInv, IndexSound, Alive

\* The places of a Worker that deals with a stopped plugin.
Stopped == {"idle", "setdata", "startmodule", "start", "started", "stopped"}

\* Pool entries suffice for the handlers, and are not more than SetData asked for.
LEMMA PoolBound ==
  ASSUME PoolInv
  PROVE  /\ Alive <= poolSize /\ m_pthreadnum <= MaxSlots
         /\ m_bIsRunning \/ call.at \notin Stopped => poolSize <= m_pthreadnum
         /\ m_pthreadnum \in Nat /\ poolSize \in Nat /\ MaxSlots \in Nat
         /\ m_pthreadnum_alive \in Int /\ call.i \in Nat
<1>1. /\ m_pthreadnum \in Nat /\ poolSize \in Nat /\ MaxSlots \in Nat
      /\ m_pthreadnum_alive \in Int /\ call.i \in Nat /\ call.at \in CallAt
      /\ m_pthreadnum <= MaxSlots
  BY PoolAssumption DEF PoolInv, TypeOK, PoolTypeOK, RestSound
<1>2. CASE m_bIsRunning /\ call.at # "settle" /\ ~Stopping
  BY <1>1, <1>2, AliveType DEF PoolInv, RunSound, Filled
<1>3. CASE call.at \in {"create", "count", "report"}
  BY <1>1, <1>3, AliveType DEF PoolInv, StartSound
<1>4. CASE call.at = "settle"
  BY <1>1, <1>4, AliveType DEF PoolInv, StartSound, Filled
<1>5. CASE Stopping
  BY <1>1, <1>5, AliveType DEF PoolInv, WaitSound
<1>6. CASE ~m_bIsRunning /\ call.at \in {"idle", "setdata", "startmodule", "start",
                                         "started", "stop", "stopped", "failed"}
  BY <1>1, <1>6, AliveType DEF PoolInv, RestSound, Stopped
<1> QED  BY <1>1, <1>2, <1>3, <1>4, <1>5, <1>6 DEF CallAt, Stopping

LEMMA SameHandlers ==
  ASSUME hand' = hand
  PROVE  LiveHandlers' = LiveHandlers /\ Alive' = Alive
BY DEF LiveHandlers, Alive

LEMMA SameReporters ==
  ASSUME rep' = rep
  PROVE  LiveReporters' = LiveReporters
BY DEF LiveReporters

\* A step of a handler.
LEMMA HandlerMoves ==
  ASSUME PoolInv, NEW h \in Handlers, OnWeakpasswdHandle(h)
  PROVE  /\ h \in LiveHandlers /\ hand \in [Handlers -> HandlerState]
         /\ hand' \in [Handlers -> HandlerState]
         /\ \A g \in Handlers : g # h => hand'[g] = hand[g]
         /\ hand'[h].i \in Nat
         /\ UNCHANGED handlerFrame
<1>1. /\ hand \in [Handlers -> HandlerState] /\ policy \in Seq(PolicyRecord)
      /\ Len(policy) \in 0 .. MaxPolicies /\ MaxPolicies \in Nat /\ MaxSlots \in Nat
      /\ m_pthreadnum \in Nat /\ m_pthreadnum_alive \in Int /\ poolSize \in 0 .. MaxSlots
  BY PoolAssumption, PoolBound, LenProperties DEF PoolInv, TypeOK, PoolTypeOK
<1>2. h \in LiveHandlers
  BY DEF LiveHandlers, OnWeakpasswdHandle, HandlerNumber, HandlerArm, HandlerLoop,
     HandlerScan, HandlerStore, HandlerMark, HandlerNext, HandlerRoundEnd, HandlerLoadAlive,
     HandlerStoreAlive
<1>3. UNCHANGED handlerFrame
  BY DEF OnWeakpasswdHandle, HandlerNumber, HandlerArm, HandlerLoop,
     HandlerScan, HandlerStore, HandlerMark, HandlerNext, HandlerRoundEnd, HandlerLoadAlive,
     HandlerStoreAlive
<1>4. ASSUME NEW y \in HandlerState, hand' = [hand EXCEPT ![h] = y], y.i \in Nat
      PROVE  /\ hand' \in [Handlers -> HandlerState] /\ hand'[h].i \in Nat
             /\ \A g \in Handlers : g # h => hand'[g] = hand[g]
  BY <1>1, <1>4
<1>5. hand[h].i \in Nat /\ hand[h] \in HandlerState
  BY <1>1 DEF PoolInv, IndexSound
<1>6. CASE HandlerNumber(h)
  <2>1. poolSize - 1 \in SlotIndex
    BY <1>1 DEF SlotIndex
  <2>2. [hand[h] EXCEPT !.at = "arm", !.num = poolSize - 1] \in HandlerState
    BY <1>5, <2>1 DEF HandlerState, HandlerAt
  <2> QED  BY <1>1, <1>2, <1>3, <1>4, <1>5, <1>6, <2>2 DEF HandlerNumber, HandlerState
<1>7. CASE HandlerArm(h)
  <2>1. [hand[h] EXCEPT !.at = "loop", !.n = Len(policy)] \in HandlerState
    BY <1>1, <1>5 DEF HandlerState, HandlerAt
  <2> QED  BY <1>1, <1>2, <1>3, <1>4, <1>5, <1>7, <2>1 DEF HandlerArm, HandlerState
<1>8. CASE \E at \in HandlerAt : hand' = [hand EXCEPT ![h].at = at]
  <2>1. PICK at \in HandlerAt : hand' = [hand EXCEPT ![h].at = at]
    BY <1>8
  <2>2. [hand[h] EXCEPT !.at = at] \in HandlerState
    BY <1>5 DEF HandlerState
  <2> QED  BY <1>1, <1>2, <1>3, <1>4, <1>5, <2>1, <2>2 DEF HandlerState
<1>9. CASE HandlerLoop(h)
  <2>1. CASE HandTo(h, "exit")
    BY <1>8, <2>1 DEF HandTo, HandlerAt
  <2>2. CASE hand' = [hand EXCEPT ![h].at = "scan", ![h].i = hand[h].num, ![h].found = {}]
    <3>1. hand[h].num \in Nat
      BY <1>1, <1>2, <1>9 DEF HandlerLoop, PoolInv, RunSound
    <3>2. [hand[h] EXCEPT !.at = "scan", !.i = hand[h].num, !.found = {}] \in HandlerState
      <4>1. hand[h].num \in Int /\ {} \in SUBSET Hosts /\ "scan" \in HandlerAt
        BY <3>1 DEF HandlerAt
      <4> QED  BY <1>5, <4>1 DEF HandlerState
    <3> QED  BY <1>1, <1>2, <1>3, <1>4, <1>5, <2>2, <3>1, <3>2 DEF HandlerState
  <2> QED  BY <1>9, <2>1, <2>2 DEF HandlerLoop
<1>10. CASE HandlerScan(h)
  <2>1. PICK weak \in BOOLEAN, fin \in BOOLEAN :
          hand' = [hand EXCEPT ![h].at = IF fin THEN "next" ELSE "store",
                               ![h].found = IF weak THEN @ \union {hand[h].i + 1} ELSE @]
    BY <1>10 DEF HandlerScan
  <2>2. hand[h].i + 1 \in Hosts
    BY <1>1, <1>5, <1>10 DEF HandlerScan, HandlerState, Hosts
  <2>3. [hand[h] EXCEPT !.at = IF fin THEN "next" ELSE "store",
                        !.found = IF weak THEN @ \union {hand[h].i + 1} ELSE @]
          \in HandlerState
    BY <1>5, <2>2 DEF HandlerState, HandlerAt
  <2> QED  BY <1>1, <1>2, <1>3, <1>4, <1>5, <2>1, <2>3 DEF HandlerState
<1>11. CASE HandlerNext(h)
  <2>1. PICK at \in HandlerAt, i \in Nat : hand' = [hand EXCEPT ![h].at = at, ![h].i = i]
    <3>1. hand[h].i + m_pthreadnum \in Nat
      BY <1>1, <1>5
    <3>2. CASE b_state[hand[h].num]
      BY <1>1, <1>11, <3>1, <3>2 DEF HandlerNext, HandlerAt
    <3>3. CASE ~b_state[hand[h].num]
      BY <1>1, <1>5, <1>11, <3>3 DEF HandlerNext, HandlerAt
    <3> QED  BY <3>2, <3>3
  <2>2. [hand[h] EXCEPT !.at = at, !.i = i] \in HandlerState
    <3>1. i \in Int
      OBVIOUS
    <3> QED  BY <1>5, <3>1 DEF HandlerState
  <2> QED  BY <1>1, <1>2, <1>3, <1>4, <2>1, <2>2 DEF HandlerState
<1>12. CASE HandlerLoadAlive(h)
  <2>1. [hand[h] EXCEPT !.at = "dec", !.reg = m_pthreadnum_alive] \in HandlerState
    BY <1>1, <1>5 DEF HandlerState, HandlerAt
  <2> QED  BY <1>1, <1>2, <1>3, <1>4, <1>5, <1>12, <2>1 DEF HandlerLoadAlive, HandlerState
<1>13. CASE HandlerStoreAlive(h)
  <2>1. NoHandler \in HandlerState /\ NoHandler.i \in Nat
    BY <1>1 DEF NoHandler, HandlerState, HandlerAt, SlotIndex
  <2> QED  BY <1>1, <1>2, <1>3, <1>4, <1>13, <2>1 DEF HandlerStoreAlive
<1>14. CASE HandlerStore(h) \/ HandlerMark(h) \/ HandlerRoundEnd(h)
  BY <1>8, <1>14 DEF HandlerStore, HandlerMark, HandlerRoundEnd, HandTo, HandlerAt
<1> QED
  BY <1>6, <1>7, <1>9, <1>10, <1>11, <1>12, <1>13, <1>14 DEF OnWeakpasswdHandle

\* Only the end of a handler changes how many there are.
LEMMA HandlerLives ==
  ASSUME PoolInv, NEW h \in Handlers, OnWeakpasswdHandle(h)
  PROVE  IF HandlerStoreAlive(h)
         THEN /\ LiveHandlers' = LiveHandlers \ {h} /\ Alive' = Alive - 1
              /\ IsFiniteSet(LiveHandlers')
         ELSE LiveHandlers' = LiveHandlers /\ Alive' = Alive
<1>1. /\ h \in LiveHandlers /\ hand \in [Handlers -> HandlerState]
      /\ hand' \in [Handlers -> HandlerState]
      /\ \A g \in Handlers : g # h => hand'[g] = hand[g]
  BY HandlerMoves
<1>2. CASE HandlerStoreAlive(h)
  <2>1. hand'[h].at = "none"
    BY <1>1, <1>2 DEF HandlerStoreAlive, NoHandler
  <2>2. LiveHandlers' = LiveHandlers \ {h}
    BY <1>1, <2>1 DEF LiveHandlers
  <2> QED  BY <1>1, <1>2, <2>2, FS_RemoveElement DEF PoolInv, IndexSound, Alive
<1>3. CASE ~HandlerStoreAlive(h)
  <2>1. hand'[h].at # "none"
    <3>1. CASE \/ HandlerNumber(h) \/ HandlerArm(h) \/ HandlerLoop(h) \/ HandlerStore(h)
               \/ HandlerMark(h) \/ HandlerRoundEnd(h) \/ HandlerLoadAlive(h)
      BY <1>1, <3>1 DEF HandlerNumber, HandlerArm, HandlerLoop, HandlerStore, HandlerMark,
         HandlerRoundEnd, HandlerLoadAlive, HandTo, HandlerState
    <3>2. CASE HandlerScan(h)
      <4>1. PICK weak \in BOOLEAN, fin \in BOOLEAN :
              hand' = [hand EXCEPT ![h].at = IF fin THEN "next" ELSE "store",
                                   ![h].found = IF weak THEN @ \union {hand[h].i + 1} ELSE @]
        BY <3>2 DEF HandlerScan
      <4>2. hand'[h].at = IF fin THEN "next" ELSE "store"
        BY <1>1, <4>1 DEF HandlerState
      <4> QED  BY <4>2
    <3>4. CASE HandlerNext(h)
      <4>1. hand'[h].at = IF b_state[hand[h].num] THEN "scan" ELSE "loop"
        BY <1>1, <3>4 DEF HandlerNext, HandlerState
      <4> QED  BY <4>1
    <3> QED  BY <1>3, <3>1, <3>2, <3>4 DEF OnWeakpasswdHandle
  <2>2. LiveHandlers' = LiveHandlers
    BY <1>1, <2>1 DEF LiveHandlers
  <2> QED  BY <1>3, <2>2 DEF Alive
<1> QED  BY <1>2, <1>3

\* Start creates a handler.
LEMMA HandlerCreated ==
  ASSUME PoolInv, NEW h \in Handlers \ LiveHandlers,
         hand' = [hand EXCEPT ![h] = [NoHandler EXCEPT !.at = "born"]]
  PROVE  /\ hand' \in [Handlers -> HandlerState]
         /\ LiveHandlers' = LiveHandlers \union {h} /\ Alive' = Alive + 1
         /\ IsFiniteSet(LiveHandlers')
         /\ hand'[h].at = "born" /\ hand'[h].i = 0
         /\ \A g \in LiveHandlers : g \in Handlers /\ g # h /\ hand'[g] = hand[g]
<1>1. hand \in [Handlers -> HandlerState] /\ MaxPolicies \in Nat /\ MaxSlots \in Nat
  BY PoolAssumption DEF PoolInv, TypeOK, PoolTypeOK
<1>2. /\ [NoHandler EXCEPT !.at = "born"] \in HandlerState
      /\ [NoHandler EXCEPT !.at = "born"].at = "born" /\ [NoHandler EXCEPT !.at = "born"].i = 0
  BY <1>1 DEF NoHandler, HandlerState, HandlerAt, SlotIndex
<1>3. hand' \in [Handlers -> HandlerState] /\ hand'[h].at = "born" /\ hand'[h].i = 0
  BY <1>1, <1>2
<1>4. \A g \in LiveHandlers : g \in Handlers /\ g # h /\ hand'[g] = hand[g]
  BY <1>1 DEF LiveHandlers
<1>5. LiveHandlers' = LiveHandlers \union {h}
  BY <1>1, <1>3 DEF LiveHandlers
<1> QED  BY <1>3, <1>4, <1>5, FS_AddElement DEF PoolInv, IndexSound, Alive

\* A step of a report thread, which is the only one.
LEMMA ReporterMoves ==
  ASSUME PoolInv, NEW r \in Reporters, OnReportHandle(r)
  PROVE  /\ LiveReporters = {r} /\ rep \in [Reporters -> ReporterState]
         /\ rep' \in [Reporters -> ReporterState]
         /\ \A q \in Reporters : q # r => rep'[q] = rep[q]
         /\ LiveReporters' = IF ReporterClear(r) THEN {} ELSE {r}
         /\ UNCHANGED reporterFrame
<1>1. rep \in [Reporters -> ReporterState]
  BY DEF PoolInv, TypeOK, PoolTypeOK
<1>2. r \in LiveReporters
  BY DEF LiveReporters, OnReportHandle, ReporterTop, ReporterScan, ReporterSent,
     ReporterCheck, ReporterStop, ReporterClear
<1>3. LiveReporters = {r}
  BY <1>2 DEF PoolInv, ReporterSound
<1>4. UNCHANGED reporterFrame
  BY DEF OnReportHandle, ReporterTop, ReporterScan, ReporterSent, ReporterCheck,
     ReporterStop, ReporterClear
<1>5. ASSUME NEW y \in ReporterState, rep' = [rep EXCEPT ![r] = y],
             y.at = "none" <=> ReporterClear(r)
      PROVE  /\ rep' \in [Reporters -> ReporterState]
             /\ \A q \in Reporters : q # r => rep'[q] = rep[q]
             /\ LiveReporters' = IF ReporterClear(r) THEN {} ELSE {r}
  <2>1. rep' \in [Reporters -> ReporterState] /\ rep'[r] = y
        /\ \A q \in Reporters : q # r => rep'[q] = rep[q]
    BY <1>1, <1>5
  <2> QED  BY <1>2, <1>3, <1>5, <2>1 DEF LiveReporters
<1>6. CASE ReporterClear(r)
  <2>1. NoReporter \in ReporterState /\ NoReporter.at = "none"
    BY DEF NoReporter, ReporterState, ReporterAt
  <2> QED  BY <1>3, <1>1, <1>4, <1>5, <1>6, <2>1 DEF ReporterClear
<1>7. ASSUME ~ReporterClear(r), NEW at \in ReporterAt \ {"none"}, NEW i \in Nat,
             rep' = [rep EXCEPT ![r] = [at |-> at, i |-> i]]
      PROVE  /\ rep' \in [Reporters -> ReporterState]
             /\ \A q \in Reporters : q # r => rep'[q] = rep[q]
             /\ LiveReporters' = {r}
  <2>1. [at |-> at, i |-> i] \in ReporterState
    BY <1>7 DEF ReporterState
  <2> QED  BY <1>5, <1>7, <2>1
<1>8. CASE ~ReporterClear(r)
  <2>1. rep[r].i \in Nat /\ rep[r].i + 1 \in Nat /\ rep[r] = [at |-> rep[r].at, i |-> rep[r].i]
    BY <1>1 DEF ReporterState
  <2>2. \E at \in ReporterAt \ {"none"}, i \in Nat :
           rep' = [rep EXCEPT ![r] = [at |-> at, i |-> i]]
    <3>1. CASE ReporterTop(r)
      BY <3>1 DEF ReporterTop, ReporterAt
    <3>2. CASE ReporterScan(r)
      <4>1. \/ rep' = [rep EXCEPT ![r] = [at |-> "check", i |-> 0]]
            \/ rep' = [rep EXCEPT ![r] = [at |-> "send", i |-> rep[r].i]]
            \/ rep' = [rep EXCEPT ![r] = [at |-> "scan", i |-> rep[r].i + 1]]
        BY <3>2 DEF ReporterScan
      <4>2. CASE rep' = [rep EXCEPT ![r] = [at |-> "check", i |-> 0]]
        BY <4>2 DEF ReporterAt
      <4>3. CASE rep' = [rep EXCEPT ![r] = [at |-> "send", i |-> rep[r].i]]
        BY <2>1, <4>3 DEF ReporterAt
      <4>4. CASE rep' = [rep EXCEPT ![r] = [at |-> "scan", i |-> rep[r].i + 1]]
        BY <2>1, <4>4 DEF ReporterAt
      <4> QED  BY <4>1, <4>2, <4>3, <4>4
    <3>3. CASE ReporterSent(r)
      BY <2>1, <3>3 DEF ReporterSent, ReporterAt
    <3>4. CASE ReporterCheck(r) \/ ReporterStop(r)
      <4>1. PICK at \in ReporterAt \ {"none"} : rep' = [rep EXCEPT ![r].at = at]
        BY <3>4 DEF ReporterCheck, ReporterStop, ReporterAt
      <4>2. [rep[r] EXCEPT !.at = at] = [at |-> at, i |-> rep[r].i]
        BY <2>1
      <4> QED  BY <1>1, <2>1, <4>1, <4>2
    <3> QED  BY <1>8, <3>1, <3>2, <3>3, <3>4 DEF OnReportHandle
  <2> QED  BY <1>1, <1>3, <1>4, <1>7, <1>8, <2>2
<1> QED  BY <1>6, <1>8

-----------------------------------------------------------------------------
(* Every step of the Worker preserves the invariant *)

\* A record of the Worker's call, and what CallTo makes of it.
LEMMA Calls ==
  ASSUME PoolInv
  PROVE  /\ \A a \in CallAt :
              /\ [call EXCEPT !.at = a] \in [cmd : Commands, at : CallAt, i : Nat]
              /\ [call EXCEPT !.at = a].at = a /\ [call EXCEPT !.at = a].i = call.i
         /\ \A c \in Commands, a \in CallAt, n \in Nat :
              [cmd |-> c, at |-> a, i |-> n] \in [cmd : Commands, at : CallAt, i : Nat]
         /\ NoCall \in [cmd : Commands, at : CallAt, i : Nat] /\ NoCall.at = "idle"
<1>1. call \in [cmd : Commands, at : CallAt, i : Nat]
  BY DEF PoolInv, TypeOK
<1>2. NoCall \in [cmd : Commands, at : CallAt, i : Nat] /\ NoCall.at = "idle"
  BY DEF NoCall, Commands, CallAt
<1> QED  BY <1>1, <1>2

\* A stopped plugin is sound wherever the Worker is.
LEMMA Rested ==
  ASSUME ~m_bIsRunning', LiveHandlers' = {}, m_pthreadnum_alive' = 0,
         \A q, r \in LiveReporters' : q = r /\ rep'[r].at = "clear",
         call'.at \in Stopped
  PROVE  StartSound' /\ RunSound' /\ WaitSound' /\ ReporterSound'
<1>1. call'.at \notin {"create", "count", "report", "settle", "ask", "wait"}
  BY DEF Stopped
<1> QED  BY <1>1 DEF StartSound, RunSound, WaitSound, ReporterSound, Stopping

\* What is known of a plugin that rests.
LEMMA Rests ==
  ASSUME PoolInv, call.at \in Stopped, ~m_bIsRunning
  PROVE  /\ LiveHandlers = {} /\ m_pthreadnum_alive = 0
         /\ \A q, r \in LiveReporters : q = r /\ rep[r].at = "clear"
         /\ LiveReporters = {} => poolSize = 0
  BY DEF PoolInv, RestSound, ReporterSound, Stopped

\* A plugin that runs goes on, whatever the Worker asks it meanwhile.
LEMMA RunsOn ==
  ASSUME PoolInv, UNCHANGED poolVars, m_bIsRunning,
         call.at \in {"idle", "started", "stop"}, call'.at \in {"idle", "started", "stop"}
  PROVE  StartSound' /\ RunSound' /\ WaitSound' /\ ReporterSound'
<1>1. /\ UNCHANGED <<policy, m_pthreadnum, m_pthreadnum_alive, m_bIsRunning, poolSize,
                     b_state, hand, rep>>
      /\ LiveHandlers' = LiveHandlers /\ Alive' = Alive /\ LiveReporters' = LiveReporters
  BY SameHandlers, SameReporters DEF poolVars
<1>2. StartSound' /\ WaitSound'
  BY DEF StartSound, WaitSound, Stopping
<1>3. RunSound'
  BY <1>1 DEF PoolInv, RunSound, Filled, Stopping
<1>4. ReporterSound'
  BY <1>1 DEF PoolInv, ReporterSound
<1> QED  BY <1>2, <1>3, <1>4

\* Types and indices do not depend on the Worker's place.
LEMMA SamePool ==
  ASSUME PoolInv, UNCHANGED poolVars
  PROVE  /\ PoolTypeOK' /\ IndexSound'
         /\ LiveHandlers' = LiveHandlers /\ Alive' = Alive /\ LiveReporters' = LiveReporters
         /\ UNCHANGED <<policy, m_pthreadnum, m_pthreadnum_alive, m_bIsRunning, poolSize,
                        b_state, hand, rep>>
<1>1. /\ UNCHANGED <<policy, m_pthreadnum, m_pthreadnum_alive, m_bIsRunning, poolSize,
                     b_state, hand, rep>>
      /\ LiveHandlers' = LiveHandlers /\ Alive' = Alive /\ LiveReporters' = LiveReporters
  BY SameHandlers, SameReporters DEF poolVars
<1> QED  BY <1>1 DEF PoolInv, TypeOK, PoolTypeOK, IndexSound

\* Steps that only move the call or refresh the manager's copy of the state.
LEMMA CommandStep ==
  ASSUME PoolInv,
         \/ \E n \in 0 .. MaxPolicies : SetModuleData(n)
         \/ StartScModule \/ StartReturns
         \/ \E cmd \in {"STOP_PLUGIN", "STOP_AGENT"} : StopScModule(cmd)
         \/ StopReturns
  PROVE  PoolInv'
<1>1. UNCHANGED poolVars
  BY DEF SetModuleData, StartScModule, StartReturns, StopScModule, StopReturns
<1>2. /\ PoolTypeOK' /\ IndexSound'
      /\ LiveHandlers' = LiveHandlers /\ LiveReporters' = LiveReporters
      /\ UNCHANGED <<policy, m_pthreadnum, m_pthreadnum_alive, m_bIsRunning, poolSize,
                     b_state, hand, rep>>
  BY <1>1, SamePool
<1>3. /\ m_bIsRunning \in BOOLEAN /\ bIsRunning \in BOOLEAN /\ loaded \in BOOLEAN
      /\ m_pthreadnum <= MaxSlots
  BY DEF PoolInv, TypeOK, PoolTypeOK, RestSound
<1>4. SUFFICES ASSUME TRUE
               PROVE  /\ call.at \in Stopped /\ ~m_bIsRunning
                         => call'.at \in Stopped
                      /\ m_bIsRunning => /\ call.at \in {"idle", "started", "stop"}
                                         /\ call'.at \in {"idle", "started", "stop"}
                      /\ call.at \in Stopped
                      /\ call' \in [cmd : Commands, at : CallAt, i : Nat]
                      /\ bIsRunning' \in BOOLEAN /\ loaded' \in BOOLEAN
                      /\ call'.at # "failed" /\ (call'.at = "stop" => m_bIsRunning)
                      /\ call'.at = "setdata" => /\ call'.i <= MaxPolicies
                              /\ CeilDiv(call'.i, nTaskNumPerThread) <= MaxSlots
                      /\ ~loaded' => call'.at = "idle" /\ ~m_bIsRunning
  <2>1. TypeOK'
    BY <1>2, <1>4 DEF TypeOK
  <2>2. CASE m_bIsRunning
    <3>1. StartSound' /\ RunSound' /\ WaitSound' /\ ReporterSound'
      BY <1>1, <1>4, <2>2, RunsOn
    <3>2. RestSound'
      BY <1>2, <1>3, <1>4, <2>2 DEF RestSound
    <3> QED  BY <1>2, <2>1, <3>1, <3>2 DEF PoolInv
  <2>3. CASE ~m_bIsRunning
    <3>1. /\ LiveHandlers = {} /\ m_pthreadnum_alive = 0
          /\ \A q, r \in LiveReporters : q = r /\ rep[r].at = "clear"
          /\ LiveReporters = {} => poolSize = 0
      BY <1>4, <2>3, Rests
    <3>2. StartSound' /\ RunSound' /\ WaitSound' /\ ReporterSound'
      BY <1>2, <1>4, <2>3, <3>1, Rested
    <3>3. RestSound'
      BY <1>2, <1>3, <1>4, <2>3, <3>1 DEF RestSound
    <3> QED  BY <1>2, <2>1, <3>2, <3>3 DEF PoolInv
  <2> QED  BY <2>2, <2>3
<1>5. ~loaded => call.at = "idle" /\ ~m_bIsRunning
  BY DEF PoolInv, RestSound
<1>6. CASE \E n \in 0 .. MaxPolicies : SetModuleData(n)
  <2>1. PICK n \in 0 .. MaxPolicies : SetModuleData(n)
    BY <1>6
  <2>2. n \in Nat /\ call.at = "idle" /\ loaded /\ bIsRunning' = m_bIsRunning /\ loaded' = loaded
        /\ n <= MaxPolicies
    BY <2>1, PoolAssumption DEF SetModuleData
  <2>3. CASE m_bIsRunning
    <3>1. call' = NoCall
      BY <2>1, <2>3 DEF SetModuleData, Return
    <3> QED  BY <1>3, <2>2, <2>3, <3>1, Calls DEF Stopped
  <2>4. CASE ~m_bIsRunning
    <3>1. call' = [cmd |-> "START_PLUGIN", at |-> "setdata", i |-> n]
      BY <2>1, <2>4 DEF SetModuleData
    <3>2. call' \in [cmd : Commands, at : CallAt, i : Nat] /\ call'.at = "setdata"
          /\ call'.i = n
      BY <2>2, <3>1 DEF Commands, CallAt
    <3>3. poolSize \in Nat
      BY PoolBound
    <3>4. CeilDiv(n, nTaskNumPerThread) \in Nat
      BY <2>2, CeilDivType, PoolAssumption
    <3>5. CeilDiv(n, nTaskNumPerThread) <= MaxSlots
      BY <2>1, <3>3, <3>4, PoolAssumption DEF SetModuleData, HasRoom
    <3> QED  BY <1>3, <2>2, <2>4, <3>2, <3>5 DEF Stopped
  <2> QED  BY <2>3, <2>4
<1>7. CASE StartScModule
  <2>1. /\ call.at = "startmodule" /\ ~m_bIsRunning /\ call' = [call EXCEPT !.at = "start"]
        /\ bIsRunning' = m_bIsRunning /\ loaded' = loaded
    BY <1>7 DEF StartScModule, PoolInv, RestSound, CallTo
  <2>2. call' \in [cmd : Commands, at : CallAt, i : Nat] /\ call'.at = "start"
    <3>1. "start" \in CallAt
      BY DEF CallAt
    <3> QED  BY <2>1, <3>1, Calls
  <2> QED  BY <1>3, <1>5, <2>1, <2>2 DEF Stopped
<1>8. CASE StartReturns
  <2>1. call.at = "started" /\ call' = NoCall /\ bIsRunning' = m_bIsRunning /\ loaded' = loaded
    BY <1>8 DEF StartReturns, Return
  <2> QED  BY <1>3, <1>5, <2>1, Calls DEF Stopped
<1>9. CASE \E cmd \in {"STOP_PLUGIN", "STOP_AGENT"} : StopScModule(cmd)
  <2>1. PICK cmd \in {"STOP_PLUGIN", "STOP_AGENT"} : StopScModule(cmd)
    BY <1>9
  <2>2. /\ call.at = "idle" /\ loaded /\ bIsRunning' = m_bIsRunning /\ loaded' = loaded
        /\ call' = [cmd |-> cmd, at |-> IF m_bIsRunning THEN "stop" ELSE "stopped", i |-> 0]
    BY <2>1 DEF StopScModule
  <2>3. /\ call' \in [cmd : Commands, at : CallAt, i : Nat]
        /\ call'.at = IF m_bIsRunning THEN "stop" ELSE "stopped"
    BY <2>2 DEF Commands, CallAt
  <2> QED  BY <1>3, <2>2, <2>3 DEF Stopped
<1>10. CASE StopReturns
  <2>1. call.at = "stopped" /\ call' = NoCall /\ bIsRunning' = bIsRunning
        /\ loaded' \in BOOLEAN /\ ~m_bIsRunning
    BY <1>10 DEF StopReturns, Return, PoolInv, RestSound
  <2> QED  BY <1>3, <2>1, Calls DEF Stopped
<1> QED  BY <1>6, <1>7, <1>8, <1>9, <1>10

LEMMA RefreshStep ==
  ASSUME PoolInv, RefreshState \/ UNCHANGED vars
  PROVE  PoolInv'
<1>1. UNCHANGED poolVars /\ UNCHANGED <<call, loaded>> /\ bIsRunning' \in BOOLEAN
  BY DEF RefreshState, vars, PoolInv, TypeOK, PoolTypeOK
<1>2. /\ PoolTypeOK' /\ IndexSound'
      /\ LiveHandlers' = LiveHandlers /\ Alive' = Alive /\ LiveReporters' = LiveReporters
      /\ UNCHANGED <<policy, m_pthreadnum, m_pthreadnum_alive, m_bIsRunning, poolSize,
                     b_state, hand, rep, call, loaded>>
  BY <1>1, SamePool
<1>3. TypeOK' /\ RestSound' /\ StartSound'
  BY <1>1, <1>2 DEF PoolInv, TypeOK, RestSound, StartSound, Filled
<1>4. RunSound' /\ WaitSound' /\ ReporterSound'
  BY <1>2 DEF PoolInv, RunSound, WaitSound, ReporterSound, Filled, Stopping
<1> QED  BY <1>2, <1>3, <1>4 DEF PoolInv

\* A new object: there is nothing of an earlier one.
LEMMA LoadStep ==
  ASSUME PoolInv, LoadModule
  PROVE  PoolInv'
<1>1. /\ policy' = <<>> /\ m_pthreadnum' = 0 /\ m_pthreadnum_alive' = 0
      /\ m_bIsRunning' = FALSE /\ poolSize' = 0 /\ b_state' = [s \in SlotIndex |-> FALSE]
      /\ UNCHANGED <<hand, rep>> /\ LiveHandlers = {} /\ LiveReporters = {}
      /\ loaded' = TRUE /\ bIsRunning' = FALSE
  BY DEF LoadModule, Constructed, Quiet
<1>2. /\ call' \in [cmd : Commands, at : CallAt, i : Nat]
      /\ call'.at \in {"idle", "start"}
  BY Calls DEF LoadModule, Commands, CallAt
<1>3. LiveHandlers' = {} /\ LiveReporters' = {}
  BY <1>1, SameHandlers, SameReporters
<1>4. MaxPolicies \in Nat /\ MaxSlots \in Nat /\ nTaskNumPerThread \in Nat \ {0}
  BY PoolAssumption
<1>5. PoolTypeOK'
  <2>1. CeilDiv(MaxPolicies, nTaskNumPerThread) \in Nat
    BY <1>4, CeilDivType
  <2>2. policy' \in Seq(PolicyRecord) /\ Len(policy') = 0
    BY <1>1, EmptySeq
  <2>3. /\ m_pthreadnum' \in 0 .. CeilDiv(MaxPolicies, nTaskNumPerThread)
        /\ m_pthreadnum_alive' \in Int /\ poolSize' \in 0 .. MaxSlots
    BY <1>1, <1>4, <2>1
  <2>4. b_state' \in [SlotIndex -> BOOLEAN] /\ m_bIsRunning' \in BOOLEAN
    BY <1>1
  <2>5. Len(policy') <= MaxPolicies
    BY <1>4, <2>2
  <2> QED  BY <1>1, <2>2, <2>3, <2>4, <2>5 DEF PoolInv, TypeOK, PoolTypeOK
<1>6. TypeOK' /\ IndexSound'
  BY <1>1, <1>2, <1>3, <1>5, FS_EmptySet DEF PoolInv, TypeOK, IndexSound
<1>7. StartSound' /\ RunSound' /\ WaitSound' /\ ReporterSound'
  BY <1>1, <1>2, <1>3, Rested DEF Stopped
<1>8. RestSound'
  BY <1>1, <1>2, <1>3, <1>4 DEF RestSound, Quiet
<1> QED  BY <1>6, <1>7, <1>8 DEF PoolInv

\* The policies of a stopped plugin are replaced.
LEMMA PolicyStep ==
  ASSUME PoolInv, PassPolicies
  PROVE  PoolInv'
<1>1. /\ call.at = "setdata" /\ call' = [call EXCEPT !.at = "startmodule"]
      /\ policy' = [i \in 1 .. call.i |-> NewPolicy]
      /\ m_pthreadnum' = CeilDiv(call.i, nTaskNumPerThread)
      /\ UNCHANGED <<m_pthreadnum_alive, m_bIsRunning, poolSize, b_state, hand, rep,
                     bIsRunning, loaded>>
  BY DEF PassPolicies, SetData, CallTo
<1>2. call' \in [cmd : Commands, at : CallAt, i : Nat] /\ call'.at = "startmodule"
      /\ call.i \in Nat
  <2>1. "startmodule" \in CallAt /\ call.i \in Nat
    BY DEF CallAt, PoolInv, TypeOK
  <2> QED  BY <1>1, <2>1, Calls
<1>3. /\ ~m_bIsRunning /\ LiveHandlers = {} /\ m_pthreadnum_alive = 0
      /\ \A q, r \in LiveReporters : q = r /\ rep[r].at = "clear"
      /\ LiveReporters = {} => poolSize = 0
  BY <1>1, Rests DEF Stopped, PoolInv, RestSound
<1>4. LiveHandlers' = {} /\ LiveReporters' = LiveReporters
  BY <1>1, <1>3, SameHandlers, SameReporters
<1>5. /\ MaxPolicies \in Nat /\ MaxSlots \in Nat /\ nTaskNumPerThread \in Nat \ {0}
      /\ call.i <= MaxPolicies /\ CeilDiv(call.i, nTaskNumPerThread) <= MaxSlots
  BY <1>1, PoolAssumption DEF PoolInv, RestSound
<1>6. policy' \in Seq(PolicyRecord) /\ Len(policy') = call.i
  <2>1. NewPolicy \in PolicyRecord
    BY DEF NewPolicy, PolicyRecord
  <2> QED  BY <1>1, <1>2, <2>1
<1>7. /\ m_pthreadnum' \in Nat
      /\ m_pthreadnum' <= CeilDiv(MaxPolicies, nTaskNumPerThread)
      /\ CeilDiv(MaxPolicies, nTaskNumPerThread) \in Nat
      /\ m_pthreadnum' = 0 => call.i = 0
  BY <1>1, <1>2, <1>5, CeilDivType, CeilDivMonotone
<1>8. TypeOK'
  <2>1. PoolTypeOK'
    BY <1>1, <1>5, <1>6, <1>7 DEF PoolInv, TypeOK, PoolTypeOK
  <2> QED  BY <1>1, <1>2, <2>1 DEF PoolInv, TypeOK
<1>9. IndexSound'
  <2>1. m_pthreadnum' = 0 => policy' = <<>>
    BY <1>6, <1>7, EmptySeq
  <2> QED  BY <1>1, <1>4, <2>1, FS_EmptySet DEF PoolInv, IndexSound
<1>10. StartSound' /\ RunSound' /\ WaitSound' /\ ReporterSound'
  BY <1>1, <1>2, <1>3, <1>4, Rested DEF Stopped
<1>11. RestSound'
  BY <1>1, <1>2, <1>3, <1>4, <1>5 DEF RestSound, PoolInv
<1> QED  BY <1>8, <1>9, <1>10, <1>11 DEF PoolInv

LEMMA EnterStep ==
  ASSUME PoolInv, Dependable, StartEnter, UNCHANGED <<bIsRunning, loaded>>
  PROVE  PoolInv'
<1>1. call.at = "start" /\ ~m_bIsRunning /\ UNCHANGED poolVars /\ loaded
  BY DEF StartEnter, PoolInv, RestSound
<1>2. /\ LiveHandlers = {} /\ LiveReporters = {} /\ poolSize = 0 /\ m_pthreadnum_alive = 0
      /\ Alive = 0 /\ m_pthreadnum \in Nat /\ m_pthreadnum <= MaxSlots
  <2>1. \A r \in LiveReporters : rep[r].at = "clear"
    BY <1>1, Rests DEF Stopped
  <2>2. LiveReporters = {}
    BY <2>1 DEF StartEnter, Dependable, LiveReporters
  <2> QED  BY <1>1, <2>2, Rests, AliveType, PoolBound DEF Stopped
<1>3. /\ PoolTypeOK' /\ IndexSound'
      /\ LiveHandlers' = LiveHandlers /\ Alive' = Alive /\ LiveReporters' = LiveReporters
      /\ UNCHANGED <<policy, m_pthreadnum, m_pthreadnum_alive, m_bIsRunning, poolSize,
                     b_state, hand, rep>>
  BY <1>1, SamePool
<1>4. /\ call' \in [cmd : Commands, at : CallAt, i : Nat] /\ call'.i = 0
      /\ call'.at = IF m_pthreadnum = 0 THEN "report" ELSE "create"
  <2>1. call' = [call EXCEPT !.at = IF m_pthreadnum = 0 THEN "report" ELSE "create", !.i = 0]
    BY <1>1 DEF StartEnter
  <2> QED  BY <2>1 DEF PoolInv, TypeOK, CallAt
<1>5. TypeOK' /\ RestSound'
  BY <1>1, <1>2, <1>3, <1>4 DEF PoolInv, TypeOK, RestSound
<1>6. StartSound'
  BY <1>1, <1>2, <1>3, <1>4 DEF StartSound
<1>7. RunSound' /\ WaitSound' /\ ReporterSound'
  BY <1>1, <1>2, <1>3, <1>4 DEF RunSound, WaitSound, ReporterSound, Stopping
<1> QED  BY <1>3, <1>5, <1>6, <1>7 DEF PoolInv

\* The report thread is there or, without handlers, has ended.
LEMMA SettleStep ==
  ASSUME PoolInv, Dependable, StartSettle, UNCHANGED <<bIsRunning, loaded>>
  PROVE  PoolInv'
<1>1. /\ call.at = "settle" /\ UNCHANGED poolVars /\ call' = [call EXCEPT !.at = "started"]
      /\ \A r \in LiveReporters : rep[r].at \in {"send", "top"}
  BY DEF StartSettle, CallTo, ReportersSettled, Dependable
<1>2. /\ PoolTypeOK' /\ IndexSound'
      /\ LiveHandlers' = LiveHandlers /\ Alive' = Alive /\ LiveReporters' = LiveReporters
      /\ UNCHANGED <<policy, m_pthreadnum, m_pthreadnum_alive, m_bIsRunning, poolSize,
                     b_state, hand, rep>>
  BY <1>1, SamePool
<1>3. call' \in [cmd : Commands, at : CallAt, i : Nat] /\ call'.at = "started"
  <2>1. "started" \in CallAt
    BY DEF CallAt
  <2> QED  BY <1>1, <2>1, Calls
<1>4. TypeOK' /\ loaded' /\ m_pthreadnum <= MaxSlots
  BY <1>1, <1>2, <1>3 DEF PoolInv, TypeOK, RestSound
<1>5. StartSound' /\ WaitSound'
  BY <1>3 DEF StartSound, WaitSound, Stopping
<1>6. CASE LiveReporters = {}
  <2>1. poolSize = 0 /\ m_pthreadnum_alive = 0 /\ ~m_bIsRunning /\ LiveHandlers = {}
    BY <1>1, <1>6, AliveType, PoolBound DEF PoolInv, StartSound
  <2>2. RestSound'
    BY <1>2, <1>3, <1>4, <1>6, <2>1 DEF RestSound
  <2>3. RunSound' /\ ReporterSound'
    BY <1>2, <1>3, <1>6, <2>1, Rested DEF Stopped
  <2> QED  BY <1>2, <1>4, <1>5, <2>2, <2>3 DEF PoolInv
<1>7. CASE LiveReporters # {}
  <2>1. m_bIsRunning /\ m_pthreadnum > 0 /\ Filled /\ Alive = m_pthreadnum
    BY <1>1, <1>7 DEF PoolInv, StartSound, ReporterSound
  <2>2. RestSound'
    BY <1>2, <1>3, <1>4, <2>1 DEF RestSound
  <2>3. RunSound'
    BY <1>1, <1>2, <1>3, <2>1 DEF PoolInv, RunSound, Filled, Stopping
  <2>4. ReporterSound'
    BY <1>1, <1>2, <1>3, <2>1 DEF PoolInv, ReporterSound
  <2> QED  BY <1>2, <1>4, <1>5, <2>2, <2>3, <2>4 DEF PoolInv
<1> QED  BY <1>6, <1>7

\* The wait of a stop is over: the plugin rests.
LEMMA StopWaitStep ==
  ASSUME PoolInv, Dependable, StopWait
  PROVE  PoolInv'
<1>1. /\ call.at = "wait" /\ ~m_bIsRunning /\ UNCHANGED poolVars /\ loaded' = loaded
      /\ bIsRunning' = FALSE /\ call' = [call EXCEPT !.at = "stopped"]
      /\ \A r \in LiveReporters : rep[r].at \in {"send", "top"}
  BY DEF StopWait, CallTo, ReportersSettled, Dependable
<1>2. LiveReporters = {}
  BY <1>1 DEF PoolInv, ReporterSound
<1>3. /\ PoolTypeOK' /\ IndexSound'
      /\ LiveHandlers' = LiveHandlers /\ LiveReporters' = LiveReporters
      /\ UNCHANGED <<policy, m_pthreadnum, m_pthreadnum_alive, m_bIsRunning, poolSize,
                     b_state, hand, rep>>
  BY <1>1, SamePool
<1>4. LiveHandlers = {} /\ m_pthreadnum_alive = 0 /\ poolSize = 0
  BY <1>1, <1>2 DEF PoolInv, WaitSound, Stopping
<1>5. call' \in [cmd : Commands, at : CallAt, i : Nat] /\ call'.at = "stopped"
  <2>1. "stopped" \in CallAt
    BY DEF CallAt
  <2> QED  BY <1>1, <2>1, Calls
<1>6. TypeOK' /\ RestSound'
  BY <1>1, <1>2, <1>3, <1>4, <1>5 DEF PoolInv, TypeOK, RestSound
<1>7. StartSound' /\ RunSound' /\ WaitSound' /\ ReporterSound'
  BY <1>1, <1>2, <1>3, <1>4, <1>5, Rested DEF Stopped
<1> QED  BY <1>3, <1>6, <1>7 DEF PoolInv

\* Asked at once after Stop, the plugin still runs, or has but a pool to clear.
LEMMA StopAskStep ==
  ASSUME PoolInv, StopAsk
  PROVE  PoolInv'
<1>1. /\ call.at = "ask" /\ UNCHANGED poolVars /\ loaded' = loaded
      /\ bIsRunning' = m_bIsRunning
      /\ call' = [call EXCEPT !.at = IF m_bIsRunning THEN "wait" ELSE "stopped"]
  BY DEF StopAsk, CallTo
<1>2. /\ PoolTypeOK' /\ IndexSound'
      /\ LiveHandlers' = LiveHandlers /\ Alive' = Alive /\ LiveReporters' = LiveReporters
      /\ UNCHANGED <<policy, m_pthreadnum, m_pthreadnum_alive, m_bIsRunning, poolSize,
                     b_state, hand, rep>>
  BY <1>1, SamePool
<1>3. /\ call' \in [cmd : Commands, at : CallAt, i : Nat]
      /\ call'.at = IF m_bIsRunning THEN "wait" ELSE "stopped"
  <2>1. {"wait", "stopped"} \subseteq CallAt
    BY DEF CallAt
  <2> QED  BY <1>1, <2>1, Calls
<1>4. TypeOK'
  BY <1>1, <1>2, <1>3 DEF PoolInv, TypeOK, PoolTypeOK
<1>5. CASE m_bIsRunning
  <2>1. call'.at = "wait" /\ Stopping /\ Stopping'
    BY <1>1, <1>3, <1>5 DEF Stopping
  <2>2. RestSound' /\ StartSound'
    BY <1>1, <1>2, <1>5, <2>1 DEF PoolInv, RestSound, StartSound
  <2>3. RunSound' /\ WaitSound'
    BY <1>2, <2>1 DEF PoolInv, RunSound, WaitSound
  <2>4. ReporterSound'
    BY <1>1, <1>2, <2>1 DEF PoolInv, ReporterSound
  <2> QED  BY <1>2, <1>4, <2>2, <2>3, <2>4 DEF PoolInv
<1>6. CASE ~m_bIsRunning
  <2>1. /\ LiveHandlers = {} /\ m_pthreadnum_alive = 0
        /\ LiveReporters = {} => poolSize = 0
    BY <1>1, <1>6 DEF PoolInv, WaitSound, Stopping
  <2>2. \A r \in LiveReporters : rep[r] \in ReporterState /\ rep[r].at # "none"
    BY DEF PoolInv, TypeOK, PoolTypeOK, LiveReporters
  <2>3. \A q, r \in LiveReporters : q = r /\ rep[r].at = "clear"
    BY <1>1, <1>6, <2>2 DEF PoolInv, ReporterSound, ReporterState, ReporterAt
  <2>4. RestSound'
    BY <1>1, <1>2, <1>3, <1>6, <2>1, <2>3 DEF PoolInv, RestSound
  <2>5. StartSound' /\ RunSound' /\ WaitSound' /\ ReporterSound'
    BY <1>2, <1>3, <1>6, <2>1, <2>3, Rested DEF Stopped
  <2> QED  BY <1>2, <1>4, <2>4, <2>5 DEF PoolInv
<1> QED  BY <1>5, <1>6

\* Stop changes nothing but the flags of the pool entries.
LEMMA StopStep ==
  ASSUME PoolInv, CallStop
  PROVE  PoolInv'
<1>1. /\ call.at = "stop" /\ call' = [call EXCEPT !.at = "ask"]
      /\ UNCHANGED <<policy, m_pthreadnum, m_pthreadnum_alive, m_bIsRunning, poolSize, hand,
                     rep, bIsRunning, loaded>>
      /\ b_state' = [s \in SlotIndex |-> IF s \in 0 .. m_pthreadnum - 1
                                         THEN FALSE ELSE b_state[s]]
  BY DEF CallStop, Stop, CallTo
<1>2. call' \in [cmd : Commands, at : CallAt, i : Nat] /\ call'.at = "ask"
  <2>1. "ask" \in CallAt
    BY DEF CallAt
  <2> QED  BY <1>1, <2>1, Calls
<1>3. /\ m_bIsRunning /\ loaded /\ Filled /\ Alive = m_pthreadnum /\ m_pthreadnum \in Nat
      /\ m_pthreadnum <= MaxSlots /\ LiveReporters # {}
  BY <1>1, PoolBound DEF PoolInv, RestSound, RunSound, ReporterSound, Stopping
<1>4. LiveHandlers' = LiveHandlers /\ Alive' = Alive /\ LiveReporters' = LiveReporters
  BY <1>1, SameHandlers, SameReporters
<1>5. TypeOK'
  <2>1. b_state' \in [SlotIndex -> BOOLEAN]
    BY <1>1 DEF PoolInv, TypeOK, PoolTypeOK
  <2>2. PoolTypeOK'
    BY <1>1, <2>1 DEF PoolInv, TypeOK, PoolTypeOK
  <2> QED  BY <1>1, <1>2, <2>2 DEF PoolInv, TypeOK
<1>6. RestSound' /\ StartSound' /\ IndexSound'
  BY <1>1, <1>2, <1>3, <1>4 DEF PoolInv, RestSound, StartSound, IndexSound
<1>7. RunSound' /\ WaitSound'
  BY <1>1, <1>2, <1>3, <1>4 DEF PoolInv, RunSound, WaitSound, Filled, Ending, Stopping
<1>8. ReporterSound'
  BY <1>1, <1>2, <1>3, <1>4 DEF PoolInv, ReporterSound
<1> QED  BY <1>5, <1>6, <1>7, <1>8 DEF PoolInv

\* A handler is created and gets the next pool entry.
LEMMA CreateStep ==
  ASSUME PoolInv, Dependable, StartCreate, UNCHANGED <<bIsRunning, loaded>>
  PROVE  PoolInv'
<1>1. PICK h \in Handlers \ LiveHandlers :
        /\ hand' = [hand EXCEPT ![h] = [NoHandler EXCEPT !.at = "born"]]
        /\ call.at = "create" /\ call' = [call EXCEPT !.at = "count"]
        /\ poolSize' = poolSize + 1
        /\ b_state' = [b_state EXCEPT ![poolSize] = FALSE]
        /\ UNCHANGED <<policy, m_pthreadnum, m_pthreadnum_alive, m_bIsRunning, rep,
                       bIsRunning, loaded>>
  BY DEF StartCreate, CallTo, Dependable
<1>2. call' \in [cmd : Commands, at : CallAt, i : Nat] /\ call'.at = "count"
      /\ call'.i = call.i
  <2>1. "count" \in CallAt
    BY DEF CallAt
  <2> QED  BY <1>1, <2>1, Calls
<1>3. /\ hand' \in [Handlers -> HandlerState]
      /\ LiveHandlers' = LiveHandlers \union {h} /\ Alive' = Alive + 1
      /\ IsFiniteSet(LiveHandlers')
      /\ hand'[h].at = "born" /\ hand'[h].i = 0
      /\ \A g \in LiveHandlers : g \in Handlers /\ g # h /\ hand'[g] = hand[g]
  BY <1>1, HandlerCreated
<1>4. /\ ~m_bIsRunning /\ LiveReporters = {} /\ m_pthreadnum_alive = call.i
      /\ poolSize = Alive /\ Alive = call.i /\ call.i < m_pthreadnum /\ loaded
      /\ m_pthreadnum \in Nat /\ m_pthreadnum <= MaxSlots /\ MaxSlots \in Nat /\ call.i \in Nat
  BY <1>1, PoolBound DEF PoolInv, StartSound, RestSound
<1>5. LiveReporters' = {}
  BY <1>1, <1>4, SameReporters
<1>6. b_state \in [SlotIndex -> BOOLEAN] /\ b_state' \in [SlotIndex -> BOOLEAN]
  BY <1>1 DEF PoolInv, TypeOK, PoolTypeOK
<1>7. TypeOK'
  <2>1. poolSize' \in 0 .. MaxSlots
    BY <1>1, <1>4
  <2>2. PoolTypeOK'
    BY <1>1, <1>3, <1>6, <2>1 DEF PoolInv, TypeOK, PoolTypeOK
  <2> QED  BY <1>1, <1>2, <2>2 DEF PoolInv, TypeOK
<1>8. RestSound' /\ StartSound'
  BY <1>1, <1>2, <1>3, <1>4, <1>5 DEF PoolInv, RestSound, StartSound
<1>9. RunSound'
  <2>1. ASSUME NEW g \in LiveHandlers
        PROVE  /\ hand[g].at \in New \/ b_state'[hand[g].num]
               /\ hand[g].at # "born" => hand[g].num \in 0 .. poolSize' - 1
               /\ hand[g].at \notin Ending
    <3>1. /\ hand[g].at \in New \/ b_state[hand[g].num]
          /\ hand[g].at # "born" => hand[g].num \in 0 .. poolSize - 1
          /\ hand[g].at \notin Ending
      BY <1>1 DEF PoolInv, RunSound, Stopping
    <3> QED  BY <1>1, <1>4, <1>6, <3>1 DEF New
  <2>2. hand'[h].at \in New /\ hand'[h].at = "born" /\ hand'[h].at \notin Ending
    BY <1>3 DEF New, Ending
  <2> QED  BY <1>1, <1>2, <1>3, <1>4, <2>1, <2>2 DEF RunSound, Stopping
<1>10. WaitSound' /\ ReporterSound'
  BY <1>1, <1>2, <1>4, <1>5 DEF WaitSound, Stopping, ReporterSound
<1>11. IndexSound'
  <2>1. \A g \in Handlers : g # h => hand'[g] = hand[g]
    BY <1>1 DEF PoolInv, TypeOK, PoolTypeOK
  <2> QED  BY <1>1, <1>3, <2>1 DEF PoolInv, IndexSound
<1> QED  BY <1>7, <1>8, <1>9, <1>10, <1>11 DEF PoolInv

\* The handler is counted.
LEMMA CountStep ==
  ASSUME PoolInv, StartCount, UNCHANGED <<bIsRunning, loaded>>
  PROVE  PoolInv'
<1>1. /\ call.at = "count"
      /\ m_pthreadnum_alive' = m_pthreadnum_alive + 1
      /\ call' = [call EXCEPT !.at = IF call.i + 1 < m_pthreadnum THEN "create"
                                     ELSE "report", !.i = call.i + 1]
      /\ UNCHANGED <<policy, m_pthreadnum, m_bIsRunning, poolSize, b_state, hand, rep,
                     bIsRunning, loaded>>
  BY DEF StartCount
<1>2. /\ ~m_bIsRunning /\ LiveReporters = {} /\ m_pthreadnum_alive = call.i
      /\ poolSize = Alive /\ Alive = call.i + 1 /\ call.i < m_pthreadnum /\ loaded
      /\ m_pthreadnum \in Nat /\ call.i \in Nat /\ m_pthreadnum_alive \in Int
  BY <1>1, PoolBound DEF PoolInv, StartSound, RestSound
<1>3. /\ call' \in [cmd : Commands, at : CallAt, i : Nat]
      /\ call'.at = IF call.i + 1 < m_pthreadnum THEN "create" ELSE "report"
      /\ call'.i = call.i + 1
  <2>1. call \in [cmd : Commands, at : CallAt, i : Nat] /\ {"create", "report"} \subseteq CallAt
        /\ call.i + 1 \in Nat
    BY <1>2 DEF PoolInv, TypeOK, CallAt
  <2> QED  BY <1>1, <2>1
<1>4. LiveHandlers' = LiveHandlers /\ Alive' = Alive /\ LiveReporters' = LiveReporters
  BY <1>1, SameHandlers, SameReporters
<1>5. TypeOK' /\ IndexSound'
  BY <1>1, <1>2, <1>3, <1>4 DEF PoolInv, TypeOK, PoolTypeOK, IndexSound
<1>6. RestSound' /\ StartSound'
  BY <1>1, <1>2, <1>3, <1>4 DEF PoolInv, RestSound, StartSound
<1>7. RunSound'
  BY <1>1, <1>2, <1>3, <1>4 DEF PoolInv, RunSound, Stopping
<1>8. WaitSound' /\ ReporterSound'
  BY <1>1, <1>2, <1>3, <1>4 DEF WaitSound, Stopping, ReporterSound
<1> QED  BY <1>5, <1>6, <1>7, <1>8 DEF PoolInv

\* All handlers are there when the report thread is created.
LEMMA ReportStep ==
  ASSUME PoolInv, Dependable, StartReport, UNCHANGED <<bIsRunning, loaded>>
  PROVE  PoolInv'
<1>1. PICK r \in Reporters \ LiveReporters :
        /\ call.at = "report" /\ call' = [call EXCEPT !.at = "settle"]
        /\ rep' = [rep EXCEPT ![r] = [at |-> "born", i |-> 0]]
        /\ UNCHANGED <<policy, m_pthreadnum, m_pthreadnum_alive, m_bIsRunning, poolSize,
                       b_state, hand, bIsRunning, loaded>>
  BY DEF StartReport, CallTo, Dependable
<1>2. call' \in [cmd : Commands, at : CallAt, i : Nat] /\ call'.at = "settle"
  <2>1. "settle" \in CallAt
    BY DEF CallAt
  <2> QED  BY <1>1, <2>1, Calls
<1>3. /\ ~m_bIsRunning /\ LiveReporters = {} /\ m_pthreadnum_alive = m_pthreadnum
      /\ poolSize = m_pthreadnum /\ Alive = m_pthreadnum /\ loaded
  BY <1>1 DEF PoolInv, StartSound, RestSound
<1>4. /\ rep' \in [Reporters -> ReporterState] /\ rep'[r].at = "born"
      /\ \A q \in Reporters : q # r => rep'[q] = rep[q]
  <2>1. rep \in [Reporters -> ReporterState] /\ [at |-> "born", i |-> 0] \in ReporterState
    BY DEF PoolInv, TypeOK, PoolTypeOK, ReporterState, ReporterAt
  <2> QED  BY <1>1, <2>1
<1>5. LiveReporters' = {r}
  BY <1>1, <1>3, <1>4 DEF LiveReporters
<1>6. LiveHandlers' = LiveHandlers /\ Alive' = Alive
  BY <1>1, SameHandlers
<1>7. TypeOK' /\ IndexSound'
  BY <1>1, <1>2, <1>4, <1>6 DEF PoolInv, TypeOK, PoolTypeOK, IndexSound
<1>8. RestSound' /\ StartSound'
  BY <1>1, <1>2, <1>3, <1>4, <1>5, <1>6 DEF PoolInv, RestSound, StartSound, Filled
<1>9. RunSound'
  BY <1>1, <1>2, <1>3, <1>6 DEF PoolInv, RunSound, Stopping
<1>10. WaitSound' /\ ReporterSound'
  BY <1>1, <1>2, <1>3, <1>4, <1>5 DEF WaitSound, Stopping, ReporterSound
<1> QED  BY <1>7, <1>8, <1>9, <1>10 DEF PoolInv

-----------------------------------------------------------------------------
(* Every step of a thread preserves the invariant *)

\* While a handler is there, the plugin starts, runs or is being stopped.
LEMMA Handling ==
  ASSUME PoolInv, NEW h \in LiveHandlers
  PROVE  /\ Alive >= 1 /\ Alive \in Nat /\ poolSize >= 1 /\ m_pthreadnum >= 1
         /\ call.at \in Stopped \union {"stop"} => m_bIsRunning
         /\ Stopping => m_bIsRunning
         /\ \A r \in LiveReporters : rep[r].at \notin {"stop", "clear"}
<1>1. Alive >= 1 /\ Alive \in Nat /\ poolSize >= 1
  BY AliveType, PoolBound
<1>2. call.at \in Stopped \union {"stop"} => m_bIsRunning
  BY Rests DEF Stopped, PoolInv, RestSound
<1>3. m_pthreadnum >= 1
  BY <1>1, <1>2, PoolBound
<1> QED  BY <1>1, <1>2, <1>3 DEF PoolInv, WaitSound, Stopping, ReporterSound

LEMMA HandlerTypes ==
  ASSUME PoolInv, NEW h \in Handlers, OnWeakpasswdHandle(h), UNCHANGED <<bIsRunning, loaded>>
  PROVE  TypeOK' /\ IndexSound'
<1>1. /\ h \in LiveHandlers /\ hand \in [Handlers -> HandlerState]
      /\ hand' \in [Handlers -> HandlerState]
      /\ \A g \in Handlers : g # h => hand'[g] = hand[g]
      /\ hand'[h].i \in Nat
      /\ UNCHANGED <<m_pthreadnum, m_bIsRunning, poolSize, rep, call>>
  BY HandlerMoves DEF handlerFrame
<1>2. policy \in Seq(PolicyRecord) /\ Len(policy) <= MaxPolicies
  BY DEF PoolInv, TypeOK, PoolTypeOK
<1>3. policy' \in Seq(PolicyRecord) /\ Len(policy') <= MaxPolicies
  <2>1. CASE HandlerStore(h) \/ HandlerMark(h)
    <3>1. /\ DOMAIN policy = 1 .. Len(policy) /\ Len(policy) \in Nat
          /\ \A k \in 1 .. Len(policy) : policy[k] \in PolicyRecord
      BY <1>2, LenProperties, ElementOfSeq
    <3>2. ASSUME NEW k \in 1 .. Len(policy)
          PROVE  /\ [policy[k] EXCEPT !.strResult = hand[h].found] \in PolicyRecord
                 /\ [policy[k] EXCEPT !.bFinished = TRUE] \in PolicyRecord
      <4>1. hand[h].found \in SUBSET Hosts
        BY <1>1 DEF HandlerState
      <4>2. policy[k] \in PolicyRecord
        BY <3>1
      <4> QED  BY <4>1, <4>2 DEF PolicyRecord
    <3>3. policy' \in [1 .. Len(policy) -> PolicyRecord]
      <4>1. CASE HandlerStore(h)
        BY <3>1, <3>2, <4>1 DEF HandlerStore
      <4>2. CASE HandlerMark(h)
        BY <3>1, <3>2, <4>2 DEF HandlerMark
      <4> QED  BY <2>1, <4>1, <4>2
    <3> QED  BY <1>2, <3>1, <3>3
  <2>2. CASE ~HandlerStore(h) /\ ~HandlerMark(h)
    <3>1. policy' = policy
      BY <2>2 DEF OnWeakpasswdHandle, HandlerNumber, HandlerArm, HandlerLoop, HandlerScan,
         HandlerNext, HandlerRoundEnd, HandlerLoadAlive, HandlerStoreAlive
    <3> QED  BY <1>2, <3>1
  <2> QED  BY <2>1, <2>2
<1>4. m_pthreadnum_alive' \in Int
  <2>1. m_pthreadnum_alive' = m_pthreadnum_alive \/ m_pthreadnum_alive' = hand[h].reg - 1
    BY DEF OnWeakpasswdHandle, HandlerNumber, HandlerArm, HandlerLoop, HandlerScan,
       HandlerStore, HandlerMark, HandlerNext, HandlerRoundEnd, HandlerLoadAlive,
       HandlerStoreAlive
  <2>2. hand[h].reg \in Int /\ m_pthreadnum_alive \in Int
    BY <1>1 DEF HandlerState, PoolInv, TypeOK, PoolTypeOK
  <2> QED  BY <2>1, <2>2
<1>5. b_state' \in [SlotIndex -> BOOLEAN]
  <2>1. b_state' = b_state \/ b_state' = [b_state EXCEPT ![hand[h].num] = TRUE]
    BY DEF OnWeakpasswdHandle, HandlerNumber, HandlerArm, HandlerLoop, HandlerScan,
       HandlerStore, HandlerMark, HandlerNext, HandlerRoundEnd, HandlerLoadAlive,
       HandlerStoreAlive
  <2> QED  BY <2>1 DEF PoolInv, TypeOK, PoolTypeOK
<1>6. TypeOK'
  BY <1>1, <1>3, <1>4, <1>5 DEF PoolInv, TypeOK, PoolTypeOK
<1>7. IndexSound'
  <2>1. IsFiniteSet(LiveHandlers') /\ m_pthreadnum' # 0
    BY <1>1, HandlerLives, Handling DEF PoolInv, IndexSound
  <2> QED  BY <1>1, <2>1 DEF PoolInv, IndexSound
<1> QED  BY <1>6, <1>7

LEMMA HandlerStep ==
  ASSUME PoolInv, NEW h \in Handlers, OnWeakpasswdHandle(h), UNCHANGED <<bIsRunning, loaded>>
  PROVE  PoolInv'
<1>1. /\ h \in LiveHandlers /\ hand \in [Handlers -> HandlerState]
      /\ hand' \in [Handlers -> HandlerState]
      /\ \A g \in Handlers : g # h => hand'[g] = hand[g]
      /\ UNCHANGED <<m_pthreadnum, m_bIsRunning, poolSize, rep, call>>
      /\ \A g \in LiveHandlers : g \in Handlers
  BY HandlerMoves DEF handlerFrame, LiveHandlers
<1>2. TypeOK' /\ IndexSound'
  BY HandlerTypes
<1>3. LiveReporters' = LiveReporters
  BY <1>1, SameReporters
<1>4. /\ Alive >= 1 /\ Alive \in Nat /\ poolSize >= 1 /\ m_pthreadnum >= 1
      /\ call.at \in Stopped \union {"stop"} => m_bIsRunning
      /\ Stopping => m_bIsRunning
      /\ \A r \in LiveReporters : rep[r].at \notin {"stop", "clear"}
  BY <1>1, Handling
<1>5. /\ m_pthreadnum \in Nat /\ poolSize \in Nat /\ m_pthreadnum_alive \in Int
      /\ poolSize <= MaxSlots /\ MaxSlots \in Nat
  BY PoolBound, <1>1 DEF PoolInv, TypeOK, PoolTypeOK
<1>6. RestSound'
  BY <1>1, <1>4 DEF PoolInv, RestSound, Stopped
<1>7. CASE HandlerStoreAlive(h)
  <2>1. /\ hand[h].at = "dec" /\ m_pthreadnum_alive' = hand[h].reg - 1
        /\ b_state' = b_state
    BY <1>7 DEF HandlerStoreAlive
  <2>2. Stopping /\ m_bIsRunning
    BY <1>1, <1>4, <2>1 DEF PoolInv, RunSound, Stopping, Ending
  <2>3. /\ LiveHandlers' = LiveHandlers \ {h} /\ Alive' = Alive - 1
    BY <1>7, HandlerLives
  <2>4. StartSound'
    BY <1>1, <2>2 DEF StartSound, Stopping
  <2>5. RunSound'
    BY <1>1, <2>1, <2>2, <2>3 DEF PoolInv, RunSound, Stopping
  <2>6. WaitSound'
    <3>1. \A g \in LiveHandlers : hand[g].at = "dec" => Alive <= hand[g].reg /\ hand[g].reg \in Int
      BY <1>1, <2>2 DEF PoolInv, WaitSound, Stopping, HandlerState
    <3>2. Alive <= m_pthreadnum /\ (LiveReporters # {} => poolSize = m_pthreadnum)
          /\ LiveReporters # {}
      BY <2>2 DEF PoolInv, WaitSound, Stopping, ReporterSound
    <3> QED  BY <1>1, <1>3, <1>4, <1>5, <2>1, <2>2, <2>3, <3>1, <3>2 DEF WaitSound, Stopping
  <2>7. ReporterSound'
    BY <1>1, <1>3, <1>4 DEF PoolInv, ReporterSound
  <2> QED  BY <1>2, <1>6, <2>4, <2>5, <2>6, <2>7 DEF PoolInv
<1>8. CASE ~HandlerStoreAlive(h)
  <2>1. LiveHandlers' = LiveHandlers /\ Alive' = Alive /\ m_pthreadnum_alive' = m_pthreadnum_alive
    BY <1>8, HandlerLives DEF OnWeakpasswdHandle, HandlerNumber, HandlerArm, HandlerLoop,
       HandlerScan, HandlerStore, HandlerMark, HandlerNext, HandlerRoundEnd, HandlerLoadAlive
  <2>2. StartSound'
    BY <1>1, <1>3, <2>1 DEF PoolInv, StartSound, Filled
  <2>3. RunSound'
    <3>1. m_bIsRunning /\ call.at # "settle" /\ ~Stopping =>
            Filled' /\ Alive' = m_pthreadnum' /\ m_pthreadnum' > 0
      BY <1>1, <2>1 DEF PoolInv, RunSound, Stopping, Filled
    <3>2. \A g \in LiveHandlers :
            /\ hand[g].at \in New \/ Stopping \/ b_state[hand[g].num]
            /\ hand[g].at # "born" => hand[g].num \in 0 .. poolSize - 1
            /\ hand[g].at \in Ending => Stopping
      BY DEF PoolInv, RunSound, Stopping
    <3>3. b_state \in [SlotIndex -> BOOLEAN]
      BY DEF PoolInv, TypeOK, PoolTypeOK
    <3>4. \A g \in LiveHandlers : b_state[hand[g].num] => b_state'[hand[g].num]
      <4>1. b_state' = b_state \/ b_state' = [b_state EXCEPT ![hand[h].num] = TRUE]
        BY DEF OnWeakpasswdHandle, HandlerNumber, HandlerArm, HandlerLoop, HandlerScan,
           HandlerStore, HandlerMark, HandlerNext, HandlerRoundEnd, HandlerLoadAlive,
           HandlerStoreAlive
      <4> QED  BY <1>1, <3>3, <4>1 DEF HandlerState
    <3>5. /\ hand'[h].at \in New \/ Stopping \/ b_state'[hand'[h].num]
          /\ hand'[h].at # "born" => hand'[h].num \in 0 .. poolSize - 1
          /\ hand'[h].at \in Ending => Stopping
      <4>1. CASE HandlerNumber(h)
        BY <1>1, <1>4, <1>5, <4>1 DEF HandlerNumber, HandlerState, New, Ending
      <4>2. CASE HandlerArm(h)
        <5>1. hand[h].at = "arm" /\ b_state' = [b_state EXCEPT ![hand[h].num] = TRUE]
              /\ hand'[h].at = "loop" /\ hand'[h].num = hand[h].num
          BY <1>1, <4>2 DEF HandlerArm, HandlerState
        <5>2. hand[h].num \in SlotIndex
          BY <1>1 DEF HandlerState
        <5> QED  BY <1>1, <3>2, <3>3, <5>1, <5>2 DEF New, Ending
      <4>3. CASE HandlerLoop(h)
        <5>1. /\ hand[h].at = "loop" /\ hand'[h].num = hand[h].num /\ b_state' = b_state
              /\ IF b_state[hand[h].num] THEN hand'[h].at = "scan" ELSE hand'[h].at = "exit"
          BY <1>1, <4>3 DEF HandlerLoop, HandTo, HandlerState
        <5> QED  BY <1>1, <3>2, <5>1 DEF New, Ending
      <4>4. CASE HandlerScan(h)
        <5>1. /\ hand[h].at = "scan" /\ hand'[h].num = hand[h].num /\ b_state' = b_state
              /\ hand'[h].at \in {"next", "store"}
          <6>1. PICK weak \in BOOLEAN, fin \in BOOLEAN :
              hand' = [hand EXCEPT ![h].at = IF fin THEN "next" ELSE "store",
                                   ![h].found = IF weak THEN @ \union {hand[h].i + 1} ELSE @]
            BY <4>4 DEF HandlerScan
          <6>2. hand'[h].num = hand[h].num /\ hand'[h].at = IF fin THEN "next" ELSE "store"
            BY <1>1, <6>1 DEF HandlerState
          <6> QED  BY <4>4, <6>2 DEF HandlerScan
        <5> QED  BY <1>1, <3>2, <5>1 DEF New, Ending
      <4>5. CASE HandlerStore(h) \/ HandlerMark(h) \/ HandlerRoundEnd(h) \/ HandlerLoadAlive(h)
        <5>1. /\ hand[h].at \in {"store", "mark", "scan", "exit"} /\ b_state' = b_state
              /\ hand'[h].num = hand[h].num /\ hand'[h].at \notin New
              /\ hand'[h].at \in Ending => hand[h].at \in Ending
          BY <1>1, <4>5 DEF HandlerStore, HandlerMark, HandlerRoundEnd, HandlerLoadAlive,
             HandTo, HandlerState, New, Ending
        <5> QED  BY <1>1, <3>2, <5>1 DEF New
      <4>6. CASE HandlerNext(h)
        <5>1. /\ hand[h].at = "next" /\ b_state' = b_state /\ hand'[h].num = hand[h].num
              /\ hand'[h].at \in {"scan", "loop"}
          BY <1>1, <4>6 DEF HandlerNext, HandlerState
        <5> QED  BY <1>1, <3>2, <5>1 DEF New, Ending
      <4> QED  BY <1>8, <4>1, <4>2, <4>3, <4>4, <4>5, <4>6 DEF OnWeakpasswdHandle
    <3> QED  BY <1>1, <2>1, <3>1, <3>2, <3>4, <3>5 DEF RunSound, Stopping
  <2>4. WaitSound'
    <3>1. ASSUME Stopping, hand'[h].at = "dec" PROVE Alive <= hand'[h].reg
      <4>1. CASE HandlerLoadAlive(h)
        BY <1>1, <3>1, <4>1 DEF HandlerLoadAlive, HandlerState, PoolInv, WaitSound, Stopping
      <4>2. CASE HandlerNext(h)
        BY <1>1, <3>1, <4>2 DEF HandlerNext, HandlerState
      <4>3. CASE HandlerScan(h)
        <5>1. PICK weak \in BOOLEAN, fin \in BOOLEAN :
              hand' = [hand EXCEPT ![h].at = IF fin THEN "next" ELSE "store",
                                   ![h].found = IF weak THEN @ \union {hand[h].i + 1} ELSE @]
          BY <4>3 DEF HandlerScan
        <5>2. hand'[h].at = IF fin THEN "next" ELSE "store"
          BY <1>1, <5>1 DEF HandlerState
        <5> QED  BY <3>1, <5>2
      <4>4. CASE ~HandlerLoadAlive(h) /\ ~HandlerNext(h) /\ ~HandlerScan(h)
        BY <1>1, <1>8, <3>1, <4>4 DEF OnWeakpasswdHandle, HandlerNumber, HandlerArm,
           HandlerLoop, HandlerStore, HandlerMark, HandlerRoundEnd, HandTo, HandlerState
      <4> QED  BY <4>1, <4>2, <4>3, <4>4
    <3> QED  BY <1>1, <1>3, <1>4, <2>1, <3>1 DEF PoolInv, WaitSound, Stopping
  <2>5. ReporterSound'
    BY <1>1, <1>3, <1>4 DEF PoolInv, ReporterSound
  <2> QED  BY <1>2, <1>6, <2>2, <2>3, <2>4, <2>5 DEF PoolInv
<1> QED  BY <1>7, <1>8

\* While the report thread is there, the plugin has its handlers, or what is left of them.
LEMMA Reporting ==
  ASSUME PoolInv, NEW r \in LiveReporters
  PROVE  /\ call.at \notin {"create", "count", "report"}
         /\ rep[r].at # "clear" /\ call.at \in Stopped \union {"stop"} => m_bIsRunning
         /\ ~Stopping /\ (rep[r].at # "clear" \/ call.at = "settle")
              => Filled /\ Alive = m_pthreadnum
         /\ m_bIsRunning /\ call.at # "settle" /\ ~Stopping => m_pthreadnum > 0
         /\ m_pthreadnum_alive <= 0 => LiveHandlers = {}
<1>1. call.at \notin {"create", "count", "report"}
  BY DEF PoolInv, StartSound
<1>2. rep[r].at # "clear" /\ call.at \in Stopped \union {"stop"} => m_bIsRunning
  BY Rests DEF Stopped, PoolInv, RestSound
<1>3. call.at \in CallAt /\ call.at # "failed"
  BY DEF PoolInv, TypeOK, RestSound
<1>4. ~Stopping /\ (rep[r].at # "clear" \/ call.at = "settle") => Filled /\ Alive = m_pthreadnum
  BY <1>1, <1>2, <1>3 DEF PoolInv, StartSound, RunSound, Stopping, Stopped, CallAt
<1>5. m_pthreadnum_alive <= 0 => LiveHandlers = {}
  <2>1. CASE rep[r].at = "clear"
    BY <2>1 DEF PoolInv, ReporterSound
  <2>2. CASE rep[r].at # "clear"
    <3>1. Alive <= m_pthreadnum_alive
      BY <1>4, <2>2, PoolBound, AliveType DEF PoolInv, WaitSound, Filled
    <3> QED  BY <3>1, AliveType, PoolBound
  <2> QED  BY <2>1, <2>2
<1>6. m_bIsRunning /\ call.at # "settle" /\ ~Stopping => m_pthreadnum > 0
  BY DEF PoolInv, RunSound
<1> QED  BY <1>1, <1>2, <1>4, <1>5, <1>6

LEMMA ReporterTypes ==
  ASSUME PoolInv, NEW r \in Reporters, OnReportHandle(r), UNCHANGED <<bIsRunning, loaded>>
  PROVE  TypeOK' /\ IndexSound'
<1>1. /\ rep \in [Reporters -> ReporterState] /\ rep' \in [Reporters -> ReporterState]
      /\ UNCHANGED <<m_pthreadnum, m_pthreadnum_alive, b_state, hand, call>>
  BY ReporterMoves DEF reporterFrame
<1>2. policy \in Seq(PolicyRecord) /\ Len(policy) <= MaxPolicies /\ MaxSlots \in Nat
  BY PoolAssumption DEF PoolInv, TypeOK, PoolTypeOK
<1>3. policy' \in Seq(PolicyRecord) /\ Len(policy') = Len(policy)
  <2>1. CASE ReporterSent(r)
    <3>1. /\ DOMAIN policy = 1 .. Len(policy) /\ Len(policy) \in Nat
          /\ \A k \in 1 .. Len(policy) : policy[k] \in PolicyRecord
      BY <1>2, LenProperties, ElementOfSeq
    <3>2. ASSUME NEW k \in 1 .. Len(policy)
          PROVE  [policy[k] EXCEPT !.bFinished = FALSE] \in PolicyRecord
      <4>1. policy[k] \in PolicyRecord
        BY <3>1
      <4> QED  BY <4>1 DEF PolicyRecord
    <3>3. policy' \in [1 .. Len(policy) -> PolicyRecord]
      BY <2>1, <3>1, <3>2 DEF ReporterSent
    <3> QED  BY <1>2, <3>1, <3>3
  <2>2. CASE ~ReporterSent(r)
    <3>1. policy' = policy
      BY <2>2 DEF OnReportHandle, ReporterTop, ReporterScan, ReporterCheck, ReporterStop,
         ReporterClear
    <3> QED  BY <1>2, <3>1
  <2> QED  BY <2>1, <2>2
<1>4. m_bIsRunning' \in BOOLEAN /\ poolSize' \in 0 .. MaxSlots
  <2>1. m_bIsRunning \in BOOLEAN /\ poolSize \in 0 .. MaxSlots /\ 0 \in 0 .. MaxSlots
    BY <1>2 DEF PoolInv, TypeOK, PoolTypeOK
  <2>2. poolSize' = poolSize \/ poolSize' = 0
    BY DEF OnReportHandle, ReporterTop, ReporterScan, ReporterSent, ReporterCheck,
       ReporterStop, ReporterClear
  <2>3. \/ m_bIsRunning' = m_bIsRunning \/ m_bIsRunning' = FALSE
        \/ m_bIsRunning' = (m_bIsRunning \/ m_pthreadnum = m_pthreadnum_alive)
    BY DEF OnReportHandle, ReporterTop, ReporterScan, ReporterSent, ReporterCheck,
       ReporterStop, ReporterClear
  <2>4. m_bIsRunning' \in BOOLEAN
    BY <2>1, <2>3, Zenon
  <2> QED  BY <2>1, <2>2, <2>4
<1>5. TypeOK'
  BY <1>1, <1>2, <1>3, <1>4 DEF PoolInv, TypeOK, PoolTypeOK
<1>6. policy = <<>> => policy' = <<>>
  BY <1>2, <1>3, EmptySeq
<1>7. LiveHandlers' = LiveHandlers
  BY <1>1, SameHandlers
<1> QED  BY <1>1, <1>5, <1>6, <1>7 DEF PoolInv, IndexSound

LEMMA ReporterStep ==
  ASSUME PoolInv, NEW r \in Reporters, OnReportHandle(r), UNCHANGED <<bIsRunning, loaded>>
  PROVE  PoolInv'
<1>1. /\ LiveReporters = {r} /\ rep \in [Reporters -> ReporterState]
      /\ rep' \in [Reporters -> ReporterState]
      /\ \A q \in Reporters : q # r => rep'[q] = rep[q]
      /\ LiveReporters' = IF ReporterClear(r) THEN {} ELSE {r}
      /\ UNCHANGED <<m_pthreadnum, m_pthreadnum_alive, b_state, hand, call>>
  BY ReporterMoves DEF reporterFrame
<1>2. TypeOK' /\ IndexSound'
  BY ReporterTypes
<1>3. LiveHandlers' = LiveHandlers /\ Alive' = Alive
  BY <1>1, SameHandlers
<1>4. /\ call.at \notin {"create", "count", "report"}
      /\ rep[r].at # "clear" /\ call.at \in Stopped \union {"stop"} => m_bIsRunning
      /\ ~Stopping /\ (rep[r].at # "clear" \/ call.at = "settle")
           => Filled /\ Alive = m_pthreadnum
      /\ m_bIsRunning /\ call.at # "settle" /\ ~Stopping => m_pthreadnum > 0
      /\ m_pthreadnum_alive <= 0 => LiveHandlers = {}
  BY <1>1, Reporting
<1>5. /\ m_pthreadnum \in Nat /\ poolSize \in Nat /\ m_pthreadnum_alive \in Int
      /\ Alive \in Nat /\ (Alive = 0 <=> LiveHandlers = {}) /\ call.at \in CallAt
  BY PoolBound, AliveType DEF PoolInv, TypeOK
<1>6. Stopping =>
        /\ Alive <= m_pthreadnum_alive /\ Alive <= m_pthreadnum /\ poolSize = m_pthreadnum
        /\ \A h \in LiveHandlers : hand[h].at = "dec" => Alive <= hand[h].reg
        /\ ~m_bIsRunning => LiveHandlers = {} /\ m_pthreadnum_alive = 0
  BY <1>1 DEF PoolInv, WaitSound, Stopping
<1>7. /\ rep[r].at = "born" => call.at = "settle" /\ ~m_bIsRunning
      /\ rep[r].at \in {"top", "scan", "send", "check", "stop"} => m_bIsRunning
      /\ rep[r].at \in {"stop", "clear"} => LiveHandlers = {} /\ m_pthreadnum_alive = 0
      /\ rep[r].at = "clear" => ~m_bIsRunning
  BY <1>1 DEF PoolInv, ReporterSound
<1>8. CASE ReporterClear(r)
  <2>1. /\ rep[r].at = "clear" /\ poolSize' = 0 /\ m_bIsRunning' = m_bIsRunning
    BY <1>8 DEF ReporterClear
  <2>2. /\ LiveReporters' = {} /\ ~m_bIsRunning' /\ LiveHandlers' = {} /\ Alive' = 0
        /\ m_pthreadnum_alive = 0 /\ (call.at = "settle" => m_pthreadnum = 0)
    BY <1>1, <1>3, <1>4, <1>5, <1>7, <1>8, <2>1 DEF Stopping
  <2>3. RestSound'
    BY <1>1, <2>1, <2>2 DEF PoolInv, RestSound, Stopped
  <2>4. StartSound'
    BY <1>1, <1>3, <1>4, <1>5, <2>1, <2>2 DEF StartSound
  <2>5. RunSound' /\ ReporterSound' /\ WaitSound'
    BY <1>1, <1>5, <2>1, <2>2 DEF RunSound, Stopping, ReporterSound, WaitSound
  <2> QED  BY <1>2, <2>3, <2>4, <2>5 DEF PoolInv
<1>9. CASE ~ReporterClear(r)
  <2>1. poolSize' = poolSize /\ LiveReporters' = {r} /\ rep[r].at # "clear"
    BY <1>1, <1>9 DEF OnReportHandle, ReporterTop, ReporterScan, ReporterSent, ReporterCheck,
       ReporterStop
  <2>2. /\ rep'[r].at # "born"
        /\ rep'[r].at \in {"top", "scan", "send", "check", "stop"} => m_bIsRunning'
        /\ rep'[r].at \in {"stop", "clear"} => LiveHandlers = {} /\ m_pthreadnum_alive = 0
        /\ rep'[r].at = "clear" => ~m_bIsRunning'
        /\ rep'[r].at # "clear" => m_bIsRunning'
        /\ rep'[r].at \in {"top", "send"} /\ call.at = "settle" => m_pthreadnum > 0
        /\ ~m_bIsRunning' => LiveHandlers = {} /\ m_pthreadnum_alive = 0
        /\ m_bIsRunning => m_bIsRunning' \/ LiveHandlers = {}
    <3>1. CASE ReporterTop(r)
      <4>1. /\ rep[r].at \in {"born", "top"} /\ rep'[r].at = "scan"
            /\ m_bIsRunning' = (m_bIsRunning \/ m_pthreadnum = m_pthreadnum_alive)
        BY <1>1, <3>1 DEF ReporterTop
      <4>2. m_bIsRunning'
        BY <1>4, <1>7, <4>1 DEF Filled, Stopping
      <4> QED  BY <4>1, <4>2
    <3>2. CASE ReporterScan(r)
      <4>1. /\ rep[r].at = "scan" /\ m_bIsRunning' = m_bIsRunning
            /\ \/ rep' = [rep EXCEPT ![r] = [at |-> "check", i |-> 0]]
               \/ ~(rep[r].i >= Len(policy))
                  /\ rep' = [rep EXCEPT ![r] = [at |-> "send", i |-> rep[r].i]]
               \/ rep' = [rep EXCEPT ![r] = [at |-> "scan", i |-> rep[r].i + 1]]
        BY <3>2 DEF ReporterScan
      <4>2. /\ rep'[r].at \in {"check", "send", "scan"}
            /\ rep'[r].at = "send" => ~(rep[r].i >= Len(policy))
        BY <1>1, <4>1
      <4>3. rep'[r].at = "send" => m_pthreadnum > 0
        <5>1. rep[r].i \in Nat /\ Len(<<>>) = 0
          BY <1>1, EmptySeq DEF ReporterState
        <5> QED  BY <1>5, <4>2, <5>1 DEF PoolInv, IndexSound
      <4> QED  BY <1>7, <4>1, <4>2, <4>3
    <3>3. CASE ReporterSent(r)
      <4>1. rep[r].at = "send" /\ rep'[r].at = "scan" /\ m_bIsRunning' = m_bIsRunning
        BY <1>1, <3>3 DEF ReporterSent
      <4> QED  BY <1>7, <4>1
    <3>4. CASE ReporterCheck(r)
      <4>1. /\ rep[r].at = "check" /\ m_bIsRunning' = m_bIsRunning
            /\ rep'[r].at = IF m_pthreadnum_alive = 0 THEN "stop" ELSE "top"
        BY <1>1, <3>4 DEF ReporterCheck, ReporterState
      <4>2. call.at = "settle" => m_pthreadnum_alive = m_pthreadnum
        BY <1>4 DEF Filled, Stopping
      <4> QED  BY <1>4, <1>5, <1>7, <4>1, <4>2
    <3>5. CASE ReporterStop(r)
      <4>1. rep[r].at = "stop" /\ rep'[r].at = "clear" /\ ~m_bIsRunning'
        BY <1>1, <3>5 DEF ReporterStop, ReporterState
      <4> QED  BY <1>7, <4>1
    <3> QED  BY <1>9, <3>1, <3>2, <3>3, <3>4, <3>5 DEF OnReportHandle
  <2>3. ~m_bIsRunning' => call.at \notin Stopped \union {"stop"}
    BY <1>4, <1>5, <2>1, <2>2 DEF Filled, Stopped, Stopping
  <2>4. RestSound'
    BY <1>1, <1>4, <2>1, <2>2, <2>3 DEF PoolInv, RestSound, Stopped
  <2>5. StartSound'
    <3>1. call.at = "settle" /\ ~m_bIsRunning' => m_pthreadnum = 0
      BY <1>4, <2>2 DEF Filled, Stopping
    <3>2. call.at = "settle" => ~Stopping' /\ ~Stopping
      BY <1>1 DEF Stopping
    <3> QED  BY <1>1, <1>3, <1>4, <1>5, <2>1, <2>2, <3>1, <3>2 DEF StartSound, Filled
  <2>6. RunSound'
    <3>1. m_bIsRunning' /\ call.at # "settle" /\ ~Stopping => m_bIsRunning
      BY <1>4, <1>5, <2>1 DEF PoolInv, RestSound, Stopped, Stopping, CallAt
    <3> QED  BY <1>1, <1>3, <1>4, <2>1, <3>1 DEF PoolInv, RunSound, Stopping, Filled
  <2>7. WaitSound'
    BY <1>1, <1>3, <1>6, <2>1, <2>2 DEF WaitSound, Stopping
  <2>8. ReporterSound'
    BY <1>1, <1>3, <2>1, <2>2 DEF ReporterSound
  <2> QED  BY <1>2, <2>4, <2>5, <2>6, <2>7, <2>8 DEF PoolInv
<1> QED  BY <1>8, <1>9

LEMMA PoolStarts ==
  ASSUME Init
  PROVE  PoolInv
<1>1. LiveHandlers = {} /\ LiveReporters = {} /\ Alive = 0
  <2>1. LiveHandlers = {} /\ LiveReporters = {}
    BY DEF Init, PoolInit, LiveHandlers, LiveReporters, NoHandler, NoReporter
  <2> QED  BY <2>1, FS_EmptySet DEF Alive
<1>2. MaxPolicies \in Nat /\ MaxSlots \in Nat /\ nTaskNumPerThread \in Nat \ {0}
  BY PoolAssumption
<1>3. CeilDiv(MaxPolicies, nTaskNumPerThread) \in Nat
  BY <1>2, CeilDivType
<1>4. call \in [cmd : Commands, at : CallAt, i : Nat] /\ call.at = "idle"
  BY DEF Init, NoCall, Commands, CallAt
<1>5. NoHandler \in HandlerState /\ NoReporter \in ReporterState /\ NoHandler.i \in Nat
  BY <1>2 DEF NoHandler, NoReporter, HandlerState, ReporterState, HandlerAt, ReporterAt,
     SlotIndex
<1>6. TypeOK
  <2>1. policy \in Seq(PolicyRecord) /\ Len(policy) = 0
    BY EmptySeq DEF Init, PoolInit
  <2>2. /\ m_pthreadnum \in 0 .. CeilDiv(MaxPolicies, nTaskNumPerThread)
        /\ poolSize \in 0 .. MaxSlots /\ Len(policy) <= MaxPolicies
    BY <1>2, <1>3, <2>1 DEF Init, PoolInit
  <2>3. /\ hand \in [Handlers -> HandlerState] /\ rep \in [Reporters -> ReporterState]
        /\ b_state \in [SlotIndex -> BOOLEAN]
    BY <1>5 DEF Init, PoolInit
  <2>4. m_bIsRunning \in BOOLEAN /\ bIsRunning \in BOOLEAN /\ loaded \in BOOLEAN
    BY DEF Init, PoolInit
  <2>5. m_pthreadnum_alive \in Int
    BY DEF Init, PoolInit
  <2> QED  BY <1>4, <2>1, <2>2, <2>3, <2>4, <2>5 DEF TypeOK, PoolTypeOK
<1>7. IndexSound
  BY <1>1, <1>5, FS_EmptySet DEF Init, PoolInit, IndexSound
<1>8. RestSound
  BY <1>1, <1>2, <1>4 DEF Init, PoolInit, RestSound, Quiet
<1>9. StartSound /\ RunSound /\ WaitSound /\ ReporterSound
  BY <1>1, <1>4 DEF Init, PoolInit, StartSound, RunSound, Stopping, WaitSound, ReporterSound
<1> QED  BY <1>6, <1>7, <1>8, <1>9 DEF PoolInv

LEMMA PoolStep ==
  ASSUME PoolInv, Dependable, [Next]_vars
  PROVE  PoolInv'
<1>1. CASE Receive \/ RefreshState \/ UNCHANGED vars
  BY <1>1, LoadStep, CommandStep, RefreshStep DEF Receive
<1>2. CASE Serve
  <2>1. CASE StartFails
    BY <2>1 DEF StartFails, PoolInv, RestSound
  <2>2. CASE Start /\ UNCHANGED <<bIsRunning, loaded>>
    BY <2>2, EnterStep, CreateStep, CountStep, ReportStep, SettleStep DEF Start
  <2> QED  BY <1>2, <2>1, <2>2, PolicyStep, CommandStep, StopStep, StopAskStep,
     StopWaitStep DEF Serve
<1>3. CASE PluginThreads
  BY <1>3, HandlerStep, ReporterStep DEF PluginThreads
<1> QED  BY <1>1, <1>2, <1>3 DEF Next

-----------------------------------------------------------------------------
\* At each place of the Worker it is known which threads of the plugin are there, how
\* many the counter says, and what m_bIsRunning says: the invariant of load, policies,
\* start, stop and wait.
THEOREM PoolSafe ==
  ASSUME Dependable
  PROVE  Spec => []PoolInv
<1>1. Init => PoolInv
  BY PoolStarts
<1>2. PoolInv /\ [Next]_vars => PoolInv'
  BY PoolStep
<1> QED  BY <1>1, <1>2, PTL DEF Spec

\* No thread but a report thread about to clear the pool is left when a stop returns, when
\* policies are replaced, nor when the plugin is freed.
THEOREM StoppedQuiet ==
  ASSUME Dependable
  PROVE  Spec => []StoppedIsQuiet
<1>1. PoolInv => StoppedIsQuiet
  BY Rests DEF PoolInv, RestSound, StoppedIsQuiet, Stopped
<1> QED  BY <1>1, PoolSafe, PTL

\* The unguarded counter is never too low: lost decrements only make it too high.
THEOREM CountedEnough ==
  ASSUME Dependable
  PROVE  Spec => []NeverUndercounted
<1>1. PoolInv => NeverUndercounted
  <2> SUFFICES ASSUME PoolInv, LiveHandlers # {}, call.at # "count",
                      ~(m_pthreadnum_alive > 0)
               PROVE  FALSE
    BY DEF NeverUndercounted
  <2>1. PICK h \in LiveHandlers : TRUE
    OBVIOUS
  <2>2. Alive >= 1 /\ m_pthreadnum_alive \in Int /\ m_pthreadnum \in Nat /\ call.at \in CallAt
    BY <2>1, Handling, PoolBound DEF PoolInv, TypeOK
  <2>3. Alive <= m_pthreadnum_alive
    <3>1. CASE call.at \in {"create", "report"}
      BY <2>2, <3>1, AliveType DEF PoolInv, StartSound
    <3>2. CASE Stopping
      BY <3>2 DEF PoolInv, WaitSound, Stopping
    <3>3. CASE call.at = "settle"
      BY <2>2, <3>3, PoolBound, AliveType DEF PoolInv, StartSound, Filled
    <3>4. CASE call.at \notin {"create", "report", "ask", "wait", "settle"}
      <4>1. call.at # "failed" /\ call.at \in Stopped \union {"stop"} /\ m_bIsRunning
        BY <2>1, <2>2, <3>4, Handling DEF PoolInv, RestSound, Stopped, CallAt
      <4>2. ~Stopping /\ call.at # "settle"
        BY <3>4 DEF Stopping
      <4>3. Filled /\ Alive = m_pthreadnum
        BY <4>1, <4>2 DEF PoolInv, RunSound
      <4>4. m_pthreadnum_alive = Alive /\ m_pthreadnum_alive \in Int
        BY <2>2, <4>3 DEF Filled
      <4> QED  BY <4>4
    <3> QED  BY <3>1, <3>2, <3>3, <3>4 DEF Stopping
  <2> QED  BY <2>2, <2>3, AliveType
<1> QED  BY <1>1, PoolSafe, PTL

\* m_bIsRunning is reset only after the last handler has ended.
THEOREM DownWhenEmpty ==
  ASSUME Dependable
  PROVE  Spec => DownOnlyWhenEmpty
<1>1. ASSUME PoolInv, [Next]_vars, m_bIsRunning, ~m_bIsRunning'
      PROVE  LiveHandlers = {}
  <2>1. ~LoadModule
    BY <1>1 DEF LoadModule, PoolInv, RestSound
  <2>2. \E r \in Reporters : ReporterStop(r)
    <3>1. CASE Receive \/ RefreshState \/ UNCHANGED vars
      BY <1>1, <2>1, <3>1 DEF Receive, SetModuleData, StopScModule, RefreshState, vars, poolVars
    <3>2. CASE Serve
      BY <1>1, <3>2 DEF Serve, PassPolicies, SetData, StartScModule, StartReturns, StartFails,
         CallStop, Stop, StopAsk, StopWait, StopReturns, Start, StartEnter, StartCreate, StartCount,
         StartReport, StartSettle, poolVars
    <3>3. CASE PluginThreads
      BY <1>1, <3>3, HandlerMoves DEF PluginThreads, handlerFrame, OnReportHandle,
         ReporterTop, ReporterScan, ReporterSent, ReporterCheck, ReporterClear
    <3> QED  BY <1>1, <3>1, <3>2, <3>3 DEF Next
  <2>3. PICK r \in Reporters : ReporterStop(r)
    BY <2>2
  <2>4. r \in LiveReporters /\ rep[r].at = "stop"
    BY <2>3 DEF ReporterStop, LiveReporters
  <2> QED  BY <1>1, <2>4 DEF PoolInv, ReporterSound
<1>2. PoolInv /\ [Next]_vars => [m_bIsRunning /\ ~m_bIsRunning' => LiveHandlers = {}]_vars
  BY <1>1
<1> QED  BY <1>2, PoolSafe, PTL DEF Spec, DownOnlyWhenEmpty

-----------------------------------------------------------------------------
(* What holds although threads cannot be created, and however slow they are *)

Watched ==
  /\ rep \in [Reporters -> ReporterState]
  /\ RunningIsWatched

LEMMA WatchedStep ==
  ASSUME Watched, [Next]_vars
  PROVE  Watched'
<1>1. ASSUME UNCHANGED rep, m_bIsRunning' => m_bIsRunning
      PROVE  Watched'
  BY <1>1 DEF Watched, RunningIsWatched, LiveReporters
<1>2. CASE Receive \/ RefreshState \/ UNCHANGED vars
  BY <1>1, <1>2 DEF Receive, LoadModule, Constructed, SetModuleData, StopScModule,
     RefreshState, vars, poolVars
<1>3. CASE Serve /\ ~StartReport
  <2>1. CASE Start
    BY <1>1, <1>3, <2>1 DEF Start, StartEnter, StartCreate, StartCount, StartSettle, poolVars
  <2>2. CASE ~Start
    <3>1. UNCHANGED rep /\ UNCHANGED m_bIsRunning
      BY <1>3, <2>2 DEF Serve, PassPolicies, SetData, StartScModule, StartReturns,
         StartFails, CallStop, Stop, StopAsk, StopWait, StopReturns, poolVars
    <3> QED  BY <1>1, <3>1
  <2> QED  BY <2>1, <2>2
<1>4. CASE StartReport
  <2>1. CASE UNCHANGED rep
    BY <1>1, <1>4, <2>1 DEF StartReport
  <2>2. CASE \E r \in Reporters \ LiveReporters :
               rep' = [rep EXCEPT ![r] = [at |-> "born", i |-> 0]]
    <3>1. PICK r \in Reporters \ LiveReporters :
            rep' = [rep EXCEPT ![r] = [at |-> "born", i |-> 0]]
      BY <2>2
    <3>2. rep' \in [Reporters -> ReporterState] /\ rep'[r].at = "born"
      BY <3>1 DEF Watched, ReporterState, ReporterAt
    <3> QED  BY <3>2 DEF Watched, RunningIsWatched, LiveReporters
  <2> QED  BY <1>4, <2>1, <2>2 DEF StartReport
<1>5. CASE \E h \in Handlers : OnWeakpasswdHandle(h)
  BY <1>1, <1>5 DEF handlerFrame, OnWeakpasswdHandle, HandlerNumber, HandlerArm, HandlerLoop,
     HandlerScan, HandlerStore, HandlerMark, HandlerNext, HandlerRoundEnd, HandlerLoadAlive,
     HandlerStoreAlive
<1>6. ASSUME NEW r \in Reporters, OnReportHandle(r) PROVE Watched'
  <2>1. rep[r].i \in Nat /\ rep[r].i + 1 \in Nat /\ rep \in [Reporters -> ReporterState]
        /\ rep[r] = [at |-> rep[r].at, i |-> rep[r].i]
    BY DEF Watched, ReporterState
  <2>2. CASE \/ ReporterTop(r) \/ ReporterSent(r) \/ ReporterCheck(r) \/ ReporterScan(r)
    <3>1. PICK at \in ReporterAt \ {"none", "clear"}, i \in Nat :
            rep' = [rep EXCEPT ![r] = [at |-> at, i |-> i]]
      <4>1. CASE ReporterTop(r) \/ ReporterSent(r)
        BY <2>1, <4>1 DEF ReporterTop, ReporterSent, ReporterAt
      <4>2. CASE ReporterCheck(r)
        <5>1. PICK at \in {"stop", "top"} : rep' = [rep EXCEPT ![r].at = at]
          BY <4>2 DEF ReporterCheck
        <5>2. [rep[r] EXCEPT !.at = at] = [at |-> at, i |-> rep[r].i]
          BY <2>1
        <5> QED  BY <2>1, <5>1, <5>2 DEF ReporterAt
      <4>3. CASE ReporterScan(r)
        <5>1. \/ rep' = [rep EXCEPT ![r] = [at |-> "check", i |-> 0]]
              \/ rep' = [rep EXCEPT ![r] = [at |-> "send", i |-> rep[r].i]]
              \/ rep' = [rep EXCEPT ![r] = [at |-> "scan", i |-> rep[r].i + 1]]
          BY <4>3 DEF ReporterScan
        <5> QED  BY <2>1, <5>1 DEF ReporterAt
      <4> QED  BY <2>2, <4>1, <4>2, <4>3
    <3>2. [at |-> at, i |-> i] \in ReporterState
      BY DEF ReporterState
    <3>3. rep' \in [Reporters -> ReporterState] /\ rep'[r].at = at
      BY <2>1, <3>1, <3>2
    <3> QED  BY <3>3 DEF Watched, RunningIsWatched, LiveReporters
  <2>3. CASE ReporterStop(r)
    <3>1. [rep[r] EXCEPT !.at = "clear"] \in ReporterState
      BY <2>1 DEF ReporterState, ReporterAt
    <3>2. rep' \in [Reporters -> ReporterState] /\ ~m_bIsRunning'
      BY <2>1, <2>3, <3>1 DEF ReporterStop
    <3> QED  BY <3>2 DEF Watched, RunningIsWatched
  <2>4. CASE ReporterClear(r)
    <3>1. /\ rep[r].at = "clear" /\ rep' = [rep EXCEPT ![r] = NoReporter]
          /\ m_bIsRunning' = m_bIsRunning /\ NoReporter \in ReporterState
      BY <2>4 DEF ReporterClear, NoReporter, ReporterState, ReporterAt
    <3>2. /\ rep' \in [Reporters -> ReporterState]
          /\ \A q \in Reporters : q # r => rep'[q] = rep[q]
      BY <2>1, <3>1
    <3>3. m_bIsRunning => \E q \in Reporters : rep[q].at \notin {"none", "clear"}
      BY DEF Watched, RunningIsWatched, LiveReporters
    <3> QED  BY <3>1, <3>2, <3>3 DEF Watched, RunningIsWatched, LiveReporters
  <2> QED  BY <1>6, <2>2, <2>3, <2>4 DEF OnReportHandle
<1> QED  BY <1>2, <1>3, <1>4, <1>5, <1>6 DEF Next, PluginThreads

\* Somebody is there who will take m_bIsRunning back.
THEOREM RunningWatched == Spec => []RunningIsWatched
<1>1. Init => Watched
  BY DEF Init, PoolInit, Watched, RunningIsWatched, NoReporter, ReporterState, ReporterAt
<1>2. Watched /\ [Next]_vars => Watched'
  BY WatchedStep
<1>3. Watched => RunningIsWatched
  BY DEF Watched
<1> QED  BY <1>1, <1>2, <1>3, PTL DEF Spec

-----------------------------------------------------------------------------
(* Which host is whose: the shares of the handlers *)

LEMMA ShareBegins ==
  ASSUME NEW num \in Nat, m_pthreadnum \in Nat
  PROVE  InShare(num, num)
<1>1. 0 \in 0 .. num /\ num = num + 0 * m_pthreadnum
  OBVIOUS
<1> QED  BY <1>1 DEF InShare

LEMMA ShareGoesOn ==
  ASSUME NEW num \in Nat, NEW i \in Nat, m_pthreadnum \in Nat \ {0}, InShare(i, num)
  PROVE  InShare(i + m_pthreadnum, num)
<1>1. PICK k \in 0 .. i : i = num + k * m_pthreadnum
  BY DEF InShare
<1>2. (k + 1) * m_pthreadnum = k * m_pthreadnum + m_pthreadnum
  OBVIOUS
<1>3. k * m_pthreadnum \in Int
  OBVIOUS
<1>4. i + m_pthreadnum = num + (k + 1) * m_pthreadnum
  BY <1>1, <1>2, <1>3
<1>5. k + 1 \in 0 .. i + m_pthreadnum
  OBVIOUS
<1> QED  BY <1>4, <1>5 DEF InShare

\* Numbers below m_pthreadnum have no host in common.
LEMMA ShareUnique ==
  ASSUME m_pthreadnum \in Nat \ {0}, NEW i \in Nat,
         NEW a \in 0 .. m_pthreadnum - 1, NEW b \in 0 .. m_pthreadnum - 1,
         InShare(i, a), InShare(i, b)
  PROVE  a = b
<1> DEFINE m == m_pthreadnum
<1>1. PICK k \in Nat : i = a + k * m
  <2>1. PICK k \in 0 .. i : i = a + k * m
    BY DEF InShare
  <2> QED  BY <2>1
<1>2. PICK l \in Nat : i = b + l * m
  <2>1. PICK l \in 0 .. i : i = b + l * m
    BY DEF InShare
  <2> QED  BY <2>1
<1>3. m \in Nat \ {0} /\ a \in 0 .. m - 1 /\ b \in 0 .. m - 1
  OBVIOUS
<1> HIDE DEF m
<1>4. k * m \in Nat /\ l * m \in Nat
  BY <1>3
<1>5. ASSUME NEW x \in Nat, NEW y \in Nat, x < y
      PROVE  y * m >= x * m + m
  <2>1. (y - x - 1) * m \in Nat
    BY <1>3, <1>5
  <2>2. y * m = x * m + m + (y - x - 1) * m
    BY <1>3
  <2>3. x * m \in Nat /\ y * m \in Nat
    BY <1>3
  <2> QED  BY <1>3, <2>1, <2>2, <2>3
<1>6. ~(k < l) /\ ~(l < k)
  BY <1>1, <1>2, <1>3, <1>4, <1>5
<1>7. k = l
  BY <1>6
<1> QED  BY <1>1, <1>2, <1>3, <1>4, <1>7

\* What PoolInv says of a handler that has its number.
LEMMA Numbered ==
  ASSUME PoolInv, NEW h \in LiveHandlers, hand[h].at # "born"
  PROVE  /\ hand[h].num \in 0 .. m_pthreadnum - 1 /\ hand[h].num \in Nat
         /\ hand[h].num <= poolSize - 1
         /\ hand[h].i \in Nat /\ m_pthreadnum \in Nat \ {0}
<1>1. h \in Handlers
  BY DEF LiveHandlers
<1> QED  BY <1>1, PoolBound, Handling DEF PoolInv, RunSound, Stopping, IndexSound

\* Two handlers that are within their shares are not at the same host.
LEMMA OwnHost ==
  ASSUME PoolInv, NumberSound, NEW g \in LiveHandlers, NEW h \in LiveHandlers, g # h,
         Walks(g), Walks(h),
         hand[g].at \in {"scan", "store", "mark", "next"},
         hand[h].at \in {"scan", "store", "mark", "next"}
  PROVE  hand[g].i # hand[h].i
<1>1. InShare(hand[g].i, hand[g].num) /\ InShare(hand[h].i, hand[h].num)
  BY DEF Walks
<1>2. hand[g].num # hand[h].num
  BY DEF NumberSound
<1> QED  BY <1>1, <1>2, Numbered, ShareUnique

\* Without threads there are no shares.
LEMMA NoShares ==
  ASSUME LiveHandlers' = {}, LiveReporters' = {}
  PROVE  ShareSound'
BY DEF ShareSound, SendSound, NumberSound

\* The policies and the handlers are the same.
LEMMA SameShares ==
  ASSUME ShareSound, UNCHANGED <<policy, m_pthreadnum, poolSize, hand>>,
         call.at = "count" => call'.at = "count" \/ \A h \in LiveHandlers : hand[h].at \notin New
  PROVE  NumberSound' /\ \A h \in LiveHandlers' : Walks(h)'
<1>1. LiveHandlers' = LiveHandlers
  BY SameHandlers
<1>2. \A h \in LiveHandlers : Walks(h)'
  BY DEF ShareSound, Walks, InShare
<1>3. NumberSound'
  BY <1>1 DEF ShareSound, NumberSound
<1> QED  BY <1>1, <1>2, <1>3

\* A step of the Worker.
LEMMA WorkerShares ==
  ASSUME PoolInv, ShareSound, Dependable, PromptHandler,
         Receive \/ Serve \/ RefreshState \/ UNCHANGED vars
  PROVE  ShareSound'
<1>1. \A h \in LiveHandlers : hand[h].at \in New => call.at = "count"
  BY DEF ShareSound, NumberSound
<1>2. CASE LoadModule
  BY <1>2, SameHandlers, SameReporters, NoShares DEF LoadModule, Quiet
<1>3. CASE PassPolicies
  <2>1. /\ LiveHandlers = {} /\ UNCHANGED <<hand, rep>>
        /\ \A r \in LiveReporters : rep[r].at = "clear"
    BY <1>3, Rests DEF PassPolicies, SetData, Stopped, PoolInv, RestSound
  <2>2. LiveHandlers' = {} /\ LiveReporters' = LiveReporters
    BY <2>1, SameHandlers, SameReporters
  <2> QED  BY <2>1, <2>2 DEF ShareSound, SendSound, NumberSound
<1>4. CASE StartCreate
  <2>1. PICK h \in Handlers \ LiveHandlers :
          /\ hand' = [hand EXCEPT ![h] = [NoHandler EXCEPT !.at = "born"]]
          /\ call.at = "create" /\ call' = [call EXCEPT !.at = "count"]
          /\ poolSize' = poolSize + 1 /\ UNCHANGED <<policy, m_pthreadnum, rep>>
    BY <1>4 DEF StartCreate, CallTo, Dependable
  <2>2. /\ LiveHandlers' = LiveHandlers \union {h} /\ hand'[h].at = "born"
        /\ \A g \in LiveHandlers : g # h /\ hand'[g] = hand[g]
    BY <2>1, HandlerCreated
  <2>3. call'.at = "count"
    BY <2>1, Calls DEF CallAt
  <2>4. LiveReporters' = {}
    BY <2>1, SameReporters DEF PoolInv, StartSound
  <2>5. \A g \in LiveHandlers : /\ hand[g].at \notin New /\ hand[g].at # "born"
                                /\ hand[g].num <= poolSize - 1 /\ hand[g].num \in Nat
    BY <1>1, <2>1, Numbered DEF New
  <2>6. NumberSound'
    <3>1. poolSize \in Nat
      BY PoolBound
    <3>2. \A g \in LiveHandlers : hand'[g].num < poolSize' - 1
      BY <2>1, <2>2, <2>5, <3>1
    <3>3. \A g, f \in LiveHandlers : f = g \/ hand[f].num # hand[g].num
      BY <2>5 DEF ShareSound, NumberSound
    <3> QED  BY <2>2, <2>3, <2>5, <3>2, <3>3 DEF NumberSound, New
  <2>7. ASSUME NEW g \in LiveHandlers PROVE Walks(g)'
    BY <2>1, <2>2 DEF ShareSound, Walks, InShare
  <2>8. Walks(h)'
    BY <2>2 DEF Walks, New
  <2> QED  BY <2>2, <2>4, <2>6, <2>7, <2>8 DEF ShareSound, SendSound
<1>5. CASE StartReport
  <2>1. PICK r \in Reporters : /\ call.at = "report" /\ LiveReporters = {}
                               /\ rep' = [rep EXCEPT ![r] = [at |-> "born", i |-> 0]]
                               /\ UNCHANGED <<policy, m_pthreadnum, poolSize, hand>>
    BY <1>5 DEF StartReport, Dependable, PoolInv, StartSound
  <2>2. NumberSound' /\ \A h \in LiveHandlers' : Walks(h)'
    BY <2>1, SameShares
  <2>3. \A q \in Reporters : rep'[q].at # "send"
    BY <2>1 DEF PoolInv, TypeOK, PoolTypeOK, LiveReporters
  <2> QED  BY <2>2, <2>3 DEF ShareSound, SendSound, LiveReporters
<1>6. CASE ~LoadModule /\ ~PassPolicies /\ ~StartCreate /\ ~StartReport
  <2>1. /\ UNCHANGED <<policy, m_pthreadnum, poolSize, hand, rep>>
        /\ call.at = "count" => call'.at = "count"
             \/ \A h \in LiveHandlers : hand[h].at \notin New
    <3>1. CASE Receive \/ RefreshState \/ UNCHANGED vars
      BY <1>6, <3>1 DEF Receive, SetModuleData, StopScModule, RefreshState, vars, poolVars
    <3>2. CASE StartCount
      BY <3>2 DEF StartCount, LiveHandlers, New
    <3>3. CASE Serve /\ ~StartCount
      BY <1>6, <3>3 DEF Serve, StartScModule, StartReturns, StartFails, CallStop, Stop,
         StopAsk, StopWait, StopReturns, Start, StartEnter, StartSettle, poolVars
    <3> QED  BY <3>1, <3>2, <3>3
  <2>2. NumberSound' /\ \A h \in LiveHandlers' : Walks(h)'
    BY <2>1, SameShares
  <2>3. SendSound'
    BY <2>1 DEF ShareSound, SendSound, LiveReporters
  <2> QED  BY <2>2, <2>3 DEF ShareSound
<1> QED  BY <1>2, <1>3, <1>4, <1>5, <1>6

\* What a step of a handler does to the policies: it finishes one or leaves them.
LEMMA HandlerWrites ==
  ASSUME PoolInv, NEW h \in Handlers, OnWeakpasswdHandle(h)
  PROVE  /\ Len(policy) \in Nat /\ Len(policy') = Len(policy)
         /\ \A k \in 1 .. Len(policy) :
              \/ policy'[k].bFinished = policy[k].bFinished
              \/ HandlerMark(h) /\ k = hand[h].i + 1 /\ policy'[k].bFinished
<1>1. policy \in Seq(PolicyRecord)
  BY DEF PoolInv, TypeOK, PoolTypeOK
<1>2. /\ DOMAIN policy = 1 .. Len(policy) /\ Len(policy) \in Nat
      /\ \A k \in 1 .. Len(policy) : policy[k] \in PolicyRecord
  BY <1>1, LenProperties, ElementOfSeq
<1>3. ASSUME NEW f, policy' = [k \in DOMAIN policy |-> f[k]]
      PROVE  Len(policy') = Len(policy) /\ \A k \in 1 .. Len(policy) : policy'[k] = f[k]
  BY <1>2, <1>3
<1>4. CASE HandlerStore(h)
  <2> DEFINE f == [k \in DOMAIN policy |-> IF k = hand[h].i + 1
                     THEN [policy[k] EXCEPT !.strResult = hand[h].found] ELSE policy[k]]
  <2>1. policy' = [k \in DOMAIN policy |-> f[k]]
    BY <1>4 DEF HandlerStore
  <2>2. \A k \in 1 .. Len(policy) : f[k].bFinished = policy[k].bFinished
    BY <1>2 DEF PolicyRecord
  <2> HIDE DEF f
  <2> QED  BY <1>2, <1>3, <2>1, <2>2
<1>5. CASE HandlerMark(h)
  <2> DEFINE f == [k \in DOMAIN policy |-> IF k = hand[h].i + 1
                     THEN [policy[k] EXCEPT !.bFinished = TRUE] ELSE policy[k]]
  <2>1. policy' = [k \in DOMAIN policy |-> f[k]]
    BY <1>5 DEF HandlerMark
  <2>2. \A k \in 1 .. Len(policy) :
          \/ f[k].bFinished = policy[k].bFinished
          \/ k = hand[h].i + 1 /\ f[k].bFinished
    BY <1>2 DEF PolicyRecord
  <2> HIDE DEF f
  <2> QED  BY <1>2, <1>3, <1>5, <2>1, <2>2
<1>6. CASE ~HandlerStore(h) /\ ~HandlerMark(h)
  <2>1. policy' = policy
    BY <1>6 DEF OnWeakpasswdHandle, HandlerNumber, HandlerArm, HandlerLoop, HandlerScan,
       HandlerNext, HandlerRoundEnd, HandlerLoadAlive, HandlerStoreAlive
  <2> QED  BY <1>2, <2>1
<1> QED  BY <1>4, <1>5, <1>6

\* A handler stays on its way.
LEMMA HandlerWalks ==
  ASSUME PoolInv, ShareSound, NEW h \in Handlers, OnWeakpasswdHandle(h), h \in LiveHandlers'
  PROVE  /\ Walks(h)'
         /\ hand[h].at = "born" => HandlerNumber(h)
         /\ ~HandlerNumber(h) => hand'[h].num = hand[h].num /\ hand'[h].at \notin New
<1>1. /\ h \in LiveHandlers /\ hand \in [Handlers -> HandlerState]
      /\ UNCHANGED <<m_pthreadnum, poolSize>>
  BY HandlerMoves DEF handlerFrame
<1>2. /\ Len(policy) \in Nat /\ Len(policy') = Len(policy)
      /\ \A k \in 1 .. Len(policy) : \/ policy'[k].bFinished = policy[k].bFinished
                                     \/ HandlerMark(h)
  BY HandlerWrites
<1>3. /\ hand[h].at \notin New => hand[h].n = Len(policy)
      /\ hand[h].at \in {"scan", "store", "mark", "next"} => InShare(hand[h].i, hand[h].num)
      /\ hand[h].at \in {"store", "mark"} =>
           hand[h].i < Len(policy) /\ ~policy[hand[h].i + 1].bFinished
  BY <1>1 DEF ShareSound, Walks
<1>4. hand[h].i \in Nat
  BY DEF PoolInv, IndexSound
<1>5. hand[h].at # "born" => hand[h].num \in Nat /\ m_pthreadnum \in Nat \ {0}
  BY <1>1, Numbered
<1>6. \A i, num : InShare(i, num)' <=> InShare(i, num)
  BY <1>1 DEF InShare
<1>7. CASE HandlerNumber(h)
  <2>1. hand'[h].at = "arm"
    BY <1>1, <1>7 DEF HandlerNumber, HandlerState
  <2> QED  BY <1>7, <2>1 DEF Walks, New
<1>8. CASE HandlerArm(h)
  <2>1. /\ hand[h].at = "arm" /\ hand'[h].at = "loop" /\ hand'[h].n = Len(policy)
        /\ hand'[h].num = hand[h].num
    BY <1>1, <1>8 DEF HandlerArm, HandlerState
  <2> QED  BY <1>2, <2>1 DEF Walks, New
<1>9. CASE HandlerLoop(h)
  <2>1. /\ hand[h].at = "loop" /\ hand'[h].n = hand[h].n /\ hand'[h].num = hand[h].num
        /\ \/ hand'[h].at = "exit"
           \/ hand'[h].at = "scan" /\ hand'[h].i = hand[h].num
    BY <1>1, <1>9 DEF HandlerLoop, HandTo, HandlerState
  <2>2. InShare(hand[h].num, hand[h].num)
    BY <1>5, <2>1, ShareBegins
  <2>3. hand'[h].at = "scan" => InShare(hand[h].i, hand[h].num)'
    BY <1>1, <2>1, <2>2 DEF InShare
  <2> QED  BY <1>2, <1>3, <2>1, <2>3 DEF Walks, New
<1>10. CASE HandlerScan(h)
  <2>1. PICK weak \in BOOLEAN, fin \in BOOLEAN :
          /\ hand[h].i \in 0 .. Len(policy) - 1 => fin = policy[hand[h].i + 1].bFinished
          /\ hand' = [hand EXCEPT ![h].at = IF fin THEN "next" ELSE "store",
                                  ![h].found = IF weak THEN @ \union {hand[h].i + 1} ELSE @]
    BY <1>10 DEF HandlerScan
  <2>2. /\ hand[h].at = "scan" /\ hand[h].i < hand[h].n /\ policy' = policy
        /\ hand'[h].at = IF fin THEN "next" ELSE "store"
        /\ hand'[h].i = hand[h].i /\ hand'[h].n = hand[h].n /\ hand'[h].num = hand[h].num
    BY <1>1, <1>10, <2>1 DEF HandlerScan, HandlerState
  <2>3. hand[h].n = Len(policy) /\ InShare(hand[h].i, hand[h].num)
    BY <1>3, <2>2 DEF New
  <2>4. ~fin => ~policy[hand[h].i + 1].bFinished
    BY <1>2, <1>4, <2>1, <2>2, <2>3
  <2>5. InShare(hand[h].i, hand[h].num)'
    BY <1>1, <2>2, <2>3 DEF InShare
  <2> QED  BY <2>2, <2>3, <2>4, <2>5 DEF Walks, New
<1>11. CASE HandlerStore(h)
  <2>1. /\ hand[h].at = "store" /\ hand'[h].at = "mark" /\ ~HandlerMark(h)
        /\ hand'[h].i = hand[h].i /\ hand'[h].n = hand[h].n /\ hand'[h].num = hand[h].num
    BY <1>1, <1>11 DEF HandlerStore, HandlerMark, HandTo, HandlerState
  <2>2. InShare(hand[h].i, hand[h].num)'
    BY <1>1, <1>3, <2>1 DEF InShare
  <2>3. hand[h].i < Len(policy) /\ ~policy'[hand[h].i + 1].bFinished
    BY <1>2, <1>3, <1>4, <2>1
  <2> QED  BY <1>2, <1>3, <2>1, <2>2, <2>3 DEF Walks, New
<1>12. CASE HandlerMark(h)
  <2>1. /\ hand[h].at = "mark" /\ hand'[h].at = "next"
        /\ hand'[h].i = hand[h].i /\ hand'[h].n = hand[h].n /\ hand'[h].num = hand[h].num
    BY <1>1, <1>12 DEF HandlerMark, HandTo, HandlerState
  <2>2. InShare(hand[h].i, hand[h].num)'
    BY <1>1, <1>3, <2>1 DEF InShare
  <2> QED  BY <1>2, <1>3, <2>1, <2>2 DEF Walks, New
<1>13. CASE HandlerNext(h)
  <2>1. /\ hand[h].at = "next" /\ hand'[h].n = hand[h].n /\ hand'[h].num = hand[h].num
        /\ \/ hand'[h].at = "loop"
           \/ hand'[h].at = "scan" /\ hand'[h].i = hand[h].i + m_pthreadnum
    BY <1>1, <1>13 DEF HandlerNext, HandlerState
  <2>2. InShare(hand[h].i + m_pthreadnum, hand[h].num)
    BY <1>3, <1>4, <1>5, <2>1, ShareGoesOn
  <2>3. hand'[h].at = "scan" => InShare(hand[h].i, hand[h].num)'
    BY <1>1, <2>1, <2>2 DEF InShare
  <2> QED  BY <1>2, <1>3, <2>1, <2>3 DEF Walks, New
<1>14. CASE HandlerRoundEnd(h) \/ HandlerLoadAlive(h)
  <2>1. /\ hand[h].at \in {"scan", "exit"} /\ hand'[h].at \in {"loop", "dec"}
        /\ hand'[h].n = hand[h].n /\ hand'[h].num = hand[h].num
    BY <1>1, <1>14 DEF HandlerRoundEnd, HandlerLoadAlive, HandTo, HandlerState
  <2> QED  BY <1>2, <1>3, <2>1 DEF Walks, New
<1>15. ~HandlerStoreAlive(h)
  BY HandlerLives
<1> QED
  BY <1>7, <1>8, <1>9, <1>10, <1>11, <1>12, <1>13, <1>14, <1>15 DEF OnWeakpasswdHandle

\* A step of a handler.
LEMMA HandlerShares ==
  ASSUME PoolInv, ShareSound, NEW h \in Handlers, OnWeakpasswdHandle(h)
  PROVE  ShareSound'
<1>1. /\ h \in LiveHandlers /\ hand \in [Handlers -> HandlerState]
      /\ \A g \in Handlers : g # h => hand'[g] = hand[g]
      /\ UNCHANGED <<m_pthreadnum, poolSize, rep, call>>
      /\ LiveHandlers \subseteq Handlers /\ LiveHandlers' \subseteq LiveHandlers
  BY HandlerMoves, HandlerLives DEF handlerFrame, LiveHandlers
<1>2. /\ Len(policy) \in Nat /\ Len(policy') = Len(policy)
      /\ \A k \in 1 .. Len(policy) :
           \/ policy'[k].bFinished = policy[k].bFinished
           \/ HandlerMark(h) /\ k = hand[h].i + 1 /\ policy'[k].bFinished
  BY HandlerWrites
<1>3. SendSound'
  <2>1. LiveReporters' = LiveReporters
    BY <1>1, SameReporters
  <2>2. \A r \in LiveReporters : rep[r].i \in Nat
    BY DEF PoolInv, TypeOK, PoolTypeOK, ReporterState, LiveReporters
  <2> QED  BY <1>1, <1>2, <2>1, <2>2 DEF ShareSound, SendSound
<1>4. NumberSound'
  <2>1. ASSUME NEW g \in LiveHandlers, NEW f \in LiveHandlers, g # f
        PROVE  /\ hand[f].at \in New => call.at = "count" /\ hand[g].at \notin New
               /\ hand[f].at # "born" => \/ hand[g].at = "born" /\ hand[f].num < poolSize - 1
                                         \/ hand[g].at # "born" /\ hand[g].num # hand[f].num
    BY <2>1 DEF ShareSound, NumberSound
  <2>2. CASE HandlerNumber(h)
    <3>1. hand[h].at = "born" /\ hand'[h].at = "arm" /\ hand'[h].num = poolSize - 1
      BY <1>1, <2>2 DEF HandlerNumber, HandlerState
    <3>2. call.at = "count" /\ \A g \in LiveHandlers : g # h =>
            hand[g].at \notin New /\ hand[g].num < poolSize - 1 /\ hand[g].at # "born"
      BY <1>1, <2>1, <3>1 DEF ShareSound, NumberSound, New
    <3>3. \A g \in LiveHandlers : g # h => hand[g].num \in Nat
      BY <3>2, Numbered
    <3>4. \A g \in LiveHandlers : g # h => hand[g].num # poolSize - 1
      <4>1. poolSize \in Nat
        BY PoolBound
      <4> QED  BY <3>2, <3>3, <4>1
    <3> QED  BY <1>1, <2>1, <3>1, <3>2, <3>4 DEF NumberSound, New
  <2>3. CASE ~HandlerNumber(h) /\ h \in LiveHandlers'
    <3>1. hand[h].at # "born" /\ hand'[h].num = hand[h].num /\ hand'[h].at \notin New
      BY <2>3, HandlerWalks
    <3>2. hand'[h].at # "born"
      BY <3>1 DEF New
    <3>3. \A g \in LiveHandlers : /\ hand'[g].num = hand[g].num
                                  /\ hand'[g].at \in New => hand[g].at \in New
                                  /\ hand'[g].at = "born" <=> hand[g].at = "born"
      BY <1>1, <3>1, <3>2
    <3>4. \A g \in LiveHandlers : hand[g].at \in New => call.at = "count"
      BY DEF ShareSound, NumberSound
    <3>5. ASSUME NEW f \in LiveHandlers, hand'[f].at \in New
          PROVE  call.at = "count" /\ \A g \in LiveHandlers : g = f \/ hand'[g].at \notin New
      <4>1. hand[f].at \in New
        BY <3>3, <3>5
      <4>2. \A g \in LiveHandlers : g # f => hand[g].at \notin New
        BY <2>1, <4>1
      <4> QED  BY <3>3, <3>4, <4>1, <4>2
    <3>6. ASSUME NEW f \in LiveHandlers, NEW g \in LiveHandlers, g # f, hand'[f].at # "born"
          PROVE  \/ hand'[g].at = "born" /\ hand'[f].num < poolSize - 1
                 \/ hand'[g].at # "born" /\ hand'[g].num # hand'[f].num
      <4>1. hand[f].at # "born" /\ hand'[f].num = hand[f].num
        BY <3>3, <3>6
      <4>2. hand'[g].num = hand[g].num /\ (hand'[g].at = "born" <=> hand[g].at = "born")
        BY <3>3
      <4> QED  BY <2>1, <3>6, <4>1, <4>2
    <3> QED  BY <1>1, <3>5, <3>6 DEF NumberSound
  <2>4. CASE h \notin LiveHandlers'
    <3>1. \A g \in LiveHandlers' : g \in LiveHandlers /\ hand'[g] = hand[g]
      BY <1>1, <2>4
    <3> QED  BY <1>1, <3>1 DEF ShareSound, NumberSound
  <2> QED  BY <2>2, <2>3, <2>4
<1>5. ASSUME NEW g \in LiveHandlers', g # h PROVE Walks(g)'
  <2>1. g \in LiveHandlers /\ hand'[g] = hand[g] /\ Walks(g)
    BY <1>1, <1>5 DEF ShareSound
  <2>2. hand'[g].at \in {"store", "mark"} => ~policy'[hand'[g].i + 1].bFinished
    <3>1. SUFFICES ASSUME hand[g].at \in {"store", "mark"}
                   PROVE  ~policy'[hand[g].i + 1].bFinished
      BY <2>1
    <3>2. /\ hand[g].i < Len(policy) /\ ~policy[hand[g].i + 1].bFinished /\ hand[g].i \in Nat
          /\ hand[h].i \in Nat
      BY <1>1, <2>1, <3>1 DEF Walks, PoolInv, IndexSound
    <3>3. HandlerMark(h) => hand[g].i # hand[h].i
      BY <1>1, <1>5, <2>1, <3>1, OwnHost DEF HandlerMark, ShareSound
    <3> QED  BY <1>2, <3>2, <3>3
  <2> QED  BY <1>1, <1>2, <2>1, <2>2 DEF Walks, InShare
<1>6. h \in LiveHandlers' => Walks(h)'
  BY HandlerWalks
<1> QED  BY <1>3, <1>4, <1>5, <1>6 DEF ShareSound

\* A step of the report thread.
LEMMA ReporterShares ==
  ASSUME PoolInv, ShareSound, NEW r \in Reporters, OnReportHandle(r)
  PROVE  ShareSound'
<1>1. /\ LiveReporters = {r} /\ rep \in [Reporters -> ReporterState]
      /\ LiveReporters' = IF ReporterClear(r) THEN {} ELSE {r}
      /\ UNCHANGED <<m_pthreadnum, hand, call>>
  BY ReporterMoves DEF reporterFrame
<1>2. LiveHandlers' = LiveHandlers
  BY <1>1, SameHandlers
<1>3. CASE ReporterClear(r)
  <2>1. LiveHandlers = {}
    BY <1>1, <1>3 DEF ReporterClear, PoolInv, ReporterSound
  <2> QED  BY <1>1, <1>2, <1>3, <2>1, NoShares
<1>4. CASE ~ReporterClear(r)
  <2>1. poolSize' = poolSize
    BY <1>4 DEF OnReportHandle, ReporterTop, ReporterScan, ReporterSent, ReporterCheck,
       ReporterStop
  <2>2. /\ Len(policy) \in Nat /\ Len(policy') = Len(policy)
        /\ \A k \in 1 .. Len(policy) : policy'[k].bFinished => policy[k].bFinished
        /\ policy' = policy \/ ReporterSent(r)
    <3>1. policy \in Seq(PolicyRecord)
      BY DEF PoolInv, TypeOK, PoolTypeOK
    <3>2. /\ DOMAIN policy = 1 .. Len(policy) /\ Len(policy) \in Nat
          /\ \A k \in 1 .. Len(policy) : policy[k] \in PolicyRecord
      BY <3>1, LenProperties, ElementOfSeq
    <3>3. CASE ReporterSent(r)
      <4> DEFINE f == [k \in DOMAIN policy |-> IF k = rep[r].i + 1
                         THEN [policy[k] EXCEPT !.bFinished = FALSE] ELSE policy[k]]
      <4>1. policy' = f
        BY <3>3 DEF ReporterSent
      <4>2. \A k \in 1 .. Len(policy) : f[k].bFinished => policy[k].bFinished
        BY <3>2 DEF PolicyRecord
      <4>3. Len(f) = Len(policy)
        BY <3>2
      <4> HIDE DEF f
      <4> QED  BY <3>2, <3>3, <4>1, <4>2, <4>3
    <3>4. CASE ~ReporterSent(r)
      <4>1. policy' = policy
        BY <1>4, <3>4 DEF OnReportHandle, ReporterTop, ReporterScan, ReporterCheck, ReporterStop
      <4> QED  BY <3>2, <4>1
    <3> QED  BY <3>3, <3>4
  <2>3. NumberSound'
    BY <1>1, <1>2, <2>1 DEF ShareSound, NumberSound
  <2>4. ASSUME NEW h \in LiveHandlers' PROVE Walks(h)'
    <3>1. Walks(h) /\ h \in LiveHandlers /\ hand[h].i \in Nat
      BY <1>2, <2>4 DEF ShareSound, PoolInv, IndexSound, LiveHandlers
    <3> QED  BY <1>1, <2>2, <3>1 DEF Walks, InShare
  <2>5. SendSound'
    <3>1. SUFFICES ASSUME rep'[r].at = "send"
                   PROVE  rep'[r].i < Len(policy') /\ policy'[rep'[r].i + 1].bFinished
      BY <1>1, <1>4 DEF SendSound
    <3>2. rep'[r].at = "send" /\ rep[r] \in ReporterState
      BY <1>1, <3>1
    <3>3. ~ReporterTop(r) /\ ~ReporterSent(r) /\ ~ReporterStop(r)
      BY <1>1, <3>2 DEF ReporterTop, ReporterSent, ReporterStop, ReporterState
    <3>4. ~ReporterCheck(r)
      <4>1. ReporterCheck(r) => rep'[r].at \in {"stop", "top"}
        BY <1>1 DEF ReporterCheck, ReporterState
      <4> QED  BY <3>2, <4>1
    <3>5. ReporterScan(r)
      BY <1>4, <3>3, <3>4 DEF OnReportHandle
    <3>6. /\ ~(rep[r].i >= Len(policy)) /\ policy[rep[r].i + 1].bFinished
          /\ rep'[r].i = rep[r].i
      BY <1>1, <3>2, <3>5 DEF ReporterScan
    <3> QED  BY <2>2, <3>2, <3>3, <3>6 DEF ReporterState
  <2> QED  BY <2>3, <2>4, <2>5 DEF ShareSound
<1> QED  BY <1>3, <1>4

-----------------------------------------------------------------------------
\* The plugin under its manager, for handlers of any speed; and where they are prompt, each
\* of them works on a share of the policies of its own.
THEOREM PluginSafe ==
  ASSUME Dependable
  PROVE  Spec => []PluginInv
<1>1. Init => PluginInv
  <2>1. Init => ShareSound
    BY DEF Init, PoolInit, NoHandler, NoReporter, ShareSound, SendSound, NumberSound,
       LiveHandlers, LiveReporters
  <2> QED  BY <2>1, PoolStarts DEF PluginInv
<1>2. PluginInv /\ [Next]_vars => PluginInv'
  <2> SUFFICES ASSUME PluginInv, [Next]_vars PROVE PluginInv'
    OBVIOUS
  <2>1. PoolInv /\ PoolInv'
    BY PoolStep DEF PluginInv
  <2>2. ASSUME PromptHandler PROVE ShareSound'
    <3>1. ShareSound
      BY <2>2 DEF PluginInv
    <3> QED
      BY <2>1, <2>2, <3>1, WorkerShares, HandlerShares, ReporterShares DEF Next, PluginThreads
  <2> QED  BY <2>1, <2>2 DEF PluginInv
<1> QED  BY <1>1, <1>2, PTL DEF Spec

\* Every handler that has its number owns a pool entry of its own.
THEOREM OwnEntry ==
  ASSUME Dependable, PromptHandler
  PROVE  Spec => []OwnPoolEntry
<1>1. PluginInv => OwnPoolEntry
  BY DEF PluginInv, PoolInv, RunSound, Stopping, ShareSound, NumberSound, OwnPoolEntry
<1> QED  BY <1>1, PluginSafe, PTL

\* No handler writes the result that the report thread reads.
THEOREM NotTorn ==
  ASSUME Dependable, PromptHandler
  PROVE  Spec => []ResultNotTorn
<1>1. PluginInv => ResultNotTorn
  BY DEF PluginInv, ShareSound, SendSound, Walks, ResultNotTorn
<1> QED  BY <1>1, PluginSafe, PTL

-----------------------------------------------------------------------------
(* PluginLife: every step is one of its steps, or changes nothing of it *)

LEMMA TaskedType == IsTasked \in BOOLEAN /\ IsTasked' \in BOOLEAN
BY Zenon DEF IsTasked

\* A report thread that has not run yet is there only while Start settles.
LEMMA NotStarting ==
  ASSUME PoolInv, call.at \in Stopped \union {"stop", "ask", "wait"}
  PROVE  ~IsStarting
<1>1. \A r \in Reporters : rep[r].at = "born" => r \in LiveReporters
  BY DEF LiveReporters
<1> QED  BY <1>1 DEF PoolInv, ReporterSound, IsStarting, Stopped

\* The same life.
LEMMA SameLife ==
  ASSUME UNCHANGED <<loaded, m_bIsRunning, m_pthreadnum>>,
         ~m_bIsRunning => (IsStarting' <=> IsStarting),
         m_bIsRunning => (Stopping' <=> Stopping)
  PROVE  [Life!Next]_(Life!lifeVars)
<1>1. LifeState' = LifeState
  BY DEF LifeState, Stopping
<1>2. IsTasked' = IsTasked
  BY DEF IsTasked
<1> QED  BY <1>1, <1>2 DEF Life!lifeVars

\* The Worker loads, configures, starts, stops and unloads.
LEMMA WorkerLives ==
  ASSUME PoolInv, PoolInv', Dependable, Receive \/ Serve \/ RefreshState \/ UNCHANGED vars
  PROVE  [Life!Next]_(Life!lifeVars)
<1> USE TaskedType
<1>1. CASE LoadModule
  <2>1. LifeState = "unloaded" /\ LifeState' = "stopped"
    <3>1. ~IsStarting'
      <4>1. call'.at \in {"idle", "start"} /\ rep' = rep
        BY <1>1, Calls DEF LoadModule
      <4>2. \A r \in Reporters : rep[r].at = "none"
        BY <1>1 DEF LoadModule, Quiet, LiveReporters
      <4> QED  BY <4>1, <4>2 DEF IsStarting
    <3> QED  BY <1>1, <3>1 DEF LoadModule, Constructed, LifeState
  <2>2. IsTasked' = FALSE
    BY <1>1 DEF LoadModule, Constructed, IsTasked
  <2> QED  BY <2>1, <2>2 DEF Life!Next, Life!Load, Life!Move
<1>2. CASE PassPolicies
  <2>1. /\ call.at = "setdata" /\ call'.at = "startmodule" /\ loaded' = loaded
        /\ m_bIsRunning' = m_bIsRunning
    BY <1>2, Calls DEF PassPolicies, SetData, CallTo, CallAt
  <2>2. loaded /\ ~m_bIsRunning
    BY <2>1 DEF PoolInv, RestSound
  <2>3. ~IsStarting
    BY <2>1, NotStarting DEF Stopped
  <2>4. ~IsStarting'
    BY <2>1, <2>3, <1>2 DEF PassPolicies, SetData, IsStarting
  <2>5. LifeState = "stopped" /\ LifeState' = "stopped"
    BY <2>1, <2>2, <2>3, <2>4 DEF LifeState
  <2> QED  BY <2>5 DEF Life!Next, Life!Configure, Life!Move
<1>3. CASE StartEnter /\ UNCHANGED <<bIsRunning, loaded>>
  <2>1. /\ call.at = "start" /\ loaded /\ loaded' = loaded /\ ~m_bIsRunning
        /\ UNCHANGED <<m_bIsRunning, m_pthreadnum>>
        /\ call' = [call EXCEPT !.at = IF m_pthreadnum = 0 THEN "report" ELSE "create", !.i = 0]
    BY <1>3 DEF StartEnter, PoolInv, RestSound, poolVars
  <2>2. IsStarting' /\ ~IsStarting
    <3>1. call'.at = IF m_pthreadnum = 0 THEN "report" ELSE "create"
      BY <2>1 DEF PoolInv, TypeOK
    <3> QED  BY <2>1, <3>1, NotStarting DEF IsStarting, Stopped
  <2>3. LifeState = "stopped" /\ LifeState' = "starting"
    BY <2>1, <2>2 DEF LifeState
  <2>4. IsTasked' = IsTasked
    BY <2>1 DEF IsTasked
  <2> QED  BY <2>3, <2>4 DEF Life!Next, Life!BeginStart, Life!Move
<1>4. CASE (StartCreate \/ StartCount \/ StartReport) /\ UNCHANGED <<bIsRunning, loaded>>
  <2>1. IsStarting
    BY <1>4 DEF StartCreate, StartCount, StartReport, IsStarting
  <2>2. IsStarting'
    <3>1. CASE StartCreate
      BY <3>1, Calls DEF StartCreate, CallTo, Dependable, CallAt, IsStarting
    <3>2. CASE StartCount
      BY <3>2 DEF StartCount, PoolInv, TypeOK, IsStarting
    <3>3. CASE StartReport
      <4>1. rep \in [Reporters -> ReporterState]
        BY DEF PoolInv, TypeOK, PoolTypeOK
      <4> QED  BY <3>3, <4>1 DEF StartReport, Dependable, IsStarting
    <3> QED  BY <1>4, <3>1, <3>2, <3>3
  <2>3. UNCHANGED <<loaded, m_bIsRunning, m_pthreadnum>> /\ ~m_bIsRunning
    BY <1>4 DEF StartCreate, StartCount, StartReport, PoolInv, StartSound
  <2>4. m_bIsRunning => ~Stopping /\ ~Stopping'
    BY <2>3
  <2> QED  BY <2>1, <2>2, <2>3, <2>4, SameLife
<1>5. CASE CallStop
  <2>1. /\ call.at = "stop" /\ call'.at = "ask" /\ m_bIsRunning /\ loaded
        /\ UNCHANGED <<loaded, m_bIsRunning, m_pthreadnum>>
    BY <1>5, Calls DEF CallStop, Stop, CallTo, CallAt, PoolInv, RestSound
  <2>2. LifeState = "running" /\ LifeState' = "stopping"
    BY <2>1 DEF LifeState
  <2>3. IsTasked' = IsTasked
    BY <2>1 DEF IsTasked
  <2> QED  BY <2>2, <2>3 DEF Life!Next, Life!BeginStop, Life!Move
<1>6. CASE StopReturns
  <2>1. /\ call.at = "stopped" /\ call'.at = "idle" /\ ~m_bIsRunning /\ loaded
        /\ UNCHANGED <<m_bIsRunning, m_pthreadnum, rep>>
    BY <1>6, Calls DEF StopReturns, Return, PoolInv, RestSound, poolVars
  <2>2. ~IsStarting /\ ~IsStarting'
    BY <2>1, NotStarting DEF Stopped, IsStarting
  <2>3. CASE loaded'
    BY <2>1, <2>2, <2>3, SameLife DEF PoolInv, TypeOK
  <2>4. CASE ~loaded'
    <3>1. LifeState = "stopped" /\ LifeState' = "unloaded"
      BY <2>1, <2>2, <2>4 DEF LifeState
    <3>2. IsTasked' = FALSE
      BY <2>4 DEF IsTasked
    <3> QED  BY <3>1, <3>2 DEF Life!Next, Life!Unload, Life!Move
  <2> QED  BY <2>3, <2>4
<1>7. CASE \/ \E n \in 0 .. MaxPolicies : SetModuleData(n)
           \/ \E cmd \in {"STOP_PLUGIN", "STOP_AGENT"} : StopScModule(cmd)
           \/ StartScModule \/ StartReturns
  <2>1. /\ UNCHANGED <<loaded, m_bIsRunning, m_pthreadnum, rep>> /\ call.at \in Stopped
    BY <1>7 DEF SetModuleData, StopScModule, StartScModule, StartReturns, poolVars, Stopped
  <2>2. call'.at \in Stopped \union {"stop"}
    <3>1. CASE \E n \in 0 .. MaxPolicies : SetModuleData(n)
      BY <3>1, Calls DEF SetModuleData, Return, Stopped
    <3>2. CASE \E cmd \in {"STOP_PLUGIN", "STOP_AGENT"} : StopScModule(cmd)
      BY <3>2 DEF StopScModule, Stopped
    <3>3. CASE StartScModule \/ StartReturns
      BY <3>3, Calls DEF StartScModule, StartReturns, Return, CallTo, CallAt, Stopped
    <3> QED  BY <1>7, <3>1, <3>2, <3>3
  <2>3. ~IsStarting
    BY <2>1, NotStarting
  <2>4. ~IsStarting'
    BY <2>1, <2>2, <2>3 DEF IsStarting, Stopped
  <2>5. ~Stopping /\ ~Stopping'
    BY <2>1, <2>2 DEF Stopping, Stopped
  <2> QED  BY <2>1, <2>3, <2>4, <2>5, SameLife
<1>8. CASE RefreshState \/ UNCHANGED vars
  <2>1. UNCHANGED <<loaded, m_bIsRunning, m_pthreadnum, rep, call>>
    BY <1>8 DEF RefreshState, vars, poolVars
  <2> QED  BY <2>1, SameLife DEF IsStarting, Stopping
<1>9. CASE StartSettle /\ UNCHANGED <<bIsRunning, loaded>>
  <2>1. /\ call.at = "settle" /\ call'.at = "started"
        /\ UNCHANGED <<loaded, m_bIsRunning, m_pthreadnum, rep>>
        /\ \A r \in LiveReporters : rep[r].at \in {"send", "top"}
    BY <1>9, Calls DEF StartSettle, CallTo, ReportersSettled, Dependable, CallAt, poolVars
  <2>2. ~IsStarting /\ ~IsStarting'
    BY <2>1 DEF IsStarting, LiveReporters
  <2>3. ~Stopping /\ ~Stopping'
    BY <2>1 DEF Stopping
  <2> QED  BY <2>1, <2>2, <2>3, SameLife
<1>10. CASE StopWait
  <2>1. /\ call.at = "wait" /\ call'.at = "stopped" /\ ~m_bIsRunning
        /\ UNCHANGED <<loaded, m_bIsRunning, m_pthreadnum, rep>>
    BY <1>10, Calls DEF StopWait, CallTo, CallAt, poolVars
  <2>2. ~IsStarting /\ ~IsStarting'
    BY <2>1, NotStarting DEF IsStarting
  <2> QED  BY <2>1, <2>2, SameLife
<1>11. ~StartFails
  BY DEF StartFails, PoolInv, RestSound
<1>12. CASE StopAsk
  <2>1. /\ call.at = "ask" /\ call'.at = IF m_bIsRunning THEN "wait" ELSE "stopped"
        /\ UNCHANGED <<loaded, m_bIsRunning, m_pthreadnum, rep>>
    BY <1>12, Calls DEF StopAsk, CallTo, CallAt, poolVars
  <2>2. ~IsStarting /\ ~IsStarting'
    BY <2>1, NotStarting DEF IsStarting
  <2>3. m_bIsRunning => Stopping /\ Stopping'
    BY <2>1 DEF Stopping
  <2> QED  BY <2>1, <2>2, <2>3, SameLife
<1> QED
  BY <1>1, <1>2, <1>3, <1>4, <1>5, <1>6, <1>7, <1>8, <1>9, <1>10, <1>11, <1>12
  DEF Receive, Serve, Start

\* The report thread brings the plugin up, and down: by itself only when there is nothing
\* to do.
LEMMA ThreadLives ==
  ASSUME PoolInv, PluginThreads
  PROVE  [Life!Next]_(Life!lifeVars)
<1> USE TaskedType
<1>1. CASE \E h \in Handlers : OnWeakpasswdHandle(h) /\ UNCHANGED <<bIsRunning, loaded>>
  <2>1. UNCHANGED <<loaded, m_bIsRunning, m_pthreadnum, rep, call>>
    BY <1>1, HandlerMoves DEF handlerFrame
  <2> QED  BY <2>1, SameLife DEF IsStarting, Stopping
<1>2. ASSUME NEW r \in Reporters, OnReportHandle(r), UNCHANGED <<bIsRunning, loaded>>
      PROVE  [Life!Next]_(Life!lifeVars)
  <2>1. /\ LiveReporters = {r} /\ rep \in [Reporters -> ReporterState]
        /\ \A q \in Reporters : q # r => rep'[q] = rep[q]
        /\ LiveReporters' \subseteq {r}
        /\ UNCHANGED <<m_pthreadnum, m_pthreadnum_alive, call, loaded>>
    BY <1>2, ReporterMoves DEF reporterFrame
  <2>2. IsTasked' = IsTasked
    BY <2>1 DEF IsTasked
  <2>3. /\ rep[r].at = "born" => call.at = "settle" /\ ~m_bIsRunning
        /\ rep[r].at \in {"top", "scan", "send", "check", "stop"} => m_bIsRunning
        /\ rep[r].at \in {"stop", "clear"} => LiveHandlers = {} /\ m_pthreadnum_alive = 0
        /\ call.at \notin {"create", "count", "report"}
        /\ m_bIsRunning => loaded
        /\ ~Stopping /\ rep[r].at # "clear" => Filled
    BY <2>1, Reporting DEF PoolInv, ReporterSound, RestSound
  <2>4. IsStarting <=> rep[r].at = "born"
    BY <2>1, <2>3 DEF IsStarting, LiveReporters
  <2>5. rep'[r].at # "born"
    <3>1. CASE ReporterTop(r) \/ ReporterSent(r) \/ ReporterStop(r) \/ ReporterClear(r)
      BY <2>1, <3>1 DEF ReporterTop, ReporterSent, ReporterStop, ReporterClear, NoReporter,
         ReporterState
    <3>2. CASE ReporterScan(r)
      <4>1. \/ rep' = [rep EXCEPT ![r] = [at |-> "check", i |-> 0]]
            \/ rep' = [rep EXCEPT ![r] = [at |-> "send", i |-> rep[r].i]]
            \/ rep' = [rep EXCEPT ![r] = [at |-> "scan", i |-> rep[r].i + 1]]
        BY <3>2 DEF ReporterScan
      <4> QED  BY <2>1, <4>1
    <3>3. CASE ReporterCheck(r)
      <4>1. rep'[r].at = IF m_pthreadnum_alive = 0 THEN "stop" ELSE "top"
        BY <2>1, <3>3 DEF ReporterCheck, ReporterState
      <4> QED  BY <4>1
    <3> QED  BY <1>2, <3>1, <3>2, <3>3 DEF OnReportHandle
  <2>6. ~IsStarting'
    BY <2>1, <2>3, <2>5 DEF IsStarting, LiveReporters
  <2>7. CASE ReporterTop(r) /\ rep[r].at = "born"
    <3>1. call.at = "settle" /\ ~m_bIsRunning /\ Filled
      BY <2>3, <2>7 DEF Stopping
    <3>2. m_bIsRunning' = (m_bIsRunning \/ m_pthreadnum = m_pthreadnum_alive)
      BY <2>7 DEF ReporterTop
    <3>3. m_bIsRunning'
      BY <3>1, <3>2 DEF Filled
    <3>4. loaded
      BY <3>1 DEF PoolInv, RestSound
    <3>5. LifeState = "starting" /\ LifeState' = "running"
      BY <2>1, <2>4, <2>7, <3>1, <3>3, <3>4 DEF LifeState
    <3> QED  BY <2>2, <3>5 DEF Life!Next, Life!Up, Life!Move
  <2>8. CASE ReporterStop(r)
    <3>1. rep[r].at = "stop" /\ m_bIsRunning /\ ~m_bIsRunning' /\ loaded
      BY <2>3, <2>8 DEF ReporterStop
    <3>2. LifeState' = "stopped"
      BY <2>1, <2>6, <3>1 DEF LifeState
    <3>3. LifeState = IF Stopping THEN "stopping" ELSE "running"
      BY <3>1 DEF LifeState, Stopping
    <3>4. ~Stopping => ~IsTasked
      BY <2>3, <3>1, PoolBound DEF Filled, IsTasked
    <3> QED  BY <2>2, <3>2, <3>3, <3>4 DEF Life!Next, Life!Down, Life!Move
  <2>9. CASE ~ReporterStop(r) /\ ~(ReporterTop(r) /\ rep[r].at = "born")
    <3>1. m_bIsRunning' = m_bIsRunning
      <4>1. CASE ReporterTop(r)
        <5>1. m_bIsRunning = TRUE /\ m_bIsRunning' = TRUE
          BY <2>3, <2>9, <4>1 DEF ReporterTop, PoolInv, TypeOK, PoolTypeOK
        <5> QED  BY <5>1
      <4>2. CASE ~ReporterTop(r)
        BY <1>2, <2>9, <4>2 DEF OnReportHandle, ReporterScan, ReporterSent, ReporterCheck,
           ReporterClear
      <4> QED  BY <4>1, <4>2
    <3>2. ~IsStarting
      BY <2>4, <2>9, <1>2 DEF OnReportHandle, ReporterScan, ReporterSent, ReporterCheck,
         ReporterClear
    <3>3. Stopping' <=> Stopping
      BY <2>1 DEF Stopping
    <3> QED  BY <2>1, <2>6, <3>1, <3>2, <3>3, SameLife
  <2> QED  BY <2>7, <2>8, <2>9
<1> QED  BY <1>1, <1>2 DEF PluginThreads

\* The plugin under its manager takes no step that PluginLife does not allow.
THEOREM LifeKept ==
  ASSUME Dependable
  PROVE  Spec => Life!Spec
<1>1. Init => Life!Init
  <2> SUFFICES ASSUME Init PROVE Life!Init
    OBVIOUS
  <2>1. LifeState = "unloaded"
    BY DEF Init, LifeState
  <2>2. IsTasked = FALSE
    BY DEF Init, IsTasked
  <2> QED  BY <2>1, <2>2 DEF Life!Init
<1>2. PoolInv /\ PoolInv' /\ [Next]_vars => [Life!Next]_(Life!lifeVars)
  BY WorkerLives, ThreadLives DEF Next
<1> QED  BY <1>1, <1>2, PoolSafe, PTL DEF Spec, Life!Spec
=============================================================================

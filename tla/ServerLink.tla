------------------------------- MODULE ServerLink -------------------------------
(***************************************************************************)
(* The agent's messages to the servers (Agent/BDScModuleApp.cpp).  The     *)
(* HeartBeatSend thread sends registrations and heartbeats to the MS over  *)
(* the REQ socket m_zmq_requester, and HeartBeatRecv takes the answers from*)
(* the same socket; the plugins' report threads send data through Sender.  *)
(* All of them encode a message and label it with the settings, which the  *)
(* Worker changes field by field for a MANAGE_AGENT request.               *)
(***************************************************************************)
EXTENDS Integers, Sequences

CONSTANTS
  Senders,       \* report threads, each with a message object of its own
  Beat,          \* the HeartBeatSend thread
  EncParams,     \* what the MS asks for: numbers for m_nEncryptType, enumerators or not
  ComParams,     \* and for m_nCompressType
  MaxChanges,    \* bound: MANAGE_AGENT requests
  MaxRestarts,   \* bound: restarts of the MS
  Lossy          \* a restart of the MS may lose a message

Ciphers == {"AES256ECB", "AES256CBC", "AES256CFB", "AES256CTR", "AES256OFB"}
Enptypes == Ciphers \union {"NO_ENPTYPE"}
Comtypes == {"NO_COMPRESS", "COMPRESS_ZLIB", "COMPRESS_GZIP"}

ASSUME LinkAssumption ==
  /\ Beat \notin Senders
  /\ {"NO_ENPTYPE", "AES256ECB"} \subseteq EncParams
  /\ {"NO_COMPRESS", "COMPRESS_ZLIB"} \subseteq ComParams
  /\ MaxChanges \in Nat /\ MaxRestarts \in Nat
  /\ Lossy \in BOOLEAN

VARIABLES
  settings,      \* m_isEncrypted, m_nEncryptType, m_isCompressed, m_nCompressType
  worker,        \* the Worker: the fields it has still to write
  talk,          \* the threads that send, and the message each is making
  alive,         \* no assertion has failed
  m_registered,
  recv,          \* the answer that HeartBeatRecv holds
  req,           \* m_zmq_requester: the call it waits for
  wire,          \* the request on its way to the MS
  reply,         \* the answer on its way back
  knows,         \* the MS has the agent's registration
  refused,       \* heartbeats the MS has refused since it lost the registration
  changes, restarts

agentVars == <<settings, worker, talk, alive, m_registered, recv, changes>>
netVars == <<req, wire, reply>>
msVars == <<knows, refused, restarts>>
vars == <<agentVars, netVars, msVars>>

MaxCount == 4    \* bound: refusals are counted up to this number

Talkers == Senders \union {Beat}
None == "none"

Fields == <<"m_isEncrypted", "m_nEncryptType", "m_isCompressed", "m_nCompressType">>
Settings == [m_isEncrypted : BOOLEAN, m_nEncryptType : EncParams,
             m_isCompressed : BOOLEAN, m_nCompressType : ComParams]

Services == {"REGISTER", "SESSION", "MONITOR_HOST"}
Answers == {"REGISTER", "SESSION", "other"}

\* How a content is encoded, and how a message says it is.  calm is history: no
\* field of settings has changed since the message was encoded.
Codes == [enc : Enptypes, com : Comtypes]
Labels == [enc : EncParams, com : ComParams]
Plain == [enc |-> "NO_ENPTYPE", com |-> "NO_COMPRESS"]
Idle == [at |-> "rest", service |-> None, content |-> Plain, label |-> Plain,
         calm |-> FALSE]

TypeOK ==
  /\ settings \in Settings
  /\ worker \in [i : 0 .. 4, new : Settings]
  /\ talk \in [Talkers -> [at : {"rest", "encode", "label", "send"},
                           service : Services \union {None},
                           content : Codes, label : Labels, calm : BOOLEAN]]
  /\ alive \in BOOLEAN
  /\ m_registered \in BOOLEAN
  /\ recv \in Answers \union {None}
  /\ req \in {"send", "recv"}
  /\ wire \in Services \union {None} /\ reply \in Answers \union {None}
  /\ knows \in BOOLEAN
  /\ refused \in 0 .. MaxCount
  /\ changes \in 0 .. MaxChanges /\ restarts \in 0 .. MaxRestarts

\* The settings for a pair of parameters: the flags are set for all but the
\* enumerator that says "none".
Asked(enc, com) ==
  [m_isEncrypted |-> enc # "NO_ENPTYPE", m_nEncryptType |-> enc,
   m_isCompressed |-> com # "NO_COMPRESS", m_nCompressType |-> com]
NoneAsked == Asked("NO_ENPTYPE", "NO_COMPRESS")

\* The configuration file asks for the first cipher and for zlib, or not.
Init ==
  /\ settings \in {Asked(enc, com) : enc \in {"NO_ENPTYPE", "AES256ECB"},
                                     com \in {"NO_COMPRESS", "COMPRESS_ZLIB"}}
  /\ worker = [i |-> 0, new |-> NoneAsked]
  /\ talk = [t \in Talkers |-> Idle]
  /\ alive = TRUE
  /\ m_registered = FALSE
  /\ recv = None
  /\ req = "send" /\ wire = None /\ reply = None
  /\ knows = FALSE /\ refused = 0
  /\ changes = 0 /\ restarts = 0

-----------------------------------------------------------------------------
(* The Worker: MANAGE_AGENT, project 3 *)

\* The parameters of a request with two fields; any other number of fields asks
\* for none.
ManageAgent ==
  /\ worker.i = 0
  /\ changes < MaxChanges
  /\ changes' = changes + 1
  /\ \E enc \in EncParams, com \in ComParams :
       worker' = [i |-> 1, new |-> Asked(enc, com)]
  /\ UNCHANGED <<settings, talk, alive, m_registered, recv, netVars, msVars>>

\* The four fields are written one after the other, without a lock.
WriteSetting ==
  /\ worker.i # 0
  /\ settings' = [settings EXCEPT ![Fields[worker.i]] = worker.new[Fields[worker.i]]]
  /\ worker' = [worker EXCEPT !.i = IF @ = 4 THEN 0 ELSE @ + 1]
  /\ talk' = [t \in Talkers |-> [talk[t] EXCEPT !.calm = FALSE]]
  /\ UNCHANGED <<alive, m_registered, recv, changes, netVars, msVars>>

Worker == ManageAgent \/ WriteSetting

-----------------------------------------------------------------------------
(* EnCodeData, and the labels *)

\* EncodePw leaves a content as it is for a type without a key; if it throws, the
\* content stays as it is as well, and all goes on.
Encrypted(s) ==
  IF s.m_isEncrypted /\ s.m_nEncryptType \in Ciphers
  THEN {s.m_nEncryptType, "NO_ENPTYPE"} ELSE {"NO_ENPTYPE"}
Compressed(s) ==
  IF s.m_nCompressType = "COMPRESS_ZLIB" THEN "COMPRESS_ZLIB" ELSE "COMPRESS_GZIP"

\* Slip: a content is compressed only if it is encrypted.
EnCodeDataTogether(s) ==
  {[enc |-> enc, com |-> IF s.m_isEncrypted /\ s.m_isCompressed THEN Compressed(s)
                         ELSE "NO_COMPRESS"] : enc \in Encrypted(s)}

\* How a content may come out.
EnCodeData(s) ==
  {[enc |-> enc, com |-> IF s.m_isCompressed THEN Compressed(s) ELSE "NO_COMPRESS"] :
     enc \in Encrypted(s)}

talkFrame == <<settings, worker, m_registered, recv, changes, msVars>>

\* A message whose content has been encoded.
WithContent(msg, content) ==
  [msg EXCEPT !.at = "label", !.content = content, !.calm = (worker.i = 0)]

Encode(t) ==
  /\ talk[t].at = "encode"
  /\ \E content \in EnCodeData(settings) :
       talk' = [talk EXCEPT ![t] = WithContent(talk[t], content)]
  /\ UNCHANGED <<talkFrame, alive, netVars>>

Valid(enc, com) == enc \in Enptypes /\ com \in Comtypes

\* set_enptype and set_comtype assert that the number is an enumerator.
Label(t) ==
  /\ talk[t].at = "label"
  /\ LET enc == settings.m_nEncryptType
         com == settings.m_nCompressType IN
       /\ alive' = Valid(enc, com)
       /\ talk' = [talk EXCEPT ![t].at = "send",
                               ![t].label = [enc |-> enc, com |-> com]]
  /\ UNCHANGED <<talkFrame, netVars>>

\* ReportData, Sender: the message goes to an analysis server, or is dropped if too
\* many wait for it.
Report(t) ==
  /\ talk[t].at = "rest"
  /\ talk' = [talk EXCEPT ![t].at = "encode"]
  /\ UNCHANGED <<talkFrame, alive, netVars>>

Sender(t) ==
  /\ talk[t].at = "send"
  /\ talk' = [talk EXCEPT ![t] = Idle]
  /\ UNCHANGED <<talkFrame, alive, netVars>>

-----------------------------------------------------------------------------
(* HeartBeatSend and HeartBeatRecv *)

\* Slip: registered or not, a heartbeat is sent.
BeatAlways ==
  /\ talk[Beat].at = "rest"
  /\ \E service \in {"SESSION", "MONITOR_HOST"} :
       talk' = [talk EXCEPT ![Beat].at = "encode", ![Beat].service = service]
  /\ UNCHANGED <<talkFrame, alive, netVars>>

\* A registration, a heartbeat or, when the monitor period is over, a report on the
\* host.
BeatBegins ==
  /\ talk[Beat].at = "rest"
  /\ \E service \in IF m_registered THEN {"SESSION", "MONITOR_HOST"} ELSE {"REGISTER"} :
       talk' = [talk EXCEPT ![Beat].at = "encode", ![Beat].service = service]
  /\ UNCHANGED <<talkFrame, alive, netVars>>

\* zmq_send fails on a REQ socket that waits for an answer, and the message is lost.
BeatSends ==
  /\ talk[Beat].at = "send"
  /\ IF req = "send"
     THEN wire' = talk[Beat].service /\ req' = "recv"
     ELSE UNCHANGED <<wire, req>>
  /\ talk' = [talk EXCEPT ![Beat] = Idle]
  /\ UNCHANGED <<talkFrame, alive, reply>>

HeartBeatSend == BeatBegins \/ Encode(Beat) \/ Label(Beat) \/ BeatSends

recvFrame == <<settings, worker, talk, alive, changes, msVars, wire>>

RecvAnswer ==
  /\ recv = None
  /\ req = "recv" /\ reply # None
  /\ recv' = reply
  /\ reply' = None
  /\ req' = "send"
  /\ UNCHANGED <<recvFrame, m_registered>>

\* Slip: a demand to register anew is taken for a confirmation.
RecvConfirms ==
  /\ recv # None
  /\ m_registered' = (recv # "other" \/ m_registered)
  /\ recv' = None
  /\ UNCHANGED <<recvFrame, req, reply>>

\* SESSION confirms a registration, REGISTER demands a new one.
RecvHandles ==
  /\ recv # None
  /\ m_registered' = CASE recv = "SESSION" -> TRUE
                       [] recv = "REGISTER" -> FALSE
                       [] OTHER -> m_registered
  /\ recv' = None
  /\ UNCHANGED <<recvFrame, req, reply>>

HeartBeatRecv == RecvAnswer \/ RecvHandles

-----------------------------------------------------------------------------
(* The MS, as far as the agent relies on it *)

MsAnswers ==
  /\ wire # None
  /\ wire' = None
  /\ IF wire = "REGISTER"
     THEN knows' = TRUE /\ refused' = 0 /\ reply' = "SESSION"
     ELSE IF knows
     THEN reply' \in {"SESSION", "other"} /\ UNCHANGED <<knows, refused>>
     ELSE /\ reply' = "REGISTER"
          /\ refused' = IF refused < MaxCount THEN refused + 1 ELSE refused
          /\ UNCHANGED knows
  /\ UNCHANGED <<agentVars, req, restarts>>

\* A restarted MS knows no agent; a message that it held may be lost.
MsRestarts ==
  /\ restarts < MaxRestarts
  /\ restarts' = restarts + 1
  /\ knows' = FALSE /\ refused' = 0
  /\ \/ UNCHANGED <<wire, reply>>
     \/ Lossy /\ wire' = None /\ reply' = None
  /\ UNCHANGED <<agentVars, req>>

-----------------------------------------------------------------------------
Next ==
  /\ alive
  /\ \/ Worker
     \/ \E t \in Senders : Report(t) \/ Encode(t) \/ Label(t) \/ Sender(t)
     \/ HeartBeatSend \/ HeartBeatRecv
     \/ MsAnswers \/ MsRestarts

Spec == Init /\ [][Next]_vars

\* The heartbeat threads are scheduled, and the MS answers.
FairSpec ==
  Spec /\ WF_vars(alive /\ HeartBeatSend) /\ WF_vars(alive /\ HeartBeatRecv)
       /\ WF_vars(alive /\ MsAnswers)

-----------------------------------------------------------------------------
(* Properties *)

\* An encrypted or compressed content is labelled with what it takes to read it,
\* unless the Worker has changed the settings while the message was made.  A content
\* that could not be encrypted is labelled as if it were.
Truthful(msg) ==
  /\ msg.content.enc \in {msg.label.enc, "NO_ENPTYPE"}
  /\ msg.content.com = msg.label.com
LabelsTrue ==
  alive =>
    \A t \in Talkers : talk[t].at = "send" /\ talk[t].calm => Truthful(talk[t])

\* An MS that has lost the registration refuses two heartbeats at most for each
\* answer on its way, three in all, before the agent registers again.
FewRefused == refused <= 3

\* No answer is under way to a socket that waits for one.
Stuck == req = "recv" /\ wire = None /\ reply = None

\* However often the MS loses the registration, the agent ends up registered, if no
\* message was lost and no number that is no enumerator made it fail an assertion.
EndsRegistered == <>[](~alive \/ Stuck \/ (m_registered /\ knows))

-----------------------------------------------------------------------------
(* Why messages are labelled as they are encoded: the inductive invariant *)

AskedFor == {Asked(enc, com) : enc \in EncParams, com \in ComParams}

\* The settings are those of one request, except while the Worker writes them: then
\* the fields it has written are the new ones.
Consistent ==
  /\ worker.new \in AskedFor
  /\ worker.i \in {0, 1} => settings \in AskedFor
  /\ \A j \in 1 .. worker.i - 1 : settings[Fields[j]] = worker.new[Fields[j]]

\* A content that was encoded and is not labelled yet is still what the settings ask
\* for, unless they have changed.
EncodedAsAsked ==
  \A t \in Talkers : talk[t].at = "label" /\ talk[t].calm =>
    settings \in AskedFor /\ talk[t].content \in EnCodeData(settings)

LinkInv == TypeOK /\ Consistent /\ EncodedAsAsked /\ LabelsTrue

(* Why few heartbeats are refused *)

Heartbeats == {"SESSION", "MONITOR_HOST"}
InTheLine ==
  (IF wire \in Heartbeats THEN 1 ELSE 0)
    + (IF talk[Beat].service \in Heartbeats THEN 1 ELSE 0)

\* The agent takes itself to be registered, or may do so for an old answer.
Believes == m_registered \/ recv \in {"SESSION", "other"}

\* The heartbeats that may still be refused.  An agent that believes is about to read
\* that it has to register: until it has, one is sent and the next begun.
Further ==
  IF ~Believes THEN InTheLine
  ELSE IF recv = "REGISTER" /\ reply = "REGISTER" THEN 1 ELSE 2

RefusalInv ==
  /\ req = "send" => wire = None /\ reply = None
  /\ wire = None \/ reply = None
  /\ refused >= 1 =>
       /\ ~knows /\ reply \in {None, "REGISTER"}
       /\ Believes => "REGISTER" \in {recv, reply}
       /\ refused + Further <= 3
=============================================================================

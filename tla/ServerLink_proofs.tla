--------------------------- MODULE ServerLink_proofs ---------------------------
(***************************************************************************)
(* Proofs about ServerLink, for any number of report threads, MANAGE_AGENT *)
(* requests and restarts of the MS, whatever numbers the MS asks for.      *)
(***************************************************************************)
EXTENDS ServerLink, TLAPS

\* Enumerators that one request asked for say how to read what is encoded with them,
\* whether EncodePw threw or not.
LEMMA AskedIsTrue ==
  ASSUME NEW s \in AskedFor, NEW content \in EnCodeData(s),
         Valid(s.m_nEncryptType, s.m_nCompressType)
  PROVE  /\ content.enc \in {s.m_nEncryptType, "NO_ENPTYPE"}
         /\ content.com = s.m_nCompressType
<1>1. PICK enc \in EncParams, com \in ComParams : s = Asked(enc, com)
  BY DEF AskedFor
<1>2. com \in {"NO_COMPRESS", "COMPRESS_ZLIB", "COMPRESS_GZIP"}
  BY <1>1 DEF Asked, Valid, Comtypes
<1>3. /\ s.m_nEncryptType = enc
      /\ s.m_isCompressed = (com # "NO_COMPRESS") /\ s.m_nCompressType = com
  BY <1>1 DEF Asked
<1>4. /\ Compressed(s) \in {"COMPRESS_ZLIB", "COMPRESS_GZIP"}
      /\ com \in {"COMPRESS_ZLIB", "COMPRESS_GZIP"} => Compressed(s) = com
  BY <1>3 DEF Compressed
<1>5. content.com = (IF s.m_isCompressed THEN Compressed(s) ELSE "NO_COMPRESS")
      /\ content.enc \in Encrypted(s)
  BY DEF EnCodeData
<1>6. content.com = com
  BY <1>2, <1>3, <1>4, <1>5
<1> QED  BY <1>3, <1>5, <1>6 DEF Encrypted

LEMMA AskedType == AskedFor \subseteq Settings
<1> SUFFICES ASSUME NEW enc \in EncParams, NEW com \in ComParams
             PROVE  Asked(enc, com) \in Settings
  BY DEF AskedFor
<1>1. (enc # "NO_ENPTYPE") \in BOOLEAN /\ (com # "NO_COMPRESS") \in BOOLEAN
  OBVIOUS
<1> QED  BY <1>1 DEF Asked, Settings

LEMMA CodeType ==
  ASSUME NEW s \in Settings, NEW content \in EnCodeData(s)
  PROVE  content \in Codes
<1>1. Encrypted(s) \subseteq Enptypes
  BY DEF Encrypted, Enptypes
<1>2. (IF s.m_isCompressed THEN Compressed(s) ELSE "NO_COMPRESS") \in Comtypes
  BY DEF Compressed, Comtypes
<1> QED  BY <1>1, <1>2 DEF EnCodeData, Codes

LEMMA PlainType == Plain \in Codes /\ Plain \in Labels
  BY LinkAssumption DEF Plain, Codes, Labels, Enptypes, Comtypes

\* A message that is being made, and the messages of all threads.
Message == [at : {"rest", "encode", "label", "send"}, service : Services \union {None},
            content : Codes, label : Labels, calm : BOOLEAN]

LEMMA IdleType == Idle \in Message
  BY PlainType DEF Idle, Message

\* The state at start-up.
LEMMA InitInv == Init => LinkInv
<1> SUFFICES ASSUME Init PROVE LinkInv
  OBVIOUS
<1>1. NoneAsked \in AskedFor /\ settings \in AskedFor
  <2>1. PICK enc \in {"NO_ENPTYPE", "AES256ECB"}, com \in {"NO_COMPRESS", "COMPRESS_ZLIB"} :
          settings = Asked(enc, com)
    BY DEF Init
  <2> QED  BY <2>1, LinkAssumption DEF NoneAsked, AskedFor
<1>2. TypeOK
  <2>1. settings \in Settings /\ worker \in [i : 0 .. 4, new : Settings]
    BY <1>1, AskedType DEF Init
  <2>2. talk \in [Talkers -> Message]
    BY IdleType DEF Init
  <2>3. /\ 0 \in 0 .. MaxChanges /\ 0 \in 0 .. MaxRestarts /\ 0 \in 0 .. MaxCount
    BY LinkAssumption DEF MaxCount
  <2> QED  BY <2>1, <2>2, <2>3 DEF Init, TypeOK, Message
<1>3. Consistent
  BY <1>1 DEF Init, Consistent
<1>4. EncodedAsAsked /\ LabelsTrue
  BY DEF Init, EncodedAsAsked, LabelsTrue, Idle
<1> QED  BY <1>2, <1>3, <1>4 DEF LinkInv

\* A new request changes no field of the settings yet.
LEMMA ManageAgentInv ==
  ASSUME LinkInv, ManageAgent
  PROVE  LinkInv'
<1>1. PICK enc \in EncParams, com \in ComParams :
        worker' = [i |-> 1, new |-> Asked(enc, com)]
  BY DEF ManageAgent
<1>2. Asked(enc, com) \in AskedFor /\ Asked(enc, com) \in Settings
  BY AskedType DEF AskedFor
<1>3. worker' \in [i : 0 .. 4, new : Settings]
  BY <1>1, <1>2
<1>4. changes' \in 0 .. MaxChanges
  BY LinkAssumption DEF ManageAgent, LinkInv, TypeOK
<1>5. TypeOK'
  BY <1>3, <1>4 DEF ManageAgent, netVars, msVars, LinkInv, TypeOK
<1>6. Consistent'
  BY <1>1, <1>2 DEF ManageAgent, LinkInv, Consistent
<1>7. EncodedAsAsked' /\ LabelsTrue'
  BY DEF ManageAgent, LinkInv, EncodedAsAsked, LabelsTrue
<1> QED  BY <1>5, <1>6, <1>7 DEF LinkInv

\* A field of the settings is written: no message is calm any more, and after the
\* last field the settings are those of the request.
LEMMA WriteSettingInv ==
  ASSUME LinkInv, WriteSetting
  PROVE  LinkInv'
<1>1. /\ worker \in [i : 0 .. 4, new : Settings] /\ worker.i # 0
      /\ settings \in Settings /\ worker.new \in AskedFor
  BY DEF WriteSetting, LinkInv, TypeOK, Consistent
<1>2. worker.i \in 1 .. 4 /\ worker.new \in Settings
  BY <1>1
<1> DEFINE field == Fields[worker.i]
<1>3. \A j \in 1 .. 4 : Fields[j] \in {"m_isEncrypted", "m_nEncryptType",
                                      "m_isCompressed", "m_nCompressType"}
  BY DEF Fields
<1>4. settings' = [settings EXCEPT ![field] = worker.new[field]]
  BY DEF WriteSetting
<1>5. settings' \in Settings
  BY <1>1, <1>2, <1>3, <1>4 DEF Settings
<1>6. \A j \in 1 .. worker.i : settings'[Fields[j]] = worker.new[Fields[j]]
  <2>1. \A j \in 1 .. worker.i - 1 : settings[Fields[j]] = worker.new[Fields[j]]
    BY DEF LinkInv, Consistent
  <2>2. settings'[field] = worker.new[field]
    BY <1>1, <1>2, <1>3, <1>4 DEF Settings
  <2>3. \A j \in 1 .. 4 : settings'[Fields[j]] \in {settings[Fields[j]], worker.new[field]}
    BY <1>1, <1>2, <1>3, <1>4 DEF Settings
  <2>4. \A j \in 1 .. worker.i - 1 : Fields[j] # field
    BY <1>2 DEF Fields
  <2>5. \A j \in 1 .. worker.i - 1 : settings'[Fields[j]] = settings[Fields[j]]
    BY <1>1, <1>2, <1>3, <1>4, <2>4 DEF Settings
  <2>6. \A j \in 1 .. worker.i : j \in 1 .. worker.i - 1 \/ j = worker.i
    BY <1>2
  <2> QED  BY <2>1, <2>2, <2>5, <2>6
<1>7. worker' = [worker EXCEPT !.i = IF worker.i = 4 THEN 0 ELSE worker.i + 1]
  BY DEF WriteSetting
<1>8. /\ worker'.new = worker.new
      /\ worker'.i = IF worker.i = 4 THEN 0 ELSE worker.i + 1
      /\ worker' \in [i : 0 .. 4, new : Settings]
  BY <1>1, <1>2, <1>7
<1>9. worker.i = 4 => settings' = worker.new
  <2> SUFFICES ASSUME worker.i = 4 PROVE settings' = worker.new
    OBVIOUS
  <2>1. /\ settings'.m_isEncrypted = worker.new.m_isEncrypted
        /\ settings'.m_nEncryptType = worker.new.m_nEncryptType
        /\ settings'.m_isCompressed = worker.new.m_isCompressed
        /\ settings'.m_nCompressType = worker.new.m_nCompressType
    BY <1>6 DEF Fields
  <2> QED  BY <1>2, <1>5, <2>1 DEF Settings
<1>10. talk' \in [Talkers -> Message] /\ \A t \in Talkers : ~talk'[t].calm
  <2>1. talk \in [Talkers -> Message]
    BY DEF LinkInv, TypeOK, Message
  <2>2. \A t \in Talkers : [talk[t] EXCEPT !.calm = FALSE] \in Message
    BY <2>1 DEF Message
  <2>3. \A t \in Talkers : ~[talk[t] EXCEPT !.calm = FALSE].calm
    BY <2>1 DEF Message
  <2> QED  BY <2>2, <2>3 DEF WriteSetting
<1>11. TypeOK'
  BY <1>5, <1>8, <1>10 DEF WriteSetting, netVars, msVars, LinkInv, TypeOK, Message
<1>12. Consistent'
  <2>1. worker'.i \in {0, 1} => worker.i = 4
    BY <1>2, <1>8
  <2>2. \A j \in 1 .. worker'.i - 1 : j \in 1 .. worker.i
    BY <1>2, <1>8
  <2> QED  BY <1>1, <1>6, <1>8, <1>9, <2>1, <2>2 DEF Consistent
<1>13. EncodedAsAsked' /\ LabelsTrue'
  BY <1>10 DEF EncodedAsAsked, LabelsTrue
<1> QED  BY <1>11, <1>12, <1>13 DEF LinkInv

\* What the other variables hold: no step but those above touches the settings.
OthersTyped ==
  /\ alive \in BOOLEAN /\ m_registered \in BOOLEAN
  /\ recv \in Answers \union {None}
  /\ req \in {"send", "recv"}
  /\ wire \in Services \union {None} /\ reply \in Answers \union {None}
  /\ knows \in BOOLEAN
  /\ refused \in 0 .. MaxCount
  /\ restarts \in 0 .. MaxRestarts

\* A thread makes one step on its message, and the settings stay: the invariant holds
\* if it holds for that message.
LEMMA TalkInv ==
  ASSUME LinkInv, NEW t \in Talkers, NEW msg \in Message,
         talk' = [talk EXCEPT ![t] = msg],
         UNCHANGED <<settings, worker, changes>>, OthersTyped',
         msg.at = "label" /\ msg.calm =>
           settings \in AskedFor /\ msg.content \in EnCodeData(settings),
         alive' => alive,
         alive' /\ msg.at = "send" /\ msg.calm => Truthful(msg)
  PROVE  LinkInv'
<1>1. talk \in [Talkers -> Message]
  BY DEF LinkInv, TypeOK, Message
<1>2. /\ talk' \in [Talkers -> Message] /\ talk'[t] = msg
      /\ \A u \in Talkers \ {t} : talk'[u] = talk[u]
  BY <1>1
<1>3. TypeOK'
  BY <1>2 DEF OthersTyped, LinkInv, TypeOK, Message
<1>4. Consistent'
  BY DEF LinkInv, Consistent
<1>5. EncodedAsAsked'
  BY <1>2 DEF LinkInv, EncodedAsAsked
<1>6. LabelsTrue'
  BY <1>2 DEF LinkInv, LabelsTrue
<1> QED  BY <1>3, <1>4, <1>5, <1>6 DEF LinkInv

\* A content is encoded; the message is calm if the settings are those of a request.
LEMMA EncodeInv ==
  ASSUME LinkInv, NEW t \in Talkers, Encode(t)
  PROVE  LinkInv'
<1>1. talk[t] \in Message /\ settings \in Settings
  BY DEF LinkInv, TypeOK, Message
<1>2. PICK content \in EnCodeData(settings) :
        talk' = [talk EXCEPT ![t] = WithContent(talk[t], content)]
  BY DEF Encode
<1> DEFINE msg == WithContent(talk[t], content)
<1>3. (worker.i = 0) \in BOOLEAN /\ content \in Codes
  BY <1>1, CodeType
<1>4. /\ msg \in Message /\ msg.at = "label" /\ msg.calm = (worker.i = 0)
      /\ msg.content = content
  BY <1>1, <1>3 DEF Message, WithContent
<1>5. talk' = [talk EXCEPT ![t] = msg]
  BY <1>2
<1>6. UNCHANGED <<settings, worker, changes, alive>> /\ OthersTyped'
  BY DEF Encode, talkFrame, netVars, msVars, LinkInv, TypeOK, OthersTyped
<1>7. worker.i = 0 => settings \in AskedFor
  BY DEF LinkInv, Consistent
<1> HIDE DEF msg
<1> QED  BY <1>4, <1>5, <1>6, <1>7, TalkInv

\* A message is labelled; if it is calm, and the agent lives on, the label says how to
\* read its content.
LEMMA LabelInv ==
  ASSUME LinkInv, NEW t \in Talkers, alive, Label(t)
  PROVE  LinkInv'
<1> DEFINE label == [enc |-> settings.m_nEncryptType, com |-> settings.m_nCompressType]
           msg == [talk[t] EXCEPT !.at = "send", !.label = label]
<1>1. talk[t] \in Message /\ settings \in Settings
  BY DEF LinkInv, TypeOK, Message
<1>2. label \in Labels
  BY <1>1 DEF Settings, Labels
<1>3. /\ msg \in Message /\ msg.at = "send" /\ msg.calm = talk[t].calm
      /\ msg.label = label /\ msg.content = talk[t].content
  BY <1>1, <1>2 DEF Message
<1>4. talk' = [talk EXCEPT ![t] = msg]
  BY DEF Label
<1>5. UNCHANGED <<settings, worker, changes>> /\ OthersTyped'
  BY DEF Label, Valid, talkFrame, netVars, msVars, LinkInv, TypeOK, OthersTyped
<1>6. alive' /\ talk[t].calm => Truthful(msg)
  <2> SUFFICES ASSUME alive', talk[t].calm PROVE Truthful(msg)
    OBVIOUS
  <2>1. settings \in AskedFor /\ talk[t].content \in EnCodeData(settings)
    BY DEF Label, LinkInv, EncodedAsAsked
  <2>2. Valid(settings.m_nEncryptType, settings.m_nCompressType)
    BY DEF Label
  <2> QED  BY <1>3, <2>1, <2>2, AskedIsTrue DEF Truthful
<1> HIDE DEF msg, label
<1> QED  BY <1>3, <1>4, <1>5, <1>6, TalkInv

\* A message is begun, or has gone.
LEMMA BeginOrSendInv ==
  ASSUME LinkInv,
         (\E t \in Senders : Report(t) \/ Sender(t)) \/ BeatBegins \/ BeatSends
  PROVE  LinkInv'
<1> USE DEF talkFrame, netVars, msVars
<1>1. talk \in [Talkers -> Message] /\ Beat \in Talkers /\ Senders \subseteq Talkers
  BY DEF LinkInv, TypeOK, Message, Talkers
<1>2. UNCHANGED <<settings, worker, changes, alive>>
  BY DEF Report, Sender, BeatBegins, BeatSends
<1>3. OthersTyped'
  <2>1. CASE (\E t \in Senders : Report(t) \/ Sender(t)) \/ BeatBegins
    BY <2>1 DEF Report, Sender, BeatBegins, LinkInv, TypeOK, OthersTyped
  <2>2. CASE BeatSends
    <3>1. talk[Beat].service \in Services \union {None}
      BY <1>1 DEF Message
    <3> QED  BY <2>2, <3>1 DEF BeatSends, LinkInv, TypeOK, OthersTyped
  <2> QED  BY <2>1, <2>2
<1>4. \E t \in Talkers, msg \in Message :
        talk' = [talk EXCEPT ![t] = msg] /\ msg.at \in {"rest", "encode"}
  <2>1. CASE \E t \in Senders : Sender(t)
    BY <1>1, <2>1, IdleType DEF Sender, Idle
  <2>2. CASE BeatSends
    BY <1>1, <2>2, IdleType DEF BeatSends, Idle
  <2>3. CASE \E t \in Senders : Report(t)
    <3>1. PICK t \in Senders : talk' = [talk EXCEPT ![t].at = "encode"]
      BY <2>3 DEF Report
    <3>2. talk[t] \in Message
      BY <1>1
    <3> DEFINE msg == [talk[t] EXCEPT !.at = "encode"]
    <3>3. msg \in Message /\ msg.at = "encode" /\ talk' = [talk EXCEPT ![t] = msg]
      BY <3>1, <3>2 DEF Message
    <3> QED  BY <1>1, <3>3
  <2>4. CASE BeatBegins
    <3>1. PICK service \in Services :
            talk' = [talk EXCEPT ![Beat].at = "encode", ![Beat].service = service]
      BY <2>4 DEF BeatBegins, Services
    <3>2. talk[Beat] \in Message
      BY <1>1
    <3> DEFINE msg == [talk[Beat] EXCEPT !.at = "encode", !.service = service]
    <3>3. msg \in Message /\ msg.at = "encode" /\ talk' = [talk EXCEPT ![Beat] = msg]
      BY <3>1, <3>2 DEF Message
    <3> QED  BY <1>1, <3>3
  <2> QED  BY <2>1, <2>2, <2>3, <2>4
<1>5. PICK t \in Talkers, msg \in Message :
        talk' = [talk EXCEPT ![t] = msg] /\ msg.at \in {"rest", "encode"}
  BY <1>4
<1> QED  BY <1>2, <1>3, <1>5, TalkInv

\* Neither the answers nor the MS touch the settings or a message.
LEMMA NetInv ==
  ASSUME LinkInv, HeartBeatRecv \/ MsAnswers \/ MsRestarts
  PROVE  LinkInv'
<1> USE LinkAssumption DEF recvFrame, agentVars, msVars
<1>1. UNCHANGED <<settings, worker, talk, changes, alive>>
  BY DEF HeartBeatRecv, RecvAnswer, RecvHandles, MsAnswers, MsRestarts
<1>2. OthersTyped'
  <2>1. /\ OthersTyped
        /\ refused \in 0 .. 4 /\ restarts \in 0 .. MaxRestarts
    BY DEF LinkInv, TypeOK, OthersTyped, MaxCount
  <2>2. CASE HeartBeatRecv
    BY <2>1, <2>2 DEF HeartBeatRecv, RecvAnswer, RecvHandles, OthersTyped
  <2>3. CASE MsAnswers
    <3>1. refused' \in 0 .. 4
      BY <2>1, <2>3 DEF MsAnswers, MaxCount
    <3>2. reply' \in Answers
      BY <2>3 DEF MsAnswers, Answers
    <3> QED  BY <2>1, <2>3, <3>1, <3>2 DEF MsAnswers, OthersTyped, MaxCount
  <2>4. CASE MsRestarts
    <3>1. restarts' \in 0 .. MaxRestarts /\ refused' \in 0 .. 4
      BY <2>1, <2>4 DEF MsRestarts
    <3>2. wire' \in {wire, None} /\ reply' \in {reply, None}
      BY <2>4 DEF MsRestarts
    <3> QED  BY <2>1, <2>4, <3>1, <3>2 DEF MsRestarts, OthersTyped, MaxCount
  <2> QED  BY <2>2, <2>3, <2>4
<1>3. TypeOK'
  BY <1>1, <1>2 DEF OthersTyped, LinkInv, TypeOK
<1>4. Consistent' /\ EncodedAsAsked' /\ LabelsTrue'
  BY <1>1 DEF LinkInv, Consistent, EncodedAsAsked, LabelsTrue
<1> QED  BY <1>3, <1>4 DEF LinkInv

LEMMA NextInv ==
  ASSUME LinkInv, [Next]_vars
  PROVE  LinkInv'
<1>1. CASE UNCHANGED vars
  BY <1>1 DEF vars, agentVars, netVars, msVars, LinkInv, TypeOK, Consistent,
     EncodedAsAsked, LabelsTrue
<1>2. CASE Worker
  BY <1>2, ManageAgentInv, WriteSettingInv DEF Worker
<1>3. CASE alive /\ \E t \in Talkers : Encode(t) \/ Label(t)
  BY <1>3, EncodeInv, LabelInv
<1>4. Beat \in Talkers /\ Senders \subseteq Talkers
  BY DEF Talkers
<1> QED
  BY <1>1, <1>2, <1>3, <1>4, BeginOrSendInv, NetInv DEF Next, HeartBeatSend

\* Whatever the Worker writes between the steps of a message, a message made while
\* the settings stay as one request asked for is labelled with the cipher and the
\* compression that it takes to read it.
THEOREM LinkSafe ==
  Spec => []LinkInv
<1>1. Init => LinkInv
  BY InitInv
<1>2. LinkInv /\ [Next]_vars => LinkInv'
  BY NextInv
<1> QED  BY <1>1, <1>2, PTL DEF Spec

-----------------------------------------------------------------------------
\* What the count of refusals depends on.
LEMMA CountTypes ==
  ASSUME TypeOK
  PROVE  /\ talk[Beat].service \in Services \union {None}
         /\ refused \in 0 .. 4 /\ m_registered \in BOOLEAN
         /\ recv \in Answers \union {None} /\ reply \in Answers \union {None}
         /\ wire \in Services \union {None} /\ req \in {"send", "recv"}
  BY DEF TypeOK, Talkers, MaxCount

LEMMA SumFalls ==
  ASSUME NEW a \in Int, NEW b \in Int, NEW c \in Int, c <= b, a + b <= 3
  PROVE  a + c <= 3
OBVIOUS

\* Steps that change nothing that the count depends on.
LEMMA CountStutter ==
  ASSUME RefusalInv,
         UNCHANGED <<m_registered, recv, req, wire, reply, knows, refused>>,
         talk'[Beat].service = talk[Beat].service
  PROVE  RefusalInv'
BY DEF RefusalInv, Further, InTheLine, Believes

LEMMA RefusalStep ==
  ASSUME TypeOK, TypeOK', RefusalInv, [Next]_vars
  PROVE  RefusalInv'
<1> USE DEF None
<1>0. /\ talk \in [Talkers -> Message] /\ Beat \in Talkers
      /\ \A t \in Senders : t # Beat
  BY LinkAssumption DEF TypeOK, Message, Talkers
<1>1. CASE UNCHANGED vars
  BY <1>1, CountStutter DEF vars, agentVars, netVars, msVars
<1>2. CASE Worker
  <2>1. UNCHANGED <<m_registered, recv, req, wire, reply, knows, refused>>
    BY <1>2 DEF Worker, ManageAgent, WriteSetting, netVars, msVars
  <2>2. talk'[Beat].service = talk[Beat].service
    <3>1. CASE ManageAgent
      BY <3>1 DEF ManageAgent
    <3>2. CASE WriteSetting
      <4>1. talk'[Beat] = [talk[Beat] EXCEPT !.calm = FALSE]
        BY <1>0, <3>2 DEF WriteSetting
      <4>2. talk[Beat] \in Message
        BY <1>0
      <4> QED  BY <4>1, <4>2 DEF Message
    <3> QED  BY <1>2, <3>1, <3>2 DEF Worker
  <2> QED  BY <2>1, <2>2, CountStutter
<1>3. CASE \E t \in Senders : Report(t) \/ Encode(t) \/ Label(t) \/ Sender(t)
  <2>1. UNCHANGED <<m_registered, recv, req, wire, reply, knows, refused>>
    BY <1>3 DEF Report, Encode, Label, Sender, talkFrame, netVars, msVars
  <2>2. talk'[Beat] = talk[Beat]
    BY <1>0, <1>3 DEF Report, Encode, Label, Sender
  <2> QED  BY <2>1, <2>2, CountStutter
<1>4. CASE Encode(Beat) \/ Label(Beat)
  <2>1. UNCHANGED <<m_registered, recv, req, wire, reply, knows, refused>>
    <3>1. CASE Encode(Beat)
      BY <3>1 DEF Encode, talkFrame, netVars, msVars
    <3>2. CASE Label(Beat)
      BY <3>2 DEF Label, talkFrame, netVars, msVars
    <3> QED  BY <1>4, <3>1, <3>2
  <2>2. talk[Beat] \in Message
    BY <1>0
  <2>3. talk'[Beat].service = talk[Beat].service
    <3>1. CASE Encode(Beat)
      BY <1>0, <2>2, <3>1 DEF Encode, WithContent, Message
    <3>2. CASE Label(Beat)
      BY <1>0, <2>2, <3>2 DEF Label, Message
    <3> QED  BY <1>4, <3>1, <3>2
  <2> QED  BY <2>1, <2>3, CountStutter
<1>5. CASE BeatBegins
  <2>1. UNCHANGED <<m_registered, recv, req, wire, reply, knows, refused>>
    BY <1>5 DEF BeatBegins, talkFrame, netVars, msVars
  <2>2. talk[Beat] \in Message
    BY <1>0
  <2>3. ~m_registered => talk'[Beat].service = "REGISTER"
    BY <1>0, <1>5, <2>2 DEF BeatBegins, Message
  <2>4. Believes' = Believes
    BY <2>1 DEF Believes
  <2>5. ~Believes => InTheLine' <= InTheLine
    BY <2>1, <2>3 DEF Believes, InTheLine, Heartbeats
  <2>6. Further' <= Further
    BY <2>1, <2>4, <2>5 DEF Further
  <2>7. Further \in Int /\ Further' \in Int /\ refused \in Int
    BY CountTypes DEF Further, InTheLine
  <2>8. refused >= 1 => refused + Further' <= 3
    BY <2>6, <2>7, SumFalls, Zenon DEF RefusalInv
  <2> QED  BY <2>1, <2>4, <2>8 DEF RefusalInv
<1>6. CASE BeatSends
  <2>1. UNCHANGED <<m_registered, recv, reply, knows, refused>>
    BY <1>6 DEF BeatSends, talkFrame, msVars
  <2>2. talk'[Beat].service = None
    BY <1>0, <1>6 DEF BeatSends, Idle
  <2>3. InTheLine' <= InTheLine
    BY <1>6, <2>2 DEF BeatSends, RefusalInv, InTheLine, Heartbeats
  <2>4. Further' <= Further
    BY <2>1, <2>3 DEF Further, Believes
  <2>5. Further \in Int /\ Further' \in Int /\ refused \in Int
    BY CountTypes DEF Further, InTheLine
  <2>6. req' = "send" => wire' = None /\ reply' = None
    BY <1>6 DEF BeatSends, RefusalInv
  <2>7. wire' = None \/ reply' = None
    BY <1>6 DEF BeatSends, RefusalInv
  <2>8. refused >= 1 => refused + Further' <= 3
    BY <2>4, <2>5, SumFalls, Zenon DEF RefusalInv
  <2> QED  BY <2>1, <2>6, <2>7, <2>8 DEF RefusalInv, Believes
<1>7. CASE RecvAnswer
  <2>1. /\ UNCHANGED <<m_registered, knows, refused, wire, talk>>
        /\ recv = None /\ recv' = reply /\ reply' = None /\ reply # None /\ wire = None
    BY <1>7 DEF RecvAnswer, recvFrame, msVars, RefusalInv
  <2>2. refused >= 1 => reply = "REGISTER"
    BY <2>1 DEF RefusalInv
  <2>3. refused >= 1 => (Believes' <=> Believes) /\ Further' = Further
    BY <2>1, <2>2 DEF Believes, Further, InTheLine
  <2> QED  BY <2>1, <2>2, <2>3 DEF RefusalInv
<1>8. CASE RecvHandles
  <2>1. UNCHANGED <<knows, refused, wire, talk, req, reply>> /\ recv # None /\ recv' = None
    BY <1>8 DEF RecvHandles, recvFrame, msVars
  <2>2. refused \in 0 .. 4 /\ InTheLine \in 0 .. 2 /\ InTheLine' = InTheLine
    BY <2>1, CountTypes DEF InTheLine
  <2>3. CASE recv = "REGISTER"
    <3>1. ~m_registered' /\ ~Believes'
      BY <1>8, <2>1, <2>3 DEF RecvHandles, Believes
    <3>2. reply = "REGISTER" => InTheLine <= 1
      BY DEF RefusalInv, InTheLine, Heartbeats
    <3>3. refused >= 1 => refused + InTheLine <= 3
      BY <2>2, <2>3, <3>2 DEF RefusalInv, Further
    <3> QED  BY <2>1, <2>2, <3>1, <3>3 DEF RefusalInv, Further
  <2>4. CASE recv \in {"SESSION", "other"}
    <3>1. refused >= 1 => reply = "REGISTER" /\ refused + 2 <= 3
      BY <2>4 DEF RefusalInv, Believes, Further
    <3>2. refused >= 1 => InTheLine <= 1
      BY <3>1 DEF RefusalInv, InTheLine, Heartbeats
    <3>3. Further' \in Int /\ 2 \in Int /\ (refused >= 1 => Further' <= 2)
      BY <2>1, <2>2, <3>2 DEF Further
    <3>4. refused \in Int
      BY <2>2
    <3>5. refused >= 1 => refused + Further' <= 3
      BY <3>1, <3>3, <3>4, SumFalls, Zenon
    <3> QED  BY <2>1, <3>1, <3>5 DEF RefusalInv
  <2> QED  BY <2>1, <2>3, <2>4, CountTypes DEF Answers
<1>9. CASE MsAnswers
  <2>1. /\ UNCHANGED <<m_registered, recv, talk, req>>
        /\ wire # None /\ wire' = None /\ reply = None /\ req = "recv"
    BY <1>9, CountTypes DEF MsAnswers, agentVars, RefusalInv
  <2>2. CASE wire = "REGISTER" \/ knows
    <3>1. refused' = 0
      BY <1>9, <2>2, CountTypes DEF MsAnswers, RefusalInv
    <3> QED  BY <2>1, <3>1 DEF RefusalInv
  <2>3. CASE wire # "REGISTER" /\ ~knows
    <3>1. /\ reply' = "REGISTER" /\ ~knows' /\ wire \in Heartbeats
          /\ refused' = IF refused < 4 THEN refused + 1 ELSE refused
      BY <1>9, <2>1, <2>3, CountTypes DEF MsAnswers, MaxCount, Heartbeats, Services
    <3>2. /\ refused \in 0 .. 4
          /\ InTheLine' \in 0 .. 1 /\ InTheLine' + 1 = InTheLine
      BY <2>1, <3>1, CountTypes DEF InTheLine, Heartbeats
    <3>3. Believes' = Believes
      BY <2>1 DEF Believes
    <3>4. CASE refused = 0
      <4>1. Further' <= 2 /\ Further' \in Int
        BY <3>2 DEF Further
      <4>2. refused' = 1 /\ 1 \in Int /\ 2 \in Int /\ 1 + 2 <= 3
        BY <3>1, <3>4
      <4>3. refused' + Further' <= 3
        BY <4>1, <4>2, SumFalls, Zenon
      <4> QED  BY <2>1, <3>1, <4>3 DEF RefusalInv
    <3>5. CASE refused >= 1
      <4>1. refused + Further <= 3 /\ (Believes => recv = "REGISTER")
        BY <2>1, <3>5 DEF RefusalInv
      <4>2. Further' <= Further - 1 /\ Further' \in Int
        BY <2>1, <3>1, <3>2, <3>3, <4>1 DEF Further
      <4>3. Further \in 0 .. 2
        BY <3>2 DEF Further, InTheLine
      <4>4. /\ refused' \in Int /\ Further - 1 \in Int
            /\ refused' + (Further - 1) <= 3
        BY <3>1, <3>2, <4>1, <4>3
      <4>5. refused' + Further' <= 3
        BY <4>2, <4>4, SumFalls, Zenon
      <4> QED  BY <2>1, <3>1, <4>5 DEF RefusalInv
    <3> QED  BY <3>2, <3>4, <3>5
  <2> QED  BY <2>2, <2>3
<1>10. CASE MsRestarts
  <2>1. refused' = 0 /\ req' = req /\ (wire' = wire \/ wire' = None)
        /\ (reply' = reply \/ reply' = None)
    BY <1>10 DEF MsRestarts, agentVars
  <2> QED  BY <2>1 DEF RefusalInv
<1> QED
  BY <1>1, <1>2, <1>3, <1>4, <1>5, <1>6, <1>7, <1>8, <1>9, <1>10
     DEF Next, HeartBeatSend, HeartBeatRecv

\* An MS that has lost the agent's registration refuses at most three heartbeats
\* before the agent registers again (HeartBeatSend, HeartBeatRecv).
THEOREM RefusalsBounded ==
  Spec => []FewRefused
<1>1. Init => RefusalInv
  BY DEF Init, RefusalInv, None
<1>2. LinkInv /\ LinkInv' /\ RefusalInv /\ [Next]_vars => RefusalInv'
  BY RefusalStep DEF LinkInv
<1>3. LinkInv /\ RefusalInv => FewRefused
  <2> SUFFICES ASSUME LinkInv, RefusalInv PROVE FewRefused
    OBVIOUS
  <2>1. refused \in 0 .. 4
    BY CountTypes DEF LinkInv
  <2>2. Further \in 0 .. 2
    BY DEF Further, InTheLine
  <2> QED  BY <2>1, <2>2 DEF RefusalInv, FewRefused
<1> QED  BY <1>1, <1>2, <1>3, LinkSafe, PTL DEF Spec
=============================================================================

--------------------------- MODULE VoiceSessionProofs ---------------------------
(***************************************************************************)
(* Proofs about VoiceSession, for any number of members, channels, threads *)
(* and events.                                                             *)
(*                                                                         *)
(* NeverAlone rests on Attended: whenever nobody is left in the channel of *)
(* the bot, something is under way that looks at the channel after that.   *)
(* The other two rest on Orderly, which says at which steps of a handler   *)
(* the connection, the bound channel and the queue may be out of step.     *)
(***************************************************************************)
EXTENDS VoiceSession, SequenceTheorems, TLAPS

Kinds == {"voice_state", "join", "leave", "clear", "message"}
Labels == Kinds \cup {"idle", "notify", "auto_leave", "disconnect", "remove", "auto_join",
                      "connect", "bind", "message_voice", "submit"}
Tasks == [kind : Kinds, user : Users \cup {Bot}, channel : Channels]
Conns == [channel : Channels, arrived : BOOLEAN, ready : BOOLEAN]

Types ==
    /\ voice \in [Users \cup {Bot} -> Channels]
    /\ conn \in Conns
    /\ queue \in Nat
    /\ tasks \in Seq(Tasks)
    /\ pc \in [Handlers -> Labels]
    /\ task \in [Handlers -> Tasks \cup {NoTask}]
    /\ \A h \in Handlers : pc[h] # "idle" => task[h] \in Tasks
    /\ saw \in [Handlers -> Channels]
    /\ state \in Channels
    /\ calm \in BOOLEAN

HasEvent(s) == \E i \in DOMAIN s : s[i].kind = "voice_state"

Looks == {"voice_state", "notify", "auto_leave", "leave", "disconnect"}

Attended ==
    "auto_leave" \in Flags /\ conn # NoConn /\ (\A u \in Users : voice[u] # conn.channel)
        => ~conn.arrived \/ HasEvent(tasks) \/ \E h \in Handlers : pc[h] \in Looks

OneAtATime == calm => \A g, h \in Handlers : pc[g] # "idle" /\ pc[h] # "idle" => g = h

Orderly ==
    calm =>
        /\ conn = NoConn => queue = 0
        /\ conn = NoConn /\ state # NoChannel => \E h \in Handlers : pc[h] = "remove"
        /\ \A h \in Handlers : pc[h] = "disconnect" => queue = 0
        /\ \A h \in Handlers : pc[h] \in {"bind", "submit"} => conn # NoConn

Destined == \A h \in Handlers : pc[h] = "connect" => task[h].channel # NoChannel

IInv == Types /\ Attended /\ OneAtATime /\ Orderly /\ Destined

-----------------------------------------------------------------------------
(* The events that wait.                                                   *)

LEMMA Appended ==
  ASSUME NEW s \in Seq(Tasks), NEW t \in Tasks
  PROVE  /\ Append(s, t) \in Seq(Tasks)
         /\ HasEvent(s) \/ t.kind = "voice_state" => HasEvent(Append(s, t))
  <1>1. /\ Append(s, t) \in Seq(Tasks)
        /\ Len(Append(s, t)) = Len(s) + 1
        /\ \A i \in 1 .. Len(s) : Append(s, t)[i] = s[i]
        /\ Append(s, t)[Len(s) + 1] = t
    OBVIOUS
  <1>2. DOMAIN s = 1 .. Len(s) /\ DOMAIN Append(s, t) = 1 .. Len(s) + 1 /\ Len(s) \in Nat
    BY <1>1
  <1> QED BY <1>1, <1>2 DEF HasEvent

LEMMA Removed ==
  ASSUME NEW s \in Seq(Tasks), NEW i \in DOMAIN s
  PROVE  /\ RemoveAt(s, i) \in Seq(Tasks)
         /\ HasEvent(s) /\ s[i].kind # "voice_state" => HasEvent(RemoveAt(s, i))
  <1> DEFINE a == SubSeq(s, 1, i - 1)
             b == SubSeq(s, i + 1, Len(s))
  <1>1. i \in 1 .. Len(s) /\ Len(s) \in Nat
    OBVIOUS
  <1>2. /\ a \in Seq(Tasks) /\ Len(a) = i - 1
        /\ \A j \in 1 .. i - 1 : a[j] = s[j]
    BY <1>1
  <1>3. /\ b \in Seq(Tasks) /\ Len(b) = Len(s) - i
        /\ \A j \in 1 .. Len(s) - i : b[j] = s[i + j]
    BY <1>1
  <1> HIDE DEF a, b
  <1>4. /\ a \o b \in Seq(Tasks) /\ Len(a \o b) = Len(a) + Len(b)
        /\ \A j \in 1 .. Len(a) + Len(b) :
             (a \o b)[j] = IF j <= Len(a) THEN a[j] ELSE b[j - Len(a)]
    BY <1>2, <1>3, ConcatProperties
  <1>5. RemoveAt(s, i) = a \o b
    BY DEF RemoveAt, a, b
  <1>6. ASSUME HasEvent(s), s[i].kind # "voice_state" PROVE HasEvent(a \o b)
    <2>1. PICK j \in 1 .. Len(s) : s[j].kind = "voice_state" /\ j # i
      BY <1>6 DEF HasEvent
    <2>2. DOMAIN (a \o b) = 1 .. Len(s) - 1
      <3>1. Len(a \o b) = Len(s) - 1
        BY <1>1, <1>2, <1>3, <1>4
      <3> QED BY <3>1, <1>4
    <2>3. CASE j < i
      <3>1. j \in 1 .. Len(a) /\ j \in 1 .. Len(s) - 1 /\ (a \o b)[j] = s[j]
        BY <1>1, <1>2, <1>4, <2>1, <2>3
      <3> QED BY <2>1, <2>2, <3>1 DEF HasEvent
    <2>4. CASE j > i
      <3>1. /\ j - i \in 1 .. Len(s) - i /\ j - 1 \in 1 .. Len(s) - 1
            /\ (j - 1) - Len(a) = j - i /\ ~(j - 1 <= Len(a)) /\ i + (j - i) = j
        BY <1>1, <1>2, <2>1, <2>4
      <3>2. (a \o b)[j - 1] = b[j - i]
        <4>1. j - 1 \in 1 .. Len(a) + Len(b)
          BY <1>1, <1>2, <1>3, <2>1, <2>4
        <4>2. (a \o b)[j - 1] = IF j - 1 <= Len(a) THEN a[j - 1] ELSE b[(j - 1) - Len(a)]
          BY <1>4, <4>1
        <4> QED BY <3>1, <4>2
      <3>3. b[j - i] = s[j]
        BY <1>3, <3>1
      <3> QED BY <2>1, <2>2, <3>1, <3>2, <3>3 DEF HasEvent
    <2> QED BY <1>1, <2>1, <2>3, <2>4
  <1> QED BY <1>4, <1>5, <1>6

-----------------------------------------------------------------------------

LEMMA InitIInv == Init => IInv
  <1> SUFFICES ASSUME Init PROVE IInv
    OBVIOUS
  <1>1. Types
    BY DEF Init, Types, Channels, Conns, NoConn, Labels, Kinds, NoTask
  <1>2. Attended /\ OneAtATime /\ Orderly /\ Destined
    BY DEF Init, Attended, OneAtATime, Orderly, Destined
  <1> QED BY <1>1, <1>2 DEF IInv

-----------------------------------------------------------------------------
(* Discord's steps.                                                        *)

LEMMA DiscordStep == IInv /\ Discord => IInv'
  <1> SUFFICES ASSUME IInv, Discord PROVE IInv'
    OBVIOUS
  <1> USE DEF IInv
  <1>1. ASSUME NEW u \in Users, NEW ch \in VoiceChannels \cup {NoChannel}, MemberMoves(u, ch)
        PROVE  IInv'
    <2> DEFINE t == Task("voice_state", u, ch)
    <2>1. t \in Tasks /\ t.kind = "voice_state"
      BY DEF Task, Tasks, Kinds, Channels
    <2>2. tasks' \in Seq(Tasks) /\ HasEvent(tasks')
      BY <1>1, <2>1, Appended DEF MemberMoves, Types
    <2>3. Types'
      BY <1>1, <2>2 DEF MemberMoves, Types, handler, Channels
    <2>4. Attended'
      BY <2>2 DEF Attended, HasEvent
    <2>5. (OneAtATime /\ Orderly /\ Destined)'
      BY <1>1 DEF MemberMoves, OneAtATime, Orderly, Destined, handler
    <2> QED BY <2>3, <2>4, <2>5
  <1>2. ASSUME NEW kind \in Commands, NEW u \in Users, NEW text \in TextChannels,
               MemberWrites(kind, u, text)
        PROVE  IInv'
    <2> DEFINE t == Task(kind, u, text)
    <2>1. t \in Tasks
      BY SessionAssumption DEF Task, Tasks, Kinds, Channels
    <2>2. tasks' \in Seq(Tasks) /\ (HasEvent(tasks) => HasEvent(tasks'))
      BY <1>2, <2>1, Appended DEF MemberWrites, Types
    <2>3. Types'
      BY <1>2, <2>2 DEF MemberWrites, Types, handler
    <2>4. Attended'
      BY <1>2, <2>2 DEF MemberWrites, Attended, handler, HasEvent
    <2>5. (OneAtATime /\ Orderly /\ Destined)'
      BY <1>2 DEF MemberWrites, OneAtATime, Orderly, Destined, handler
    <2> QED BY <2>3, <2>4, <2>5
  <1>3. CASE BotArrives
    <2> DEFINE t == Task("voice_state", Bot, conn.channel)
    <2>1. t \in Tasks /\ t.kind = "voice_state"
      BY DEF Task, Tasks, Kinds, Types, Conns
    <2>2. tasks' \in Seq(Tasks) /\ HasEvent(tasks')
      BY <1>3, <2>1, Appended DEF BotArrives, Types
    <2>3. Types'
      BY <1>3, <2>2 DEF BotArrives, Types, handler, Conns
    <2>4. Attended'
      BY <2>2 DEF Attended, HasEvent
    <2>5. conn # NoConn /\ conn' # NoConn
      BY <1>3 DEF BotArrives, NoConn, Types, Conns
    <2>6. (OneAtATime /\ Orderly /\ Destined)'
      BY <1>3, <2>5 DEF BotArrives, OneAtATime, Orderly, Destined, handler
    <2> QED BY <2>3, <2>4, <2>6
  <1>4. CASE VoiceReady
    <2>1. conn # NoConn /\ conn' # NoConn /\ conn'.channel = conn.channel /\ conn'.arrived = conn.arrived
      <3>1. conn.arrived /\ ~NoConn.arrived
        BY <1>4 DEF VoiceReady, NoConn
      <3>2. conn'.channel = conn.channel /\ conn'.arrived = conn.arrived
        BY <1>4 DEF VoiceReady, Types, Conns
      <3> QED BY <3>1, <3>2
    <2>2. Types'
      BY <1>4 DEF VoiceReady, Types, handler, Conns
    <2>3. (Attended /\ OneAtATime /\ Orderly /\ Destined)'
      BY <1>4, <2>1 DEF VoiceReady, Attended, OneAtATime, Orderly, Destined, handler, HasEvent
    <2> QED BY <2>2, <2>3
  <1>5. CASE ModeratorKicks
    <2>1. tasks' \in Seq(Tasks)
      <3>1. Task("voice_state", Bot, NoChannel) \in Tasks
        BY DEF Task, Tasks, Kinds, Channels
      <3> QED BY <1>5, <3>1, Appended DEF ModeratorKicks, Disconnected, Types
    <2>2. Types'
      BY <1>5, <2>1 DEF ModeratorKicks, Disconnected, Types, handler, Conns, NoConn, Channels
    <2>3. (Attended /\ OneAtATime /\ Orderly /\ Destined)'
      BY <1>5 DEF ModeratorKicks, Disconnected, Attended, OneAtATime, Orderly, Destined, handler
    <2> QED BY <2>2, <2>3
  <1>6. CASE WorkerTakes
    <2>1. Types'
      BY <1>6 DEF WorkerTakes, Types, handler
    <2>2. (Attended /\ OneAtATime /\ Orderly /\ Destined)'
      BY <1>6 DEF WorkerTakes, Types, Attended, OneAtATime, Orderly, Destined, handler, HasEvent
    <2> QED BY <2>1, <2>2
  <1> QED BY <1>1, <1>2, <1>3, <1>4, <1>5, <1>6 DEF Discord

-----------------------------------------------------------------------------
(* The handlers' steps.                                                    *)

LEMMA Stepped ==
  ASSUME Types, NEW h \in Handlers, NEW from \in Labels \ {"idle"}, NEW to \in Labels,
         Step(h, from, to)
  PROVE  /\ pc[h] = from
         /\ pc' = [pc EXCEPT ![h] = to]
         /\ pc' \in [Handlers -> Labels]
         /\ task[h] \in Tasks
         /\ task' \in [Handlers -> Tasks \cup {NoTask}]
         /\ \A g \in Handlers : pc'[g] # "idle" => task'[g] \in Tasks /\ task'[g] = task[g]
         /\ saw' \in [Handlers -> Channels]
         /\ calm' = calm
  <1> USE DEF Types, Step, Goto
  <1>1. CASE to = "idle"
    BY <1>1 DEF Return, Channels
  <1>2. CASE to # "idle"
    BY <1>2
  <1> QED BY <1>1, <1>2

(* A step of a handler that sets nothing but its own place and the queue,  *)
(* which it leaves empty when there is no connection.                      *)
LEMMA QuietStep ==
  ASSUME IInv, NEW h \in Handlers, NEW from \in Labels \ {"idle", "remove"}, NEW to \in Labels,
         Step(h, from, to),
         UNCHANGED <<voice, conn, state, tasks>>,
         queue' \in Nat,
         queue' = queue \/ queue' = 0 \/ (from # "disconnect" /\ (calm => conn # NoConn)),
         from \in Looks => to \in Looks \/ (\E u \in Users : voice[u] = conn.channel)
                                      \/ ~("auto_leave" \in Flags /\ conn # NoConn),
         to = "disconnect" => queue' = 0,
         to \in {"bind", "submit"} => conn # NoConn,
         to = "connect" => task[h].channel # NoChannel
  PROVE  IInv'
  <1> USE DEF IInv
  <1>0. /\ pc[h] = from /\ pc' = [pc EXCEPT ![h] = to] /\ pc' \in [Handlers -> Labels]
        /\ task' \in [Handlers -> Tasks \cup {NoTask}]
        /\ \A g \in Handlers : pc'[g] # "idle" => task'[g] \in Tasks /\ task'[g] = task[g]
        /\ saw' \in [Handlers -> Channels] /\ calm' = calm
    BY Stepped
  <1>1. Types'
    BY <1>0 DEF Types
  <1>2. Attended'
    BY <1>0 DEF Attended, Types, HasEvent
  <1>3. OneAtATime'
    BY <1>0 DEF OneAtATime, Types
  <1>4. Orderly'
    <2> SUFFICES ASSUME calm PROVE Orderly'
      BY <1>0 DEF Orderly
    <2>1. \A g \in Handlers : g # h => pc'[g] = "idle"
      BY <1>0 DEF OneAtATime, Types
    <2>2. \A g \in Handlers : pc[g] # "remove"
      BY <1>0 DEF OneAtATime, Types
    <2>3. pc'[h] = to
      BY <1>0 DEF Types
    <2> QED BY <1>0, <2>1, <2>2, <2>3 DEF Orderly
  <1>5. Destined'
    BY <1>0 DEF Destined, Types
  <1> QED BY <1>1, <1>2, <1>3, <1>4, <1>5

LEMMA StartStep == ASSUME IInv, NEW h \in Handlers, Start(h) PROVE IInv'
  <1> USE DEF IInv
  <1>1. PICK i \in DOMAIN tasks : /\ task' = [task EXCEPT ![h] = tasks[i]]
                                 /\ pc' = [pc EXCEPT ![h] = tasks[i].kind]
                                 /\ tasks' = RemoveAt(tasks, i)
    BY DEF Start, Goto
  <1>2. tasks[i] \in Tasks /\ tasks[i].kind \in Kinds
    <2>1. tasks[i] \in Tasks
      BY DEF Types
    <2> QED BY <2>1 DEF Tasks
  <1>3. /\ tasks' \in Seq(Tasks)
        /\ HasEvent(tasks) /\ tasks[i].kind # "voice_state" => HasEvent(tasks')
    BY <1>1, Removed DEF Types
  <1>4. pc[h] = "idle" /\ UNCHANGED <<voice, conn, state, queue, saw>>
    BY DEF Start
  <1>5. calm' = (calm /\ \A g \in Handlers : pc[g] = "idle")
    BY DEF Start
  <1>6. Types'
    BY <1>1, <1>2, <1>3, <1>4, <1>5 DEF Types, Labels
  <1>7. Attended'
    <2>1. pc'[h] = tasks[i].kind /\ \A g \in Handlers : pc[g] \in Looks => pc'[g] \in Looks
      BY <1>1, <1>4 DEF Types, Looks
    <2>2. HasEvent(tasks) => HasEvent(tasks') \/ \E g \in Handlers : pc'[g] \in Looks
      BY <1>3, <2>1 DEF Looks
    <2> QED BY <1>4, <2>1, <2>2 DEF Attended
  <1>8. OneAtATime'
    BY <1>1, <1>4, <1>5 DEF OneAtATime, Types
  <1>9. Orderly'
    <2> SUFFICES ASSUME calm' PROVE Orderly'
      BY DEF Orderly
    <2>1. \A g \in Handlers : pc'[g] \in Kinds \cup {"idle"}
      BY <1>1, <1>2, <1>5 DEF Types
    <2>2. \A g \in Handlers : pc'[g] \notin {"disconnect", "remove", "bind", "submit"}
      BY <2>1 DEF Kinds
    <2> QED BY <1>4, <1>5, <2>2 DEF Orderly
  <1>10. Destined'
    BY <1>1, <1>2 DEF Destined, Types, Kinds
  <1> QED BY <1>6, <1>7, <1>8, <1>9, <1>10

LEMMA ReadStep == ASSUME IInv, NEW h \in Handlers, ReadState(h) PROVE IInv'
  <1> USE DEF IInv, ReadState, Goto
  <1>1. Types'
    BY DEF Types, Labels
  <1>2. (Attended /\ OneAtATime /\ Orderly /\ Destined)'
    BY DEF Types, Attended, OneAtATime, Orderly, Destined, Looks, HasEvent
  <1> QED BY <1>1, <1>2

LEMMA DisconnectStep == ASSUME IInv, NEW h \in Handlers, Disconnect(h) PROVE IInv'
  <1> USE DEF IInv
  <1>1. Step(h, "disconnect", "remove") /\ Disconnected /\ UNCHANGED <<state, queue>>
    BY DEF Disconnect
  <1>2. /\ pc[h] = "disconnect" /\ pc' = [pc EXCEPT ![h] = "remove"] /\ pc' \in [Handlers -> Labels]
        /\ task' \in [Handlers -> Tasks \cup {NoTask}]
        /\ \A g \in Handlers : pc'[g] # "idle" => task'[g] \in Tasks /\ task'[g] = task[g]
        /\ saw' \in [Handlers -> Channels] /\ calm' = calm
    BY <1>1, Stepped DEF Labels
  <1>3. tasks' \in Seq(Tasks)
    <2>1. Task("voice_state", Bot, NoChannel) \in Tasks
      BY DEF Task, Tasks, Kinds, Channels
    <2> QED BY <1>1, <2>1, Appended DEF Disconnected, Types
  <1>4. conn' = NoConn
    BY <1>1 DEF Disconnected
  <1>5. Types'
    BY <1>1, <1>2, <1>3 DEF Types, Disconnected, Conns, NoConn, Channels
  <1>6. Attended'
    BY <1>4 DEF Attended
  <1>7. OneAtATime' /\ Destined'
    BY <1>2 DEF OneAtATime, Destined, Types
  <1>8. Orderly'
    <2> SUFFICES ASSUME calm PROVE Orderly'
      BY <1>2 DEF Orderly
    <2>1. \A g \in Handlers : g # h => pc'[g] = "idle"
      BY <1>2 DEF OneAtATime, Types
    <2>2. pc'[h] = "remove"
      BY <1>2 DEF Types
    <2> QED BY <1>1, <1>2, <2>1, <2>2 DEF Orderly
  <1> QED BY <1>5, <1>6, <1>7, <1>8

LEMMA ForgetStep == ASSUME IInv, NEW h \in Handlers, Forget(h) PROVE IInv'
  <1> USE DEF IInv
  <1>1. /\ \E to \in {"idle", "auto_join"} : Step(h, "remove", to)
        /\ state' = NoChannel
        /\ UNCHANGED <<voice, conn, queue, tasks>>
    BY DEF Forget
  <1>2. PICK to \in {"idle", "auto_join"} : Step(h, "remove", to)
    BY <1>1
  <1>3. /\ pc[h] = "remove" /\ pc' = [pc EXCEPT ![h] = to] /\ pc' \in [Handlers -> Labels]
        /\ task' \in [Handlers -> Tasks \cup {NoTask}]
        /\ \A g \in Handlers : pc'[g] # "idle" => task'[g] \in Tasks /\ task'[g] = task[g]
        /\ saw' \in [Handlers -> Channels] /\ calm' = calm
    BY <1>2, Stepped DEF Labels
  <1>4. Types'
    BY <1>1, <1>3 DEF Types, Channels
  <1>5. Attended' /\ OneAtATime' /\ Destined'
    BY <1>1, <1>3 DEF Attended, OneAtATime, Destined, Types, Looks, HasEvent
  <1>6. Orderly'
    BY <1>1, <1>3 DEF Orderly, Types
  <1> QED BY <1>4, <1>5, <1>6

(* The steps that may make a connection: the new one has not arrived.      *)
LEMMA ConnectingStep ==
  ASSUME IInv, NEW h \in Handlers, NEW from \in {"connect", "join"}, NEW to \in {"idle", "bind"},
         Step(h, from, to),
         UNCHANGED <<voice, state, queue, tasks>>,
         conn' \in Conns,
         conn' = conn \/ (conn' # NoConn /\ ~conn'.arrived),
         to = "bind" => conn' # NoConn
  PROVE  IInv'
  <1> USE DEF IInv
  <1>1. /\ pc[h] = from /\ pc' = [pc EXCEPT ![h] = to] /\ pc' \in [Handlers -> Labels]
        /\ task' \in [Handlers -> Tasks \cup {NoTask}]
        /\ \A g \in Handlers : pc'[g] # "idle" => task'[g] \in Tasks /\ task'[g] = task[g]
        /\ saw' \in [Handlers -> Channels] /\ calm' = calm
    BY Stepped DEF Labels, Kinds
  <1>2. Types'
    BY <1>1 DEF Types
  <1>3. Attended'
    BY <1>1 DEF Attended, Types, Looks, HasEvent
  <1>4. OneAtATime' /\ Destined'
    BY <1>1 DEF OneAtATime, Destined, Types
  <1>5. Orderly'
    <2> SUFFICES ASSUME calm PROVE Orderly'
      BY <1>1 DEF Orderly
    <2>1. \A g \in Handlers : g # h => pc'[g] = "idle" /\ pc[g] = "idle"
      BY <1>1 DEF OneAtATime, Types
    <2>2. pc'[h] = to /\ pc[h] # "remove"
      BY <1>1 DEF Types
    <2> QED BY <1>1, <2>1, <2>2 DEF Orderly
  <1> QED BY <1>2, <1>3, <1>4, <1>5

LEMMA ConnectStep == ASSUME IInv, NEW h \in Handlers, Connect(h) PROVE IInv'
  <1> DEFINE to == IF SystemChannel = NoChannel THEN "idle" ELSE "bind"
  <1>1. to \in {"idle", "bind"} /\ to \in Labels
    BY DEF Labels
  <1>2. Step(h, "connect", to) /\ UNCHANGED <<voice, state, queue, tasks>>
    BY DEF Connect
  <1>3. task[h].channel # NoChannel /\ task[h].channel \in Channels
    BY <1>2 DEF IInv, Destined, Step, Types, Tasks
  <1>4. conn' \in Conns /\ conn' # NoConn /\ (conn' = conn \/ ~conn'.arrived)
    BY <1>3 DEF Connect, ConnectVoice, Conns, NoConn, IInv, Types
  <1> HIDE DEF to
  <1> QED BY <1>1, <1>2, <1>4, ConnectingStep

LEMMA JoinStep == ASSUME IInv, NEW h \in Handlers, Join(h) PROVE IInv'
  <1>1. UNCHANGED <<voice, state, queue, tasks>>
    BY DEF Join
  <1>2. CASE voice[task[h].user] = NoChannel
    <2>1. Step(h, "join", "idle") /\ conn' = conn
      BY <1>2 DEF Join
    <2>2. "idle" \in Labels /\ conn \in Conns
      BY DEF Labels, IInv, Types
    <2> QED BY <1>1, <2>1, <2>2, ConnectingStep
  <1>3. CASE voice[task[h].user] # NoChannel
    <2>1. Step(h, "join", "bind") /\ ConnectMemberVoice(task[h].user)
      BY <1>3 DEF Join
    <2>2. voice[task[h].user] \in Channels
      BY <2>1 DEF Step, IInv, Types, Tasks
    <2>3. conn' \in Conns /\ conn' # NoConn /\ (conn' = conn \/ ~conn'.arrived)
      BY <1>3, <2>1, <2>2 DEF ConnectMemberVoice, Conns, NoConn, IInv, Types
    <2>4. "bind" \in Labels
      BY DEF Labels
    <2> QED BY <1>1, <2>1, <2>3, <2>4, ConnectingStep
  <1> QED BY <1>2, <1>3

LEMMA BindStep == ASSUME IInv, NEW h \in Handlers, Bind(h) PROVE IInv'
  <1> USE DEF IInv
  <1>1. Step(h, "bind", "idle") /\ UNCHANGED <<voice, conn, queue, tasks>>
    BY DEF Bind
  <1>2. /\ pc[h] = "bind" /\ pc' = [pc EXCEPT ![h] = "idle"] /\ pc' \in [Handlers -> Labels]
        /\ task[h] \in Tasks
        /\ task' \in [Handlers -> Tasks \cup {NoTask}]
        /\ \A g \in Handlers : pc'[g] # "idle" => task'[g] \in Tasks /\ task'[g] = task[g]
        /\ saw' \in [Handlers -> Channels] /\ calm' = calm
    BY <1>1, Stepped DEF Labels
  <1>3. state' \in Channels
    BY <1>2, SessionAssumption DEF Bind, Tasks, Channels
  <1>4. Types'
    BY <1>1, <1>2, <1>3 DEF Types
  <1>5. Attended' /\ OneAtATime' /\ Destined'
    BY <1>1, <1>2 DEF Attended, OneAtATime, Destined, Types, Looks, HasEvent
  <1>6. Orderly'
    BY <1>1, <1>2 DEF Orderly, Types
  <1> QED BY <1>4, <1>5, <1>6

LEMMA HandlerStep == ASSUME IInv, NEW h \in Handlers, Handler(h) PROVE IInv'
  <1> USE DEF IInv
  <1>0. /\ queue \in Nat /\ queue + 1 \in Nat /\ 0 \in Nat
        /\ conn.ready => conn # NoConn
    BY DEF Types, NoConn
  <1>1. CASE Start(h) \/ ReadState(h) \/ Disconnect(h) \/ Forget(h)
    BY <1>1, StartStep, ReadStep, DisconnectStep, ForgetStep
  <1>2. CASE Connect(h) \/ Join(h) \/ Bind(h)
    BY <1>2, ConnectStep, JoinStep, BindStep
  <1>3. CASE Notify(h)
    <2>1. queue' = queue \/ (queue' = queue + 1 /\ conn # NoConn)
      BY <1>0, <1>3 DEF Notify, Announced
    <2> QED BY <1>0, <1>3, <2>1, QuietStep DEF Notify, Labels, Kinds, Looks
  <1>4. CASE AutoLeave(h)
    <2>1. CASE "auto_leave" \in Flags /\ conn # NoConn /\ ~HasHumans(h)
      BY <1>0, <1>4, <2>1, QuietStep DEF AutoLeave, Labels, Kinds, Looks
    <2>2. CASE ~("auto_leave" \in Flags /\ conn # NoConn /\ ~HasHumans(h))
      <3>1. (\E u \in Users : voice[u] = conn.channel) \/ ~("auto_leave" \in Flags /\ conn # NoConn)
        BY <2>2 DEF HasHumans
      <3>2. /\ Step(h, "auto_leave", "auto_join")
            /\ UNCHANGED <<voice, conn, state, tasks>> /\ queue' = queue
        BY <1>4, <2>2 DEF AutoLeave
      <3> QED BY <1>0, <3>1, <3>2, QuietStep DEF Labels, Kinds, Looks
    <2> QED BY <2>1, <2>2
  <1>5. CASE LeaveClear(h)
    BY <1>0, <1>5, QuietStep DEF LeaveClear, Labels, Kinds, Looks
  <1>6. CASE AutoJoin(h)
    <2>1. PICK to \in {"connect", "idle"} :
             /\ Step(h, "auto_join", to)
             /\ to = "connect" => task[h].channel # NoChannel
             /\ UNCHANGED <<voice, conn, state, queue, tasks>>
      BY <1>6 DEF AutoJoin
    <2> QED BY <1>0, <2>1, QuietStep DEF Labels, Kinds, Looks
  <1>7. CASE Clear(h)
    BY <1>0, <1>7, QuietStep DEF Clear, Labels, Kinds, Looks
  <1>8. CASE Message(h)
    <2>1. PICK to \in {"message_voice", "idle"} :
             /\ Step(h, "message", to)
             /\ UNCHANGED <<voice, conn, state, queue, tasks>>
      BY <1>8 DEF Message
    <2> QED BY <1>0, <2>1, QuietStep DEF Labels, Kinds, Looks
  <1>9. CASE MessageVoice(h)
    <2>1. PICK to \in {"submit", "idle"} :
             /\ Step(h, "message_voice", to)
             /\ to = "submit" => conn # NoConn
             /\ UNCHANGED <<voice, conn, state, queue, tasks>>
      BY <1>0, <1>9 DEF MessageVoice
    <2> QED BY <1>0, <2>1, QuietStep DEF Labels, Kinds, Looks
  <1>10. CASE Submit(h)
    <2>1. calm => conn # NoConn
      BY <1>10 DEF Submit, Step, Orderly
    <2>2. Step(h, "submit", "idle") /\ queue' \in {queue, queue + 1}
          /\ UNCHANGED <<voice, conn, state, tasks>>
      BY <1>10 DEF Submit
    <2> QED BY <1>0, <2>1, <2>2, QuietStep DEF Labels, Kinds, Looks
  <1> QED
    BY <1>1, <1>2, <1>3, <1>4, <1>5, <1>6, <1>7, <1>8, <1>9, <1>10 DEF Handler

LEMMA Stuttering == IInv /\ UNCHANGED vars => IInv'
  BY DEF IInv, vars, handler, Types, Attended, OneAtATime, Orderly, Destined, HasEvent

THEOREM Invariance == Spec => []IInv
  <1>1. IInv /\ [Next]_vars => IInv'
    BY DiscordStep, HandlerStep, Stuttering DEF Next
  <1> QED BY InitIInv, <1>1, PTL DEF Spec

(* The session's variables keep their ranges.                              *)
THEOREM TypeCorrect == Spec => []TypeOK
  <1>1. IInv => TypeOK
    BY DEF IInv, Types, Conns, TypeOK
  <1> QED BY <1>1, Invariance, PTL

(* With auto_leave, once all that happened is handled the bot is not alone *)
(* in its channel, whoever came, went or kicked it and in whatever order   *)
(* any number of handlers dealt with that.                                 *)
THEOREM NeverAloneAlways == Spec => []NeverAlone
  <1>1. IInv => NeverAlone
    BY DEF IInv, Attended, NeverAlone, Quiet, Looks, HasEvent
  <1> QED BY <1>1, Invariance, PTL

(* While handlers run one at a time the bound channel and the connection   *)
(* go together.                                                            *)
THEOREM BoundIsConnectedAlways == Spec => []BoundIsConnected
  <1>1. IInv => BoundIsConnected
    BY DEF IInv, Orderly, BoundIsConnected, Quiet
  <1> QED BY <1>1, Invariance, PTL

(* While handlers run one at a time no request outlives the connection it  *)
(* was made under.                                                         *)
THEOREM NothingQueuedWhenGoneAlways == Spec => []NothingQueuedWhenGone
  <1>1. IInv => NothingQueuedWhenGone
    BY DEF IInv, Orderly, NothingQueuedWhenGone
  <1> QED BY <1>1, Invariance, PTL

=============================================================================

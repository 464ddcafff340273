------------------------------ MODULE VoiceSession ------------------------------
(***************************************************************************)
(* The voice connection of one guild and what drives it: the handlers of   *)
(* /join, /leave and /clear (src/src/bot/commands/join.cpp, src/src/main.cpp),*)
(* of voice state updates (main.cpp) and of messages                       *)
(* (src/src/bot/handler.cpp), and the text channel bound to the connection *)
(* (src/src/guild/state.cpp).                                              *)
(*                                                                         *)
(* DPP receives from Discord on one thread, which keeps the cache of who   *)
(* is in which voice channel, and gives every event to a pool of threads,  *)
(* so handlers run late, together and in any order.  Each call a handler   *)
(* makes on shared state is one step here.  All of that state is keyed by  *)
(* the guild, so one guild stands for all.                                 *)
(***************************************************************************)
EXTENDS Integers, Sequences, SequencesExt

CONSTANTS
    Users,          (* the members of the guild, the bot apart             *)
    Bot,            (* the bot, which is a member too                      *)
    VoiceChannels,
    TextChannels,
    NoChannel,      (* the empty channel id                                *)
    SystemChannel,  (* where auto-join binds: a text channel or NoChannel  *)
    Flags,          (* the flags of /set toggle that are on                *)
    Commands,       (* which of "join", "leave", "clear", "message" are used *)
    Kicks,          (* whether a moderator may disconnect the bot          *)
    Handlers,       (* the threads of DPP's pool                           *)
    MaxHappenings   (* bound: how much happens on Discord                  *)

ASSUME SessionAssumption ==
    /\ Bot \notin Users
    /\ NoChannel \notin VoiceChannels \cup TextChannels
    /\ SystemChannel \in TextChannels \cup {NoChannel}
    /\ Commands \subseteq {"join", "leave", "clear", "message"}
    /\ Kicks \in BOOLEAN
    /\ MaxHappenings \in Nat

VARIABLES
    voice,        (* DPP's cache: the voice channel of each member         *)
    conn,         (* what get_voice returns, or NoConn                     *)
    state,        (* guild_states: the bound text channel, or NoChannel    *)
    queue,        (* how many requests the guild has queued in the pool    *)
    tasks,        (* events received and not handled yet                   *)
    happenings,   (* how much happened                                     *)
    pc, task, saw,(* each handler: next step, event, guild state as read   *)
    calm          (* history: handlers have run one at a time so far, and  *)
                  (* nobody has disconnected the bot behind their back     *)

handler == <<pc, task, saw>>
vars == <<voice, conn, state, queue, tasks, happenings, handler, calm>>

NoConn == [channel |-> NoChannel, arrived |-> FALSE, ready |-> FALSE]
NoTask == [kind |-> "none", user |-> Bot, channel |-> NoChannel]
Task(kind, user, channel) == [kind |-> kind, user |-> user, channel |-> channel]

\* The bot comes to a guild whose members may already be in voice channels.
Init ==
    /\ voice \in [Users \cup {Bot} -> VoiceChannels \cup {NoChannel}]
    /\ voice[Bot] = NoChannel
    /\ conn = NoConn
    /\ state = NoChannel
    /\ queue = 0
    /\ tasks = <<>>
    /\ happenings = 0
    /\ pc = [h \in Handlers |-> "idle"]
    /\ task = [h \in Handlers |-> NoTask]
    /\ saw = [h \in Handlers |-> NoChannel]
    /\ calm = TRUE

-----------------------------------------------------------------------------
(* DPP and Discord.                                                        *)

\* connect_voice keeps a connection that is there.
ConnectVoice(ch) ==
    conn' = IF conn # NoConn THEN conn
            ELSE [channel |-> ch, arrived |-> FALSE, ready |-> FALSE]

\* connect_member_voice keeps it only if it is in the member's channel.
ConnectMemberVoice(u) ==
    conn' = IF conn.channel = voice[u] THEN conn
            ELSE [channel |-> voice[u], arrived |-> FALSE, ready |-> FALSE]

Happens == happenings < MaxHappenings /\ happenings' = happenings + 1

MemberMoves(u, ch) ==
    /\ Happens
    /\ voice[u] # ch
    /\ voice' = [voice EXCEPT ![u] = ch]
    /\ tasks' = Append(tasks, Task("voice_state", u, ch))
    /\ UNCHANGED <<conn, state, queue, handler, calm>>

MemberWrites(kind, u, text) ==
    /\ Happens
    /\ tasks' = Append(tasks, Task(kind, u, text))
    /\ UNCHANGED <<voice, conn, state, queue, handler, calm>>

\* Discord reports the bot in the channel it asked for.
BotArrives ==
    /\ conn # NoConn /\ ~conn.arrived
    /\ conn' = [conn EXCEPT !.arrived = TRUE]
    /\ voice' = [voice EXCEPT ![Bot] = conn.channel]
    /\ tasks' = Append(tasks, Task("voice_state", Bot, conn.channel))
    /\ UNCHANGED <<state, queue, happenings, handler, calm>>

VoiceReady ==
    /\ conn.arrived /\ ~conn.ready
    /\ conn' = [conn EXCEPT !.ready = TRUE]
    /\ UNCHANGED <<voice, state, queue, tasks, happenings, handler, calm>>

\* The connection is gone, and Discord reports it.
Disconnected ==
    /\ conn' = NoConn
    /\ voice' = [voice EXCEPT ![Bot] = NoChannel]
    /\ tasks' = IF conn = NoConn THEN tasks
                ELSE Append(tasks, Task("voice_state", Bot, NoChannel))

ModeratorKicks ==
    /\ Kicks /\ Happens
    /\ conn # NoConn
    /\ Disconnected
    /\ calm' = FALSE
    /\ UNCHANGED <<state, queue, handler>>

\* A worker of the synthesizer pool takes a request.
WorkerTakes ==
    /\ queue > 0
    /\ queue' = queue - 1
    /\ UNCHANGED <<voice, conn, state, tasks, happenings, handler, calm>>

Discord ==
    \/ \E u \in Users, ch \in VoiceChannels \cup {NoChannel} : MemberMoves(u, ch)
    \/ \E kind \in Commands, u \in Users, text \in TextChannels : MemberWrites(kind, u, text)
    \/ BotArrives \/ VoiceReady \/ ModeratorKicks \/ WorkerTakes

-----------------------------------------------------------------------------
(* Handlers.                                                               *)

Goto(h, label) == pc' = [pc EXCEPT ![h] = label]

Return(h) ==
    /\ Goto(h, "idle")
    /\ task' = [task EXCEPT ![h] = NoTask]
    /\ saw' = [saw EXCEPT ![h] = NoChannel]

Step(h, from, to) ==
    /\ pc[h] = from
    /\ IF to = "idle" THEN Return(h) ELSE Goto(h, to) /\ UNCHANGED <<task, saw>>
    /\ UNCHANGED <<happenings, calm>>

Start(h) ==
    /\ pc[h] = "idle"
    /\ \E i \in DOMAIN tasks :
          /\ task' = [task EXCEPT ![h] = tasks[i]]
          /\ Goto(h, tasks[i].kind)
          /\ tasks' = RemoveAt(tasks, i)
    /\ calm' = (calm /\ \A g \in Handlers : pc[g] = "idle")
    /\ UNCHANGED <<voice, conn, state, queue, happenings, saw>>

\* on_voice_state_update reads the settings and the guild's state first.
ReadState(h) ==
    /\ pc[h] = "voice_state"
    /\ Goto(h, "notify")
    /\ saw' = [saw EXCEPT ![h] = state]
    /\ UNCHANGED <<voice, conn, state, queue, tasks, happenings, task, calm>>

Announced(h) ==
    /\ "notify_vc_join" \in Flags
    /\ saw[h] # NoChannel
    /\ task[h].user # Bot
    /\ task[h].channel = NoChannel
    /\ conn.ready

Notify(h) ==
    /\ Step(h, "notify", "auto_leave")
    /\ queue' = IF Announced(h) THEN queue + 1 ELSE queue
    /\ UNCHANGED <<voice, conn, state, tasks>>

\* has_humans: the bot is skipped, and so is a member who is just leaving.
MutantHasHumans(h) ==
    \E m \in Users \cup {Bot} :
        /\ voice[m] = conn.channel
        /\ ~(m = task[h].user /\ task[h].channel # conn.channel)
HasHumans(h) ==
    \E m \in Users :
        /\ voice[m] = conn.channel
        /\ ~(m = task[h].user /\ task[h].channel # conn.channel)

AutoLeave(h) ==
    /\ IF "auto_leave" \in Flags /\ conn # NoConn /\ ~HasHumans(h)
       THEN Step(h, "auto_leave", "leave")
       ELSE Step(h, "auto_leave", "auto_join")
    /\ UNCHANGED <<voice, conn, state, queue, tasks>>

\* /leave and auto-leave: clear_guild, disconnect_voice, remove.
MutantLeaveClear(h) ==
    /\ Step(h, "leave", "disconnect")
    /\ queue' = IF task[h].kind = "leave" THEN 0 ELSE queue
    /\ UNCHANGED <<voice, conn, state, tasks>>
LeaveClear(h) ==
    /\ Step(h, "leave", "disconnect")
    /\ queue' = 0
    /\ UNCHANGED <<voice, conn, state, tasks>>

Disconnect(h) ==
    /\ Step(h, "disconnect", "remove")
    /\ Disconnected
    /\ UNCHANGED <<state, queue>>

MutantForget(h) ==
    /\ IF task[h].kind = "leave" THEN Step(h, "remove", "idle")
       ELSE Step(h, "remove", "auto_join")
    /\ state' = IF task[h].kind = "leave" THEN NoChannel ELSE state
    /\ UNCHANGED <<voice, conn, queue, tasks>>
Forget(h) ==
    /\ IF task[h].kind = "leave" THEN Step(h, "remove", "idle")
       ELSE Step(h, "remove", "auto_join")
    /\ state' = NoChannel
    /\ UNCHANGED <<voice, conn, queue, tasks>>

\* Auto-join goes by the state read at the start of the handler.
AutoJoin(h) ==
    /\ IF /\ "auto_join" \in Flags
          /\ saw[h] = NoChannel
          /\ task[h].user # Bot
          /\ task[h].channel # NoChannel
          /\ conn = NoConn
       THEN Step(h, "auto_join", "connect")
       ELSE Step(h, "auto_join", "idle")
    /\ UNCHANGED <<voice, conn, state, queue, tasks>>

Connect(h) ==
    /\ Step(h, "connect", IF SystemChannel = NoChannel THEN "idle" ELSE "bind")
    /\ ConnectVoice(task[h].channel)
    /\ UNCHANGED <<voice, state, queue, tasks>>

\* handle_join, for a member who is in a voice channel and one who is not.
Join(h) ==
    /\ IF voice[task[h].user] = NoChannel
       THEN Step(h, "join", "idle") /\ UNCHANGED conn
       ELSE Step(h, "join", "bind") /\ ConnectMemberVoice(task[h].user)
    /\ UNCHANGED <<voice, state, queue, tasks>>

Bind(h) ==
    /\ Step(h, "bind", "idle")
    /\ state' = IF task[h].kind = "join" THEN task[h].channel ELSE SystemChannel
    /\ UNCHANGED <<voice, conn, queue, tasks>>

Clear(h) ==
    /\ Step(h, "clear", "idle")
    /\ queue' = 0
    /\ UNCHANGED <<voice, conn, state, tasks>>

\* handle_message: the bound channel, then a ready connection, then the rest.
Message(h) ==
    /\ Step(h, "message", IF state = task[h].channel THEN "message_voice" ELSE "idle")
    /\ UNCHANGED <<voice, conn, state, queue, tasks>>

MessageVoice(h) ==
    /\ Step(h, "message_voice", IF conn.ready THEN "submit" ELSE "idle")
    /\ UNCHANGED <<voice, conn, state, queue, tasks>>

\* Refused: the rate limit, an ignored prefix, or nothing left to say.
Submit(h) ==
    /\ Step(h, "submit", "idle")
    /\ queue' \in {queue, queue + 1}
    /\ UNCHANGED <<voice, conn, state, tasks>>

Handler(h) ==
    \/ Start(h) \/ ReadState(h) \/ Notify(h) \/ AutoLeave(h)
    \/ LeaveClear(h) \/ Disconnect(h) \/ Forget(h)
    \/ AutoJoin(h) \/ Connect(h) \/ Join(h) \/ Bind(h) \/ Clear(h)
    \/ Message(h) \/ MessageVoice(h) \/ Submit(h)

Next == Discord \/ \E h \in Handlers : Handler(h)

Spec == Init /\ [][Next]_vars

-----------------------------------------------------------------------------

Channels == VoiceChannels \cup TextChannels \cup {NoChannel}

TypeOK ==
    /\ voice \in [Users \cup {Bot} -> Channels]
    /\ conn \in [channel : Channels, arrived : BOOLEAN, ready : BOOLEAN]
    /\ state \in Channels
    /\ queue \in Nat

\* All that happened has been reported and handled.
Quiet ==
    /\ tasks = <<>>
    /\ \A h \in Handlers : pc[h] = "idle"
    /\ conn # NoConn => conn.arrived

(* With auto_leave the bot is never left alone in a voice channel, however *)
(* joins, moves and their handlers interleave (main.cpp:194).  A member    *)
(* who leaves before the connection exists is noticed when the bot's own   *)
(* arrival is handled.                                                     *)
NeverAlone ==
    "auto_leave" \in Flags /\ Quiet /\ conn # NoConn
        => \E u \in Users : voice[u] = conn.channel

(* As long as handlers ran one at a time, in whatever order, a guild with a*)
(* bound text channel has a connection: both ways to leave drop both.      *)
BoundIsConnected == calm /\ Quiet /\ state # NoChannel => conn # NoConn

(* As long as handlers ran one at a time, nothing waits to be spoken once  *)
(* the bot has left: every request was queued under a connection, and both ways    *)
(* to leave clear the guild's queue.                                       *)
NothingQueuedWhenGone == calm /\ Quiet /\ conn = NoConn => queue = 0

(* "ユーザーが VC に参加 → Bot が未接続なら追従" (main.cpp:225): a handler that *)
(* is told, undisturbed, that a member came into a voice channel does not  *)
(* end before the bot is connected.                                        *)
FollowsMembers ==
    [][\A h \in Handlers :
         (/\ pc[h] # "idle" /\ pc'[h] = "idle"
          /\ task[h].kind = "voice_state" /\ task[h].user # Bot /\ task[h].channel # NoChannel
          /\ calm /\ "auto_join" \in Flags)
         => conn' # NoConn]_vars

=============================================================================

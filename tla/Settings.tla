-------------------------------- MODULE Settings --------------------------------
(***************************************************************************)
(* The settings of one guild: the /set command                             *)
(* (src/src/bot/commands/settings.cpp), the rows it reads and writes       *)
(* (src/src/db/database.cpp, src/migrations), and the voice a message is   *)
(* read with (src/src/bot/handler.cpp).                                    *)
(*                                                                         *)
(* Slash commands are handled on a pool of threads, so two may interleave  *)
(* at every statement they send to SQLite.  Each statement is atomic.  The *)
(* processes of a cluster share the file and set no busy timeout, so that  *)
(* a write may find it locked; its result is not looked at, and the command*)
(* replies as if it had succeeded.                                         *)
(* Speeds are counted in tenths and pitches in hundredths.                 *)
(***************************************************************************)
EXTENDS Integers

CONSTANTS
    Users,      (* the members of the guild                              *)
    Managers,   (* those with the Manage Guild permission                *)
    Commands,   (* the /set commands that may be under way together      *)
    Inputs,     (* the [option, value] pairs users may enter             *)
    Prefixes,   (* the lists of prefixes that hide a message             *)
    Fallback,   (* the style of the configuration, default_style_id      *)
    NoRow       (* the row that is not there                             *)

VARIABLES
    guild_settings, (* the row of the guild, or NoRow                    *)
    user_speakers,  (* the row of each user, or NoRow                    *)
    stage,          (* how far each command is                           *)
    issuer,         (* who entered it                                    *)
    input,          (* what was entered                                  *)
    guild_read,     (* the guild's settings as the command read them     *)
    user_read       (* the user's row as the command read it             *)

command == <<issuer, input, guild_read, user_read>>
vars == <<guild_settings, user_speakers, stage, command>>

Flags == {"read_username", "auto_leave", "auto_join", "notify_vc_join"}

\* The rows of user_speakers and of guild_settings.
VoiceRow == [speaker_id : Nat, speed_scale : 5 .. 20, pitch_scale : -15 .. 15]
GuildRow ==
    [speaker_id : Nat, speed_scale : 5 .. 20, pitch_scale : -15 .. 15,
     max_chars : 10 .. 500, read_username : BOOLEAN, auto_leave : BOOLEAN,
     auto_join : BOOLEAN, notify_vc_join : BOOLEAN, max_queue : 1 .. 100,
     ignore_prefix : Prefixes]

Options == {"voice", "speed", "pitch", "defaultvoice", "defaultspeed", "defaultpitch",
            "toggle", "maxqueue", "maxchars", "ignoreprefix"}

ASSUME SettingsAssumption ==
    /\ Managers \subseteq Users
    /\ Fallback \in Nat
    /\ "standard" \in Prefixes
    /\ \A in \in Inputs : in.option \in Options
    /\ NoRow \notin VoiceRow \cup GuildRow

\* What get_guild_settings returns without a row; "standard" is "!,/,(,[".
StructDefaults ==
    [speaker_id |-> 0, speed_scale |-> 10, pitch_scale |-> 0, max_chars |-> 100,
     read_username |-> FALSE, auto_leave |-> FALSE, auto_join |-> FALSE,
     notify_vc_join |-> FALSE, max_queue |-> 20, ignore_prefix |-> "standard"]

\* What the migrations put in the columns an INSERT does not name.
SqlDefaults ==
    [speaker_id |-> 0, speed_scale |-> 10, pitch_scale |-> 0, max_chars |-> 100,
     read_username |-> FALSE, auto_leave |-> FALSE, auto_join |-> FALSE,
     notify_vc_join |-> FALSE, max_queue |-> 20, ignore_prefix |-> "standard"]

GuildSettings == IF guild_settings = NoRow THEN StructDefaults ELSE guild_settings

\* INSERT ... ON CONFLICT(guild_id) DO UPDATE SET of one column, when SQLite
\* carries it out.
Stores(column, value) ==
    guild_settings' =
        [(IF guild_settings = NoRow THEN SqlDefaults ELSE guild_settings)
            EXCEPT ![column] = value]

\* sqlite3_step stores the value, or fails and nobody learns of it.
SetGuild(column, value) == Stores(column, value) \/ UNCHANGED guild_settings

Init ==
    /\ guild_settings = NoRow
    /\ user_speakers = [u \in Users |-> NoRow]
    /\ stage = [c \in Commands |-> "idle"]
    /\ issuer = [c \in Commands |-> NoRow]
    /\ input = [c \in Commands |-> NoRow]
    /\ guild_read = [c \in Commands |-> NoRow]
    /\ user_read = [c \in Commands |-> NoRow]

-----------------------------------------------------------------------------
(* Which voice.  The operators named Mutant... are slips that the          *)
(* properties at the end catch.                                            *)

GuildSpeaker(guild) == IF guild.speaker_id > 0 THEN guild.speaker_id ELSE Fallback

\* resolve_effective_user_settings, what a personal change starts from.
MutantEffective(user, guild) ==
    [speaker_id |-> IF user # NoRow /\ user.speaker_id > 0 THEN user.speaker_id
                    ELSE GuildSpeaker(guild),
     speed_scale |-> guild.speed_scale,
     pitch_scale |-> guild.pitch_scale]
Effective(user, guild) ==
    [speaker_id |-> IF user # NoRow /\ user.speaker_id > 0 THEN user.speaker_id
                    ELSE GuildSpeaker(guild),
     speed_scale |-> IF user # NoRow THEN user.speed_scale ELSE guild.speed_scale,
     pitch_scale |-> IF user # NoRow THEN user.pitch_scale ELSE guild.pitch_scale]

\* handle_message, what a message of the user is spoken with.
Spoken(user, guild) ==
    IF user # NoRow THEN user
    ELSE [speaker_id |-> GuildSpeaker(guild),
          speed_scale |-> guild.speed_scale,
          pitch_scale |-> guild.pitch_scale]

\* render_settings, what /set without an option shows the user.
MutantShown(user, guild) ==
    IF user # NoRow
    THEN [speaker_id |-> GuildSpeaker(guild),
          speed_scale |-> user.speed_scale,
          pitch_scale |-> user.pitch_scale]
    ELSE Spoken(user, guild)
Shown(user, guild) ==
    IF user # NoRow
    THEN [speaker_id |-> IF user.speaker_id > 0 THEN user.speaker_id ELSE GuildSpeaker(guild),
          speed_scale |-> user.speed_scale,
          pitch_scale |-> user.pitch_scale]
    ELSE [speaker_id |-> GuildSpeaker(guild),
          speed_scale |-> guild.speed_scale,
          pitch_scale |-> guild.pitch_scale]

-----------------------------------------------------------------------------
(* handle_settings: both rows are read, then one option is applied.        *)

ReadGuild(c, u, in) ==
    /\ stage[c] = "idle"
    /\ stage' = [stage EXCEPT ![c] = "read_user"]
    /\ issuer' = [issuer EXCEPT ![c] = u]
    /\ input' = [input EXCEPT ![c] = in]
    /\ guild_read' = [guild_read EXCEPT ![c] = GuildSettings]
    /\ UNCHANGED <<guild_settings, user_speakers, user_read>>

ReadUser(c) ==
    /\ stage[c] = "read_user"
    /\ stage' = [stage EXCEPT ![c] = "apply"]
    /\ user_read' = [user_read EXCEPT ![c] = user_speakers[issuer[c]]]
    /\ UNCHANGED <<guild_settings, user_speakers, issuer, input, guild_read>>

\* The values each option takes; a voice that resolve_speaker does not find
\* is no number here.
Legal == [voice |-> Nat, speed |-> 5 .. 20, pitch |-> -15 .. 15,
          defaultvoice |-> Nat, defaultspeed |-> 5 .. 20, defaultpitch |-> -15 .. 15,
          toggle |-> Flags, maxqueue |-> 1 .. 100, maxchars |-> 10 .. 500,
          ignoreprefix |-> Prefixes]

MutantAccepted(in) == in.value \in Legal[in.option] \/ in.option = "speed"
Accepted(in) == in.value \in Legal[in.option]

Personal == [voice |-> "speaker_id", speed |-> "speed_scale", pitch |-> "pitch_scale"]
Shared == [defaultvoice |-> "speaker_id", defaultspeed |-> "speed_scale",
           defaultpitch |-> "pitch_scale", maxqueue |-> "max_queue",
           maxchars |-> "max_chars", ignoreprefix |-> "ignore_prefix"]

Done(c) ==
    /\ stage[c] = "apply"
    /\ stage' = [stage EXCEPT ![c] = "idle"]
    /\ issuer' = [issuer EXCEPT ![c] = NoRow]
    /\ input' = [input EXCEPT ![c] = NoRow]
    /\ guild_read' = [guild_read EXCEPT ![c] = NoRow]
    /\ user_read' = [user_read EXCEPT ![c] = NoRow]

\* set_user_speaker writes all three columns, or none.
SetPersonal(c) ==
    /\ Done(c)
    /\ input[c].option \in DOMAIN Personal
    /\ Accepted(input[c])
    /\ \/ user_speakers' = [user_speakers EXCEPT ![issuer[c]] =
             [Effective(user_read[c], guild_read[c])
                 EXCEPT ![Personal[input[c].option]] = input[c].value]]
       \/ UNCHANGED user_speakers
    /\ UNCHANGED guild_settings

\* toggle_guild_flag writes the opposite of what was read.
Toggle(c) ==
    /\ Done(c)
    /\ input[c].option = "toggle"
    /\ issuer[c] \in Managers
    /\ Accepted(input[c])
    /\ SetGuild(input[c].value, ~guild_read[c][input[c].value])
    /\ UNCHANGED user_speakers

MutantWholeRow(c) ==
    /\ Done(c)
    /\ input[c].option \in DOMAIN Shared
    /\ issuer[c] \in Managers
    /\ Accepted(input[c])
    /\ guild_settings' = [guild_read[c] EXCEPT ![Shared[input[c].option]] = input[c].value]
    /\ UNCHANGED user_speakers

SetShared(c) ==
    /\ Done(c)
    /\ input[c].option \in DOMAIN Shared
    /\ issuer[c] \in Managers
    /\ Accepted(input[c])
    /\ SetGuild(Shared[input[c].option], input[c].value)
    /\ UNCHANGED user_speakers

\* Out of range, unknown voice or flag, or no permission: only a reply.
Refuse(c) ==
    /\ Done(c)
    /\ \/ ~Accepted(input[c])
       \/ input[c].option \notin DOMAIN Personal /\ issuer[c] \notin Managers
    /\ UNCHANGED <<guild_settings, user_speakers>>

Next ==
    \E c \in Commands :
        \/ \E u \in Users, in \in Inputs : ReadGuild(c, u, in)
        \/ ReadUser(c)
        \/ SetPersonal(c) \/ Toggle(c) \/ SetShared(c) \/ Refuse(c)

Spec == Init /\ [][Next]_vars

-----------------------------------------------------------------------------

(* Every row holds values that /set accepts, the ones a personal change    *)
(* copies from the guild's row included.                                   *)
TypeOK ==
    /\ user_speakers \in [Users -> VoiceRow \cup {NoRow}]
    /\ guild_settings \in GuildRow \cup {NoRow}
    /\ stage \in [Commands -> {"idle", "read_user", "apply"}]
    /\ \A c \in Commands : stage[c] # "idle" => issuer[c] \in Users /\ input[c] \in Inputs

(* However commands interleave, one of them changes at most one of the     *)
(* settings of the guild that everyone sees, be it the one that creates    *)
(* the row: the defaults in C++ and in SQL agree, and no column is written *)
(* back from an old read.                                                  *)
OneColumnAtATime ==
    [][\E k \in DOMAIN StructDefaults : \A other \in DOMAIN StructDefaults \ {k} :
          GuildSettings'[other] = GuildSettings[other]]_guild_settings

(* What /set without an option shows is what messages are spoken with      *)
(* (README.md:9): the two places that resolve a voice agree.  Style 0 is   *)
(* the exception: it is a voice to one and "not set" to the other.         *)
ShownIsSpoken ==
    \A u \in Users :
        LET row == user_speakers[u]
        IN  row = NoRow \/ row.speaker_id # 0
                => Shown(row, GuildSettings) = Spoken(row, GuildSettings)

SpokenBy(u) == Spoken(user_speakers[u], GuildSettings)

\* What the command read is what it would read now.
Fresh(c) ==
    /\ guild_read[c] = GuildSettings
    /\ user_read[c] = user_speakers[issuer[c]]

\* Personal option k is not the one entered, and nothing excuses its change.
Untouched(c, k) == input[c].option # k /\ Fresh(c) /\ SpokenBy(issuer[c]).speaker_id # 0

(* A personal option changes what it names in how its user is spoken and   *)
(* nothing else, and it changes nothing for any other user, also when it   *)
(* creates the row and freezes the guild's values in it.  A write between  *)
(* its reads and its own may be overwritten, and so may a voice of style 0.*)
PersonalOptionsAreIndependent ==
    [][\A c \in Commands, u \in Users, k \in DOMAIN Personal :
          SetPersonal(c) /\ (issuer[c] = u => Untouched(c, k))
             => SpokenBy(u)'[Personal[k]] = SpokenBy(u)[Personal[k]]]_vars

(* "自分の速度を変更" (README.md:11): a change of one's speed does not change *)
(* one's voice.                                                            *)
SpeedKeepsTheVoice ==
    [][\A c \in Commands, u \in Users :
          SetPersonal(c) /\ issuer[c] = u /\ input[c].option = "speed" /\ Fresh(c)
             => SpokenBy(u)'.speaker_id = SpokenBy(u).speaker_id]_vars

=============================================================================

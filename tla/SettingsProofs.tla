---------------------------- MODULE SettingsProofs ----------------------------
(***************************************************************************)
(* Proofs about Settings, for any users, any number of commands under way  *)
(* together and any inputs.  IInv adds to TypeOK what a command carries    *)
(* from its reads to its write.                                            *)
(***************************************************************************)
EXTENDS Settings, TLAPS

IInv ==
    /\ TypeOK
    /\ issuer \in [Commands -> Users \cup {NoRow}]
    /\ input \in [Commands -> Inputs \cup {NoRow}]
    /\ \A c \in Commands : stage[c] # "idle" => guild_read[c] \in GuildRow
    /\ \A c \in Commands : stage[c] = "apply" => user_read[c] \in VoiceRow \cup {NoRow}
    /\ guild_read \in [Commands -> GuildRow \cup {NoRow}]
    /\ user_read \in [Commands -> VoiceRow \cup {NoRow}]

-----------------------------------------------------------------------------
(* Rows.                                                                   *)

LEMMA Defaults == StructDefaults \in GuildRow /\ SqlDefaults = StructDefaults
<1>1. "standard" \in Prefixes
  BY SettingsAssumption
<1>2. StructDefaults \in GuildRow
  BY <1>1 DEF StructDefaults, GuildRow
<1>3. SqlDefaults = StructDefaults
  BY DEF StructDefaults, SqlDefaults
<1> QED  BY <1>2, <1>3

LEMMA GuildSettingsType == TypeOK => GuildSettings \in GuildRow
BY Defaults DEF TypeOK, GuildSettings

\* One statement writes one legal value into a row with every column, or fails.
LEMMA SetGuildRow ==
    ASSUME TypeOK, NEW column, NEW value, SetGuild(column, value)
    PROVE  \/ guild_settings' = [GuildSettings EXCEPT ![column] = value]
           \/ guild_settings' = guild_settings
BY Defaults DEF SetGuild, Stores, GuildSettings

LEMMA SharedTyped ==
    ASSUME NEW row \in GuildRow, NEW option \in DOMAIN Shared, NEW value \in Legal[option]
    PROVE  [row EXCEPT ![Shared[option]] = value] \in GuildRow
BY SMTT(30) DEF GuildRow, Shared, Legal

LEMMA FlagTyped ==
    ASSUME NEW row \in GuildRow, NEW f \in Flags, NEW b \in BOOLEAN
    PROVE  [row EXCEPT ![f] = b] \in GuildRow
BY SMTT(30) DEF GuildRow, Flags

LEMMA PersonalTyped ==
    ASSUME NEW row \in VoiceRow, NEW option \in DOMAIN Personal, NEW value \in Legal[option]
    PROVE  [row EXCEPT ![Personal[option]] = value] \in VoiceRow
BY SMTT(30) DEF VoiceRow, Personal, Legal

LEMMA EffectiveTyped ==
    ASSUME NEW user \in VoiceRow \cup {NoRow}, NEW guild \in GuildRow
    PROVE  Effective(user, guild) \in VoiceRow
BY SettingsAssumption DEF Effective, GuildSpeaker, VoiceRow, GuildRow

-----------------------------------------------------------------------------

LEMMA GuildWriteTyped ==
    ASSUME IInv, NEW c \in Commands, SetShared(c) \/ Toggle(c)
    PROVE  guild_settings' \in GuildRow \/ guild_settings' = guild_settings
<1>t. TypeOK /\ GuildSettings \in GuildRow
  BY GuildSettingsType DEF IInv
<1>1. CASE SetShared(c)
  BY <1>t, <1>1, SetGuildRow, SharedTyped DEF SetShared, Accepted
<1>2. CASE Toggle(c)
  <2> DEFINE f == input[c].value
  <2>1. f \in Flags
    BY <1>2 DEF Toggle, Accepted, Legal
  <2>2. guild_read[c] \in GuildRow
    BY <1>2 DEF Toggle, Done, IInv
  <2>3. guild_read[c][f] \in BOOLEAN
    BY <2>1, <2>2 DEF Flags, GuildRow
  <2>4. (~guild_read[c][f]) \in BOOLEAN
    BY <2>3
  <2>5. \/ guild_settings' = [GuildSettings EXCEPT ![f] = ~guild_read[c][f]]
        \/ guild_settings' = guild_settings
    BY <1>t, <1>2, SetGuildRow DEF Toggle
  <2> QED  BY <1>t, <2>1, <2>4, <2>5, FlagTyped
<1> QED  BY <1>1, <1>2

LEMMA InvInit == Init => IInv
BY DEF Init, IInv, TypeOK

LEMMA InvStep == IInv /\ [Next]_vars => IInv'
<1> SUFFICES ASSUME IInv, [Next]_vars PROVE IInv'
  OBVIOUS
<1>t. TypeOK /\ GuildSettings \in GuildRow
  BY GuildSettingsType DEF IInv
<1>1. ASSUME NEW c \in Commands, NEW u \in Users, NEW in \in Inputs, ReadGuild(c, u, in)
      PROVE  IInv'
  BY <1>t, <1>1 DEF ReadGuild, IInv, TypeOK
<1>2. ASSUME NEW c \in Commands, ReadUser(c) PROVE IInv'
  BY <1>2 DEF ReadUser, IInv, TypeOK
<1>3. ASSUME NEW c \in Commands, Done(c),
             user_speakers' \in [Users -> VoiceRow \cup {NoRow}],
             guild_settings' \in GuildRow \cup {NoRow}
      PROVE  IInv'
  BY <1>3 DEF Done, IInv, TypeOK
<1>4. ASSUME NEW c \in Commands, SetPersonal(c) PROVE IInv'
  <2> DEFINE row == [Effective(user_read[c], guild_read[c])
                        EXCEPT ![Personal[input[c].option]] = input[c].value]
  <2>1. stage[c] = "apply" /\ Accepted(input[c]) /\ input[c].option \in DOMAIN Personal
    BY <1>4 DEF SetPersonal, Done
  <2>2. Effective(user_read[c], guild_read[c]) \in VoiceRow
    BY <2>1, EffectiveTyped DEF IInv
  <2>3. row \in VoiceRow
    BY <2>1, <2>2, PersonalTyped DEF Accepted
  <2>4. user_speakers' \in [Users -> VoiceRow \cup {NoRow}]
    <3>1. \/ user_speakers' = [user_speakers EXCEPT ![issuer[c]] = row]
          \/ user_speakers' = user_speakers
      BY <1>4 DEF SetPersonal
    <3> HIDE DEF row
    <3> QED  BY <2>3, <3>1 DEF IInv, TypeOK
  <2> QED  BY <1>3, <1>4, <2>4 DEF SetPersonal, IInv, TypeOK
<1>5. ASSUME NEW c \in Commands, SetShared(c) \/ Toggle(c) PROVE IInv'
  <2>1. guild_settings' \in GuildRow \cup {NoRow}
    BY <1>5, GuildWriteTyped DEF IInv, TypeOK
  <2> QED  BY <1>3, <1>5, <2>1 DEF SetShared, Toggle, IInv, TypeOK
<1>6. ASSUME NEW c \in Commands, Refuse(c) PROVE IInv'
  BY <1>3, <1>6 DEF Refuse, IInv, TypeOK
<1>7. CASE UNCHANGED vars
  BY <1>7 DEF vars, command, IInv, TypeOK
<1> QED  BY <1>1, <1>2, <1>4, <1>5, <1>6, <1>7 DEF Next

THEOREM Invariant == Spec => []IInv
BY InvInit, InvStep, PTL DEF Spec

(* Every row of either table holds values that /set accepts.               *)
THEOREM TypeCorrect == Spec => []TypeOK
<1>1. IInv => TypeOK  BY DEF IInv
<1> QED  BY <1>1, Invariant, PTL

-----------------------------------------------------------------------------
(* What one command may change.                                            *)

\* A step that writes the guild's row writes one column of it.
LEMMA OneColumnStep ==
    ASSUME IInv, [Next]_vars, guild_settings' # guild_settings
    PROVE  \E k \in DOMAIN StructDefaults : \A other \in DOMAIN StructDefaults \ {k} :
              GuildSettings'[other] = GuildSettings[other]
<1>t. TypeOK /\ GuildSettings \in GuildRow
  BY GuildSettingsType DEF IInv
<1>1. PICK c \in Commands : SetShared(c) \/ Toggle(c)
  BY DEF Next, vars, command, ReadGuild, ReadUser, SetPersonal, Refuse
<1> DEFINE column == IF SetShared(c) THEN Shared[input[c].option] ELSE input[c].value
<1>2. PICK value : SetGuild(column, value) /\ column \in DOMAIN StructDefaults
  <2>1. CASE SetShared(c)
    BY <2>1 DEF SetShared, Shared, StructDefaults
  <2>2. CASE ~SetShared(c)
    BY <1>1, <2>2 DEF Toggle, Accepted, Legal, Flags, StructDefaults
  <2> QED  BY <2>1, <2>2
<1>3. guild_settings' = [GuildSettings EXCEPT ![column] = value]
  BY <1>t, <1>2, SetGuildRow
<1>4. guild_settings' # NoRow
  BY <1>1, GuildWriteTyped, SettingsAssumption
<1>5. GuildSettings' = [GuildSettings EXCEPT ![column] = value]
  BY <1>3, <1>4 DEF GuildSettings
<1>6. \A other \in DOMAIN StructDefaults \ {column} :
          GuildSettings'[other] = GuildSettings[other]
  BY <1>t, <1>5 DEF GuildRow, StructDefaults
<1> QED  BY <1>2, <1>6

(* However commands interleave, one step changes at most one of the        *)
(* guild's settings.                                                       *)
THEOREM OneColumnTheorem == Spec => OneColumnAtATime
<1>1. IInv /\ [Next]_vars =>
          [\E k \in DOMAIN StructDefaults : \A other \in DOMAIN StructDefaults \ {k} :
              GuildSettings'[other] = GuildSettings[other]]_guild_settings
  BY OneColumnStep
<1> QED  BY <1>1, Invariant, PTL DEF Spec, OneColumnAtATime

-----------------------------------------------------------------------------
(* What is heard.                                                          *)

(* What /set shows is what messages are spoken with, but for style 0.      *)
THEOREM ShownIsSpokenAlways == Spec => []ShownIsSpoken
<1>1. TypeOK => ShownIsSpoken
  <2> SUFFICES ASSUME TypeOK, NEW u \in Users,
                      user_speakers[u] = NoRow \/ user_speakers[u].speaker_id # 0
               PROVE  Shown(user_speakers[u], GuildSettings)
                        = Spoken(user_speakers[u], GuildSettings)
    BY DEF ShownIsSpoken
  <2>1. CASE user_speakers[u] = NoRow
    BY <2>1 DEF Shown, Spoken
  <2>2. CASE user_speakers[u] # NoRow
    <3>1. user_speakers[u] \in VoiceRow /\ user_speakers[u].speaker_id > 0
      BY <2>2 DEF TypeOK, VoiceRow
    <3> QED  BY <2>2, <3>1 DEF Shown, Spoken, VoiceRow
  <2> QED  BY <2>1, <2>2
<1> QED  BY <1>1, TypeCorrect, PTL

\* A voice that is not style 0 is spoken the way a personal change takes it.
LEMMA EffectiveIsSpoken ==
    ASSUME NEW row \in VoiceRow \cup {NoRow}, NEW guild \in GuildRow,
           Spoken(row, guild).speaker_id # 0
    PROVE  \A k \in {"speaker_id", "speed_scale", "pitch_scale"} :
              Effective(row, guild)[k] = Spoken(row, guild)[k]
BY DEF Effective, Spoken, VoiceRow

\* What a personal change leaves of how user u is spoken.
LEMMA PersonalStep ==
    ASSUME IInv, NEW c \in Commands, NEW u \in Users, NEW k \in DOMAIN Personal,
           SetPersonal(c), issuer[c] = u => Untouched(c, k)
    PROVE  (SpokenBy(u)')[Personal[k]] = SpokenBy(u)[Personal[k]]
<1>t. TypeOK /\ GuildSettings \in GuildRow
  BY GuildSettingsType DEF IInv
<1>g. GuildSettings' = GuildSettings
  BY DEF SetPersonal, GuildSettings
<1>1. CASE issuer[c] # u \/ UNCHANGED user_speakers
  <2>1. user_speakers'[u] = user_speakers[u]
    BY <1>t, <1>1 DEF SetPersonal, TypeOK
  <2> QED  BY <1>g, <2>1 DEF SpokenBy
<1>2. CASE issuer[c] = u /\ user_speakers' # user_speakers
  <2> DEFINE before == user_speakers[u]
             option == input[c].option
             start == Effective(before, GuildSettings)
             after == [start EXCEPT ![Personal[option]] = input[c].value]
  <2>1. option \in DOMAIN Personal /\ option # k /\ input[c].value \in Legal[option]
    BY <1>2 DEF SetPersonal, Untouched, Accepted
  <2>2. start \in VoiceRow
    BY <1>t, EffectiveTyped DEF TypeOK
  <2>3. user_speakers'[u] = after
    BY <1>t, <1>2 DEF SetPersonal, Untouched, Fresh, TypeOK
  <2>4. after \in VoiceRow
    BY <2>1, <2>2, PersonalTyped
  <2>5. SpokenBy(u)' = after
    BY <2>3, <2>4, SettingsAssumption DEF SpokenBy, Spoken
  <2>6. after[Personal[k]] = start[Personal[k]]
    BY <2>1, <2>2 DEF Personal, VoiceRow
  <2>7. start[Personal[k]] = SpokenBy(u)[Personal[k]]
    BY <1>t, <1>2, EffectiveIsSpoken DEF Untouched, SpokenBy, TypeOK, Personal
  <2> QED  BY <2>5, <2>6, <2>7
<1> QED  BY <1>1, <1>2

(* A personal option changes what it names for its user, and nothing else  *)
(* and nobody else, unless another write came between or the voice was     *)
(* style 0.                                                                *)
THEOREM PersonalOptionsTheorem == Spec => PersonalOptionsAreIndependent
<1>1. IInv /\ [Next]_vars =>
          [\A c \in Commands, u \in Users, k \in DOMAIN Personal :
              SetPersonal(c) /\ (issuer[c] = u => Untouched(c, k))
                 => SpokenBy(u)'[Personal[k]] = SpokenBy(u)[Personal[k]]]_vars
  BY PersonalStep
<1> QED  BY <1>1, Invariant, PTL DEF Spec, PersonalOptionsAreIndependent

=============================================================================

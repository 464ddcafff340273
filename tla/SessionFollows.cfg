CONSTANTS
    Users = {ann}
    Bot = bot
    VoiceChannels = {v1, v2}
    TextChannels = {text}
    NoChannel = NoChannel
    SystemChannel = text
    Flags = {"auto_leave", "auto_join"}
    Commands = {}
    Kicks = FALSE
    Handlers = {h1}
    MaxHappenings = 2
SPECIFICATION Spec
CHECK_DEADLOCK FALSE
PROPERTIES FollowsMembers

CONSTANTS
    Users = {ann, ben}
    Bot = bot
    VoiceChannels = {v1, v2}
    TextChannels = {text}
    NoChannel = NoChannel
    SystemChannel = text
    Flags = {"auto_leave", "auto_join", "notify_vc_join"}
    Commands = {"join", "leave", "clear", "message"}
    Kicks = TRUE
    Handlers = {h1, h2}
    MaxHappenings = 3
SPECIFICATION Spec
SYMMETRY Alike
CHECK_DEADLOCK FALSE
INVARIANTS NeverAlone BoundIsConnected NothingQueuedWhenGone

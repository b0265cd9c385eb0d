\* The audio call of one page and the gateway.
CONSTANTS
    out = out
    in = in
    None = None
    OutgoingCall = {out}
    IncomingCall = {in}
    MaxInFlight = 1

SPECIFICATION ClientSpec
CONSTRAINTS NotOvertaken ShortQueues

INVARIANTS
    
    EndedStaysEnded
    MicrophoneFollowsCall

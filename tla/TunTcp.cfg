SPECIFICATION Spec
CONSTANTS
    TcpBufferSize = 4
    SndBuf = 3
    Wnd = 2
    SockBuf = 2
    MaxUp = 4
    MaxDown = 6
    Setups <- AllSetups
INVARIANTS
    StreamExact
    RoomForRead
    FinComplete
    ShutComplete
PROPERTIES
    Delivered
CHECK_DEADLOCK FALSE

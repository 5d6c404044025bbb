CONSTANTS
    PmLimit = 2
SPECIFICATION DLiveSpec
INVARIANTS
    TalkInv
    PowerAgrees
    SleepsInStandby
    RoleAgrees
    LitOutOfStandby
PROPERTIES
    IsSpeech
    NoLeaveWhileSpeaking
    SleepsWhenLeftAlone

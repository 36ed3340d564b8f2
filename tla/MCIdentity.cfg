SPECIFICATION Spec
CONSTANTS
    otp1 = otp1
    otp2 = otp2
    ver1 = ver1
    ver2 = ver2
    pin1 = pin1
    pin2 = pin2
    sms = sms
    login = login
    Otps = {otp1, otp2}
    Verifications = {ver1, ver2}
    PinChoices = {pin1, pin2}
    None = None
    PhoneRequests <- MCPhoneRequests
    KindOf <- MCKindOf
    OtpRequestLimit = 2
    OtpMaxAttempts = 2
    MaxFailures = 1
    Gets = {otp1, otp2}
    StepUps <- MCStepUps
    Logouts = {"logout"}
    Controls = {"control"}
    IdleTtl = 2
    AbsoluteTtl = 4
    LockTtl = 2
    MaxAttempts = 2
    MaxTime = 6
    Burst <- MCBurst
    BurstTime = 3
    Challenges = {"reg", "a1", "a2", "a3"}
    Registrations = {"reg"}
    PasskeyRequests = {"r1", "l1", "l2", "l3"}
    ChallengeOf <- MCChallengeOf
    RateLimit = 2
SYMMETRY Interchangeable
PROPERTIES
    OnePinPerPhone
    SessionLimits
    PasskeySpentOnce
CHECK_DEADLOCK FALSE

----------------------------- MODULE WebSignIn ------------------------------
(***************************************************************************)
(* The onboarding and sign-in screens of the web application               *)
(* (onboarding-flow.tsx, sign-in-flow.tsx, passkey-enrollment.tsx) with    *)
(* the requests they await through auth-client.ts and http.ts.  Each flow  *)
(* awaits one request at a time; the browser may give up on it while       *)
(* Identity still runs it, may be configured to refuse the session cookie, *)
(* and some buttons stay enabled while a request is under way.             *)
(***************************************************************************)
EXTENDS Naturals

CONSTANT MaxIssued   \* bound on one-time codes asked for

VARIABLES flow, step, fallback, otpStep,      \* which screen is shown
          phone, pin, otp, challenge, token,  \* what the form holds
          cooldown, place,
          call, stray,                        \* awaited request, abandoned ones
          cookies, cookie,                    \* accepted by the browser; held
          issued, spent, created,             \* Identity: codes and the account
          left                                \* the phone form was left while it waited

vars == <<flow, step, fallback, otpStep, phone, pin, otp, challenge, token,
          cooldown, place, call, stray, cookies, cookie, issued, spent,
          created, left>>

screen  == <<flow, step, fallback, otpStep, left>>
form    == <<phone, pin, otp, challenge, token>>
server  == <<issued, spent, created>>
browser == <<cookies, cookie, place>>

NoCall == [kind |-> "none", challenge |-> 0, answer |-> "none"]
loading == call # NoCall

Init ==
    /\ flow \in {"onboarding", "signin"} /\ cookies \in BOOLEAN
    /\ step = 0 /\ fallback = FALSE /\ otpStep = FALSE
    /\ phone = FALSE /\ pin = FALSE /\ otp = 0 /\ challenge = 0 /\ token = FALSE
    /\ cooldown = FALSE /\ place = "here"
    /\ call = NoCall /\ stray = {} /\ cookie = FALSE
    /\ issued = 0 /\ spent = {} /\ created = FALSE /\ left = FALSE

(* http.ts request *)
Send(kind) ==
    /\ place = "here" /\ ~loading
    /\ kind \in {"request", "fallback"} => issued < MaxIssued
    /\ call' = [kind |-> kind, challenge |-> challenge, answer |-> "none"]
    /\ UNCHANGED <<screen, form, cooldown, stray, browser, server>>

PhoneScreen == IF flow = "onboarding" THEN step = 0 ELSE fallback /\ ~otpStep
OtpScreen   == IF flow = "onboarding" THEN step = 1 ELSE fallback /\ otpStep

(* Typing; the fields are disabled while a request is awaited. *)
FillForm ==
    /\ place = "here" /\ ~loading
    /\ \/ /\ PhoneScreen /\ ~phone /\ phone' = TRUE
          /\ pin' = (flow = "signin") /\ UNCHANGED otp
       \/ /\ OtpScreen /\ otp = 0 /\ challenge # 0 /\ otp' = challenge
          /\ UNCHANGED <<phone, pin>>
       \/ /\ flow = "onboarding" /\ step = 2 /\ ~pin /\ pin' = TRUE
          /\ UNCHANGED <<phone, otp>>
    /\ UNCHANGED <<screen, challenge, token, cooldown, call, stray, browser, server>>

requestOtp == flow = "onboarding" /\ step = 0 /\ phone /\ Send("request")
verifyOtp  == flow = "onboarding" /\ step = 1 /\ otp # 0 /\ Send("verify")
resendOtp  == flow = "onboarding" /\ step = 1 /\ ~cooldown /\ Send("request")
createPin  == flow = "onboarding" /\ step = 2 /\ pin /\ token /\ Send("create")

(* The passkey offered in step 3; "skip" leads to step 4. *)
addPasskey == flow = "onboarding" /\ step = 3 /\ Send("enroll")

skipNow ==
    /\ flow = "onboarding" /\ step = 3 /\ place = "here"
    /\ step' = 4
    /\ UNCHANGED <<flow, fallback, otpStep, left, form, cooldown, call,
                   stray, browser, server>>

(* The validation of the form precedes every request. *)
passkeySignIn    == flow = "signin" /\ ~fallback /\ Send("assert")
requestFallback  == /\ flow = "signin" /\ fallback /\ phone /\ pin
                    /\ otpStep => ~cooldown
                    /\ Send("fallback")
completeFallback == /\ flow = "signin" /\ fallback /\ otpStep /\ otp # 0
                    /\ phone /\ pin /\ Send("login")

(* Neither button is disabled while a request is awaited. *)
useFallback ==
    /\ flow = "signin" /\ ~fallback /\ place = "here"
    /\ fallback' = TRUE
    /\ UNCHANGED <<flow, step, otpStep, left, form, cooldown, call, stray,
                   browser, server>>

backPasskey ==
    /\ flow = "signin" /\ fallback /\ ~otpStep /\ place = "here"
    /\ fallback' = FALSE /\ phone' = FALSE /\ pin' = FALSE
    /\ left' = (left \/ call.kind = "fallback")
    /\ UNCHANGED <<flow, step, otpStep, otp, challenge, token, cooldown, call,
                   stray, browser, server>>

CooldownEnds ==
    /\ cooldown /\ cooldown' = FALSE
    /\ UNCHANGED <<screen, form, call, stray, browser, server>>

-----------------------------------------------------------------------------
(* What Identity does with request c, awaited or abandoned. *)
Runs(c) ==
    /\ issued'  = issued + (IF c.kind \in {"request", "fallback"} THEN 1 ELSE 0)
    /\ spent'   = IF c.kind \in {"verify", "login"} THEN spent \cup {c.challenge} ELSE spent
    /\ created' = (created \/ c.kind = "create")

Runnable(c) ==
    /\ c.kind \in {"request", "fallback"} => issued < MaxIssued
    /\ c.kind \in {"verify", "login"} => c.challenge = issued /\ c.challenge \notin spent
    /\ c.kind = "create" => ~created
    /\ c.kind = "session" => cookie

Serve ==
    /\ loading /\ call.answer = "none"
    /\ \/ /\ Runnable(call) /\ Runs(call)
          /\ call' = [call EXCEPT !.answer = "ok",
                                  !.challenge = IF call.kind \in {"request", "fallback"}
                                                THEN issued + 1 ELSE @]
       \/ call' = [call EXCEPT !.answer = "refused"] /\ UNCHANGED server
    /\ UNCHANGED <<screen, form, cooldown, stray, browser>>

ServeStray(c) ==
    /\ Runnable(c) /\ Runs(c)
    /\ stray' = stray \ {c}
    /\ UNCHANGED <<screen, form, cooldown, call, browser>>

-----------------------------------------------------------------------------
(* The code field when a new challenge arrives: (the mutant) kept. *)
CodeKept == otp

(* setOtp('') follows every setChallengeId. *)
CodeCleared == 0

(* The PIN once the code is asked for: (the mutant) cleared as in          *)
(* onboarding.                                                             *)
PinCleared == FALSE

(* requestFallback keeps phone and PIN for completeFallback. *)
PinKept == pin

Challenged ==
    /\ call.kind \in {"request", "fallback"}
    /\ challenge' = call.challenge /\ otp' = CodeCleared /\ cooldown' = TRUE
    /\ step' = IF flow = "onboarding" THEN 1 ELSE step
    /\ otpStep' = (flow = "signin")
    /\ pin' = PinKept
    /\ call' = NoCall
    /\ UNCHANGED <<flow, fallback, left, phone, token, stray, browser, server>>

Verified ==
    /\ call.kind = "verify"
    /\ token' = TRUE /\ otp' = 0 /\ step' = 2
    /\ call' = NoCall
    /\ UNCHANGED <<flow, fallback, otpStep, left, phone, pin, challenge, cooldown, stray, browser, server>>

(* What follows an answer that carries a session cookie: (the mutant) the  *)
(* session is taken for granted.                                           *)
Trusted == [NoCall EXCEPT !.kind = "session", !.answer = "ok"]

(* createPin, login and assert go on with getSession. *)
Confirming == [NoCall EXCEPT !.kind = "session"]

SignedIn ==
    /\ call.kind \in {"create", "login", "assert"}
    /\ cookie' = (cookie \/ cookies)
    /\ call' = Confirming
    /\ UNCHANGED <<screen, form, cooldown, stray, cookies, place, server>>

(* getSession answered: onboarding goes to step 3, sign-in finishes; an    *)
(* enrolled passkey finishes onboarding.                                   *)
Finished ==
    /\ call.kind \in {"session", "enroll"}
    /\ phone' = FALSE /\ pin' = FALSE /\ otp' = 0 /\ challenge' = 0 /\ token' = FALSE
    /\ step' = IF flow = "onboarding" /\ step = 2 THEN 3 ELSE step
    /\ place' = IF flow = "onboarding" /\ step = 2 THEN "here" ELSE "app"
    /\ call' = NoCall
    /\ UNCHANGED <<flow, fallback, otpStep, left, cooldown, stray, cookies,
                   cookie, server>>

(* catch and finally: an error is shown, the screen stays, and createPin   *)
(* empties its fields.                                                     *)
Failed ==
    /\ call' = NoCall
    /\ pin' = (pin /\ ~(flow = "onboarding" /\ step = 2))
    /\ UNCHANGED <<screen, phone, otp, challenge, token, cooldown, browser, server>>

Receive ==
    \/ call.answer = "ok" /\ (Challenged \/ Verified \/ SignedIn \/ Finished)
    \/ call.answer = "refused" /\ Failed /\ UNCHANGED stray

(* REQUEST_TIMEOUT_MS: the request is abandoned and may still be run. *)
GiveUp ==
    /\ loading
    /\ Failed
    /\ stray' = IF call.answer = "none" THEN stray \cup {call} ELSE stray

finish ==
    /\ flow = "onboarding" /\ step = 4 /\ place = "here"
    /\ place' = "app"
    /\ UNCHANGED <<screen, form, cooldown, call, stray, cookies, cookie, server>>

(* Reload: the page redirects to /app when the cookie holds a session, and *)
(* starts again otherwise.                                                 *)
Reload ==
    /\ place = "here"
    /\ place' = IF cookie THEN "app" ELSE "here"
    /\ step' = 0 /\ fallback' = FALSE /\ otpStep' = FALSE
    /\ phone' = FALSE /\ pin' = FALSE /\ otp' = 0 /\ challenge' = 0 /\ token' = FALSE
    /\ cooldown' = FALSE /\ left' = FALSE
    /\ call' = NoCall
    /\ stray' = IF call.answer = "none" /\ loading THEN stray \cup {call} ELSE stray
    /\ UNCHANGED <<flow, cookies, cookie, server>>

Next ==
    \/ FillForm \/ requestOtp \/ verifyOtp \/ resendOtp \/ createPin
    \/ addPasskey \/ skipNow \/ passkeySignIn \/ requestFallback
    \/ completeFallback \/ useFallback \/ backPasskey \/ CooldownEnds
    \/ Serve \/ (\E c \in stray : ServeStray(c)) \/ Receive \/ GiveUp
    \/ finish \/ Reload

Spec == Init /\ [][Next]_vars

-----------------------------------------------------------------------------
(* A code in the field was typed for the challenge it will be sent with,   *)
(* whatever was resent in between (onboarding-flow, sign-in-flow).         *)
CodeMatchesChallenge == otp # 0 => otp = challenge

(* The screens that announce access, and the application, are reached only *)
(* with a session the browser really holds: a browser that refuses the     *)
(* cookie is told so by getSession (onboarding-flow createPin, sign-in-flow *)
(* completeFallback and passkeySignIn).                                    *)
AccessIsHeld == (step >= 3 \/ place = "app") => cookie

(* The code screen of sign-in still has the phone and PIN it must send, or *)
(* "back" was pressed while the code was being asked for - the one way     *)
(* into a screen that can neither be completed nor left                    *)
(* (sign-in-flow requestFallback).                                         *)
CodeScreenCompletable == (flow = "signin" /\ otpStep) => ((phone /\ pin) \/ left \/ place = "app")

-----------------------------------------------------------------------------
(* The inductive invariant behind the three properties. *)

Kinds == {"none", "request", "verify", "create", "enroll", "fallback",
          "login", "assert", "session"}

Typed ==
    /\ step \in 0..4 /\ otpStep \in BOOLEAN /\ left \in BOOLEAN
    /\ phone \in BOOLEAN /\ pin \in BOOLEAN
    /\ challenge \in Nat /\ issued \in Nat
    /\ call \in [kind : Kinds, challenge : Nat, answer : {"none", "ok", "refused"}]

\* A flow awaits the requests of its own screens.
KindsOfFlow ==
    /\ call.kind \in {"request", "verify", "create", "enroll"} => flow = "onboarding"
    /\ call.kind \in {"fallback", "login", "assert"} => flow = "signin"

\* getSession succeeds, and a passkey is enrolled, with the cookie only.
GrantedByCookie ==
    \/ call.kind = "session" /\ call.answer = "ok"
    \/ call.kind = "enroll"
    => cookie

\* While the code is being asked for, phone and PIN are kept or the form was
\* left.
AsksWithPin == call.kind = "fallback" => (phone /\ pin) \/ left

IInv ==
    /\ Typed
    /\ KindsOfFlow
    /\ GrantedByCookie
    /\ AsksWithPin
    /\ CodeMatchesChallenge
    /\ AccessIsHeld
    /\ CodeScreenCompletable
=============================================================================

---------------------------- MODULE AccountAccess ----------------------------
(***************************************************************************)
(* Access to one account of the auth service: verification of its email,   *)
(* forgotten and changed passwords, logins, Google sign-ins, refresh       *)
(* tokens and logouts, one action per await of AuthService.  The OTPs they *)
(* rest on are OneTimePassword's.  Nothing relates two accounts here; how  *)
(* accounts come to be is UserRegistration's.                              *)
(***************************************************************************)
EXTENDS OneTimePassword

CONSTANTS Original,     \* the password the account was registered with
          CookieParser  \* does the app parse cookies?  app.js installs no parser

ASSUME OriginalAssumption == Original \notin Requests \union {None}
ASSUME CookieAssumption == CookieParser \in BOOLEAN

VARIABLES
    registered,  \* does the user exist?
    verified,    \* is_email_verified
    password,    \* the request that set the password, Original or None
    token        \* token[t]: the refresh token that the request t was given

accountVars == <<registered, verified, password>>
vars == <<requestVars, otpVars, expired, accountVars, token>>

IssueKinds == {"login", "google", "refresh"}
PasswordKinds == {"reset", "change"}
ProtectedKinds == {"sendChange", "change"}
AccountSteps == {"user", "verified", "password", "revokeAll"}
SessionSteps == {"hash", "google", "token", "rotate", "issue", "logout"}
Steps == SendSteps \union VerifySteps \union AccountSteps \union SessionSteps

TypeOK ==
    /\ OTPTypeOK
    /\ faults \subseteq FaultKinds
    /\ kind \in [Requests -> Kinds \union {"none"}]
    /\ pc \in [Requests -> {"idle", "done"} \union Steps]
    /\ answer \in [Requests -> Answers]
    /\ brings \in [Requests -> Requests \union {Original, None}]
    /\ before \in [Requests -> SUBSET Requests]
    /\ expired \subseteq Requests
    /\ registered \in BOOLEAN /\ verified \in BOOLEAN
    /\ password \in Requests \union {Original, None}
    /\ token \in [Requests -> {"none", "live", "revoked", "gone"}]

Init ==
    /\ OTPInit
    /\ faults \in SUBSET FaultKinds
    /\ kind \in [Requests -> Kinds \union {"none"}]
    /\ pc = [r \in Requests |-> "idle"]
    /\ answer = [r \in Requests |-> "none"]
    /\ brings = [r \in Requests |-> None]
    /\ before = [r \in Requests |-> {}]
    /\ expired = {}
    /\ registered \in BOOLEAN
    /\ verified = FALSE
    /\ password \in IF registered THEN {Original, None} ELSE {None}
    /\ token = [t \in Requests |-> "none"]
-----------------------------------------------------------------------------
\* The statement a route begins with.
First ==
    [k \in Kinds |->
        CASE k \in SendKinds \union {"change"} -> "user"
          [] k \in {"verify", "reset"} -> "record"
          [] k = "login" -> "hash"
          [] k = "google" -> "google"
          [] k = "refresh" -> "token"
          [] k = "logout" -> "logout"]

\* What a client can come with: an OTP of the address or a wrong one, a password
\* somebody chose, the refresh token of an answer.  A Google sign-in and the
\* sending of an OTP bring nothing.
CanBring(r) ==
    CASE kind[r] \in VerifyKinds -> mailed \union {None}
      [] kind[r] = "login" -> {Original} \union {c \in Requests : kind[c] \in PasswordKinds}
      [] kind[r] \in {"refresh", "logout"} ->
             {t \in Requests : kind[t] \in IssueKinds /\ answer[t] = "ok"} \union {None}
      [] OTHER -> {None}

\* The refresh token the controllers see, in req.cookies?.refreshToken.
RawToken(x) == IF CookieParser THEN x ELSE None

\* A request reaches its handler.  Without a refresh token refresh throws, of
\* all errors a ReferenceError, and logout has nothing to do; a protected
\* route may turn its access token away, whose 15 minutes are the client's.
Arrive(r) ==
    /\ pc[r] = "idle" /\ kind[r] # "none"
    /\ before' = [before EXCEPT ![r] = {s \in Requests : pc[s] = "done"}]
    /\ \E x \in CanBring(r) :
          LET missing == kind[r] \in {"refresh", "logout"} /\ RawToken(x) = None IN
          /\ brings' = [brings EXCEPT ![r] = x]
          /\ \/ /\ ~missing
                /\ pc' = [pc EXCEPT ![r] = First[kind[r]]]
                /\ UNCHANGED answer
             \/ /\ missing \/ kind[r] \in ProtectedKinds
                /\ pc' = [pc EXCEPT ![r] = "done"]
                /\ answer' = [answer EXCEPT ![r] = CASE kind[r] = "refresh" -> "error"
                                                     [] kind[r] = "logout" -> "ok"
                                                     [] OTHER -> "refused"]
    /\ UNCHANGED <<faults, kind, otpVars, expired, accountVars, token>>

\* The user an OTP is for.  sendForgotPasswordOTP does not tell if there is none.
FindUser(r) ==
    LET found == registered /\ ~(kind[r] = "sendVerify" /\ verified) IN
    /\ pc[r] = "user"
    /\ \/ found /\ Goto(r, IF kind[r] = "change" THEN "record" ELSE "delete")
       \/ ~found /\ Ends(r, IF kind[r] = "sendForgot" THEN "ok" ELSE "refused")
       \/ Fails(r)
    /\ UNCHANGED <<otpVars, expired, accountVars, token>>

\* verifyEmail, once the OTP is accepted.
SetVerified(r) ==
    /\ pc[r] = "verified"
    /\ \/ verified' = TRUE /\ (Ends(r, "ok") \/ Fails(r))
       \/ UNCHANGED verified /\ Fails(r)
    /\ UNCHANGED <<otpVars, expired, registered, password, token>>

\* Mutant: user.save() is not awaited, so nobody notices if it fails.
SavePasswordUnawaited(r) ==
    /\ pc[r] = "password"
    /\ \/ password' = r
       \/ "mongo" \in faults /\ UNCHANGED password
    /\ Goto(r, "revokeAll")
    /\ UNCHANGED <<otpVars, expired, registered, verified, token>>

\* resetPassword and changePassword, once the OTP is accepted: user.save().
\* There is a user, or there was no OTP.
SavePassword(r) ==
    /\ pc[r] = "password"
    /\ \/ password' = r /\ (Goto(r, "revokeAll") \/ Fails(r))
       \/ UNCHANGED password /\ Fails(r)
    /\ UNCHANGED <<otpVars, expired, registered, verified, token>>

LiveTokens == {t \in Requests : token[t] = "live"}
Revoke(T) == token' = [t \in Requests |-> IF t \in T THEN "revoked" ELSE token[t]]

\* Mutant: updateOne instead of updateMany.
RevokeOne(r) ==
    /\ pc[r] = "revokeAll"
    /\ \E T \in SUBSET LiveTokens :
          /\ Revoke(T)
          /\ Cardinality(T) <= 1
          /\ (T # {} \/ LiveTokens = {}) /\ Ends(r, "ok")
    /\ UNCHANGED <<otpVars, expired, accountVars>>

\* ... and updateMany, token by token, of the tokens of the user.
RevokeAll(r) ==
    /\ pc[r] = "revokeAll"
    /\ \E T \in SUBSET LiveTokens :
          /\ Revoke(T)
          /\ (T = LiveTokens /\ Ends(r, "ok")) \/ Fails(r)
    /\ UNCHANGED <<otpVars, expired, accountVars>>
-----------------------------------------------------------------------------
\* login: the user with its hash, then comparePassword, which takes long but
\* only sees what was read.
FindHash(r) ==
    LET valid == registered /\ password # None /\ brings[r] = password IN
    /\ pc[r] = "hash"
    /\ \/ valid /\ Goto(r, "issue")
       \/ ~valid /\ Ends(r, "refused")
       \/ Fails(r)
    /\ UNCHANGED <<otpVars, expired, accountVars, token>>

\* The Google strategy, in one step, finds or creates the user.
GoogleUser(r) ==
    /\ pc[r] = "google"
    /\ \/ registered' = TRUE /\ (Goto(r, "issue") \/ Fails(r))
       \/ UNCHANGED registered /\ Fails(r)
    /\ UNCHANGED <<otpVars, expired, verified, password, token>>

\* generateRefreshToken, and the answer with its cookie.
IssueToken(r) ==
    /\ pc[r] = "issue"
    /\ \/ token' = [token EXCEPT ![r] = "live"] /\ (Ends(r, "ok") \/ Fails(r))
       \/ UNCHANGED token /\ Fails(r)
    /\ UNCHANGED <<otpVars, expired, accountVars>>

\* refreshTokens: verifyRefreshToken, then the user, who cannot be missing.
FindToken(r) ==
    LET valid == token[brings[r]] = "live" /\ brings[r] \notin expired IN
    /\ pc[r] = "token"
    /\ \/ valid /\ Goto(r, "rotate")
       \/ ~valid /\ Ends(r, "refused")
       \/ Fails(r)
    /\ UNCHANGED <<otpVars, expired, accountVars, token>>

\* Mutant: the new pair is issued without waiting for stored.save().
RotateUnawaited(r) ==
    /\ pc[r] = "rotate"
    /\ Revoke({brings[r]}) \/ ("mongo" \in faults /\ UNCHANGED token)
    /\ Goto(r, "issue")
    /\ UNCHANGED <<otpVars, expired, accountVars>>

\* Mutant: the field of the other model, is_used, is set instead.
RotateUsed(r) ==
    LET t == brings[r] IN
    /\ pc[r] = "rotate"
    /\ token[t] # "gone"
    /\ token' = [token EXCEPT ![t] = "used"]
    /\ Goto(r, "issue")
    /\ UNCHANGED <<otpVars, expired, accountVars>>

\* "Rotate - revoke old token, issue new pair": stored.save(), which throws if
\* the token was purged.
RevokeOld(r) ==
    LET t == brings[r] IN
    /\ pc[r] = "rotate"
    /\ \/ token[t] # "gone" /\ Revoke({t}) /\ (Goto(r, "issue") \/ Fails(r))
       \/ UNCHANGED token /\ ((token[t] = "gone" /\ Ends(r, "error")) \/ Fails(r))
    /\ UNCHANGED <<otpVars, expired, accountVars>>

\* Mutant: findOneAndUpdate is not awaited, so nobody notices if it fails.
LogoutUnawaited(r) ==
    LET t == brings[r] IN
    /\ pc[r] = "logout"
    /\ \/ Revoke({t} \ {x \in Requests : token[x] = "gone"})
       \/ "mongo" \in faults /\ UNCHANGED token
    /\ Ends(r, "ok")
    /\ UNCHANGED <<otpVars, expired, accountVars>>

\* logout: findOneAndUpdate, whatever it finds.
Logout(r) ==
    LET t == brings[r] IN
    /\ pc[r] = "logout"
    /\ \/ Revoke({t} \ {x \in Requests : token[x] = "gone"}) /\ (Ends(r, "ok") \/ Fails(r))
       \/ UNCHANGED token /\ Fails(r)
    /\ UNCHANGED <<otpVars, expired, accountVars>>

\* Seven days are over; later the TTL index purges the token.
TokenExpires(t) ==
    /\ "expiry" \in faults
    /\ token[t] \in {"live", "revoked"}
    /\ t \notin expired
    /\ expired' = expired \union {t}
    /\ UNCHANGED <<requestVars, otpVars, accountVars, token>>

TokenPurged(t) ==
    /\ token[t] \in {"live", "revoked"}
    /\ t \in expired
    /\ token' = [token EXCEPT ![t] = "gone"]
    /\ UNCHANGED <<requestVars, otpVars, expired, accountVars>>
-----------------------------------------------------------------------------
\* The process dies, as it also does when Redis fails under protect, whose
\* promise nobody waits for: the requests it was at are lost.
Crash ==
    LET lost == {r \in Requests : pc[r] \notin {"idle", "done"}} IN
    /\ "crash" \in faults
    /\ lost # {}
    /\ pc' = [r \in Requests |-> IF r \in lost THEN "done" ELSE pc[r]]
    /\ answer' = [r \in Requests |-> IF r \in lost THEN "lost" ELSE answer[r]]
    /\ UNCHANGED <<faults, kind, brings, before, otpVars, expired, accountVars, token>>

\* Every request is over.
Finished ==
    /\ \A r \in Requests : pc[r] = "done" \/ kind[r] = "none"
    /\ UNCHANGED vars

RequestStep(r) ==
    \/ OTPStep(r) /\ UNCHANGED <<accountVars, token>>
    \/ FindUser(r) \/ SetVerified(r) \/ SavePassword(r) \/ RevokeAll(r)
    \/ FindHash(r) \/ GoogleUser(r) \/ IssueToken(r)
    \/ FindToken(r) \/ RevokeOld(r) \/ Logout(r)

Expiry(r) ==
    \/ (OTPExpires(r) \/ OTPPurged(r)) /\ UNCHANGED <<accountVars, token>>
    \/ TokenExpires(r) \/ TokenPurged(r)

Next ==
    \/ \E r \in Requests : Arrive(r) \/ RequestStep(r) \/ Expiry(r)
    \/ Crash \/ Finished

Spec == Init /\ [][Next]_vars
-----------------------------------------------------------------------------
\* The password is the original one or that of a request which came with an
\* OTP mailed to the user for that purpose, and the email is verified only by
\* such a request: whatever else runs, nothing else gets there.
ChangesNeedOTP ==
    LET approved(r) == /\ r \in passed /\ brings[r] = record[r]
                       /\ record[r] \in mailed /\ Purpose(record[r]) = Purpose(r)
    IN /\ password \in Requests => approved(password)
       /\ verified => \E r \in Requests : kind[r] = "verify" /\ approved(r)

\* The comment "Rotate - revoke old token, issue new pair": a refresh token is
\* exchanged for one new one; more can only go to overlapping requests that
\* all found it before the first of them revoked it.
RotatedOnce ==
    \A r, s \in Requests :
        /\ r # s
        /\ kind[r] = "refresh" /\ kind[s] = "refresh"
        /\ token[r] # "none" /\ token[s] # "none"
        /\ brings[r] = brings[s]
        => Overlap(r, s)

\* A change of the password that was answered with success.
Changed(c) == kind[c] \in PasswordKinds /\ answer[c] = "ok"

\* The comment "Revoke all refresh tokens - forces re-login on all devices":
\* after a change, no token works that was given out before the change began.
ChangeEndsSessions ==
    \A c, t \in Requests : Changed(c) /\ t \in before[c] => token[t] # "live"

\* And nobody logs in any more with a password the change has replaced,
\* although login compares with a hash it read some time ago.
OldPasswordRefused ==
    \A c, r \in Requests :
        /\ Changed(c) /\ c \in before[r]
        /\ kind[r] = "login" /\ token[r] # "none"
        => brings[r] # Original /\ brings[r] \notin before[c]

\* A logout that came with a refresh token and was answered with success.
LoggedOut(r) == kind[r] = "logout" /\ answer[r] = "ok" /\ RawToken(brings[r]) # None

\* What AuthService.logout is for: its token is never valid again, though a
\* refresh may be about to save the same token, and no refresh that begins
\* later gets a new pair for it.
LogoutEndsSession ==
    \A r \in Requests : LoggedOut(r) =>
        /\ token[brings[r]] # "live"
        /\ \A s \in Requests :
               kind[s] = "refresh" /\ brings[s] = brings[r] /\ r \in before[s] => token[s] = "none"
-----------------------------------------------------------------------------
\* What the documentation says, and the code does not do.

\* README "POST /auth/logout: Invalidate refresh token", from the cookie.
LogoutInvalidates ==
    \A r \in Requests :
        kind[r] = "logout" /\ answer[r] = "ok" /\ brings[r] # None => token[brings[r]] # "live"
=============================================================================

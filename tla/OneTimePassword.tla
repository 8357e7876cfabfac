--------------------------- MODULE OneTimePassword ---------------------------
(***************************************************************************)
(* The one-time passwords of one email address: AuthService._sendOTP and   *)
(* _verifyOTP, one action per await, over MongoDB's collection of OTPs.    *)
(* Requests overlap freely and each is handled once; statements and emails *)
(* fail, the process dies, OTPs expire and are purged.  What a request     *)
(* does before and after its OTP is in AccountAccess.                      *)
(***************************************************************************)
EXTENDS Naturals, FiniteSets

CONSTANTS Requests,     \* requests; an OTP, a token or a password is named by its own
          MaxAttempts,  \* the attempts an OTP allows (3)
          None          \* nothing, or something wrong

ASSUME AttemptsAssumption == MaxAttempts \in Nat
ASSUME NoneAssumption == None \notin Requests

VARIABLES
    faults,    \* what goes wrong in this behaviour; never changes
    kind,      \* kind[r]: the route r is for; "none" if r is never made
    pc,        \* pc[r]: the statement r runs next
    answer,    \* answer[r]: what the client of r was told
    brings,    \* brings[r]: the OTP, the password or the cookie r comes with
    otp,       \* otp[o]: the OTP the request o made
    attempts,  \* attempts[o]: the attempts stored with it
    mailed,    \* the OTPs that reached their user
    record,    \* record[r]: the OTP that r read ...
    count,     \* count[r]: ... and its attempts, in memory
    expired,   \* the OTPs and refresh tokens past their expires_at
    passed,    \* history: the requests that marked their OTP as used
    before     \* history: before[r], the requests that ended before r began

requestVars == <<faults, kind, pc, answer, brings, before>>
otpVars == <<otp, attempts, mailed, record, count, passed>>

SendKinds == {"sendVerify", "sendForgot", "sendChange"}
VerifyKinds == {"verify", "reset", "change"}
SessionKinds == {"login", "google", "refresh", "logout"}
Kinds == SendKinds \union VerifyKinds \union SessionKinds

\* The purpose an OTP is made for, or looked up with.
PurposeOf(k) ==
    CASE k \in {"sendVerify", "verify"} -> "verify_email"
      [] k \in {"sendForgot", "reset"} -> "forgot_password"
      [] k \in {"sendChange", "change"} -> "change_password"
      [] OTHER -> "none"
Purpose(r) == PurposeOf(kind[r])

FaultKinds == {"mongo", "mail", "crash", "expiry"}
Answers == {"none", "ok", "refused", "error", "lost"}
SendSteps == {"delete", "create", "mail"}
VerifySteps == {"record", "save", "drop", "mark"}

OTPTypeOK ==
    /\ otp \in [Requests -> {"none", "unused", "used", "gone"}]
    /\ attempts \in [Requests -> Nat]
    /\ mailed \subseteq Requests
    /\ record \in [Requests -> Requests \union {None}]
    /\ count \in [Requests -> Nat]
    /\ passed \subseteq Requests

OTPInit ==
    /\ otp = [o \in Requests |-> "none"]
    /\ attempts = [o \in Requests |-> 0]
    /\ mailed = {}
    /\ record = [r \in Requests |-> None]
    /\ count = [r \in Requests |-> 0]
    /\ passed = {}
-----------------------------------------------------------------------------
Goto(r, label) == pc' = [pc EXCEPT ![r] = label] /\ UNCHANGED <<faults, kind, answer, brings, before>>
Ends(r, what) ==
    /\ pc' = [pc EXCEPT ![r] = "done"]
    /\ answer' = [answer EXCEPT ![r] = what]
    /\ UNCHANGED <<faults, kind, brings, before>>

\* A statement of MongoDB threw; it has taken effect or never will.
Fails(r) == "mongo" \in faults /\ Ends(r, "error")

Unused(purpose) == {o \in Requests : otp[o] = "unused" /\ Purpose(o) = purpose}
Stored(o) == otp[o] \in {"unused", "used"}

\* Mutant: the filter of deleteMany asks for an exhausted OTP, not an unused one.
DeleteExhausted(r) ==
    /\ pc[r] = "delete"
    /\ otp' = [o \in Requests |->
                  IF o \in Unused(Purpose(r)) /\ attempts[o] > MaxAttempts THEN "gone" ELSE otp[o]]
    /\ Goto(r, "create") \/ Fails(r)
    /\ UNCHANGED <<attempts, mailed, record, count, passed, expired>>

\* _sendOTP: deleteMany, of the unused OTPs of the purpose.  It deletes them
\* one by one, so it may fail half way.
DeleteUnused(r) ==
    /\ pc[r] = "delete"
    /\ \E D \in SUBSET Unused(Purpose(r)) :
          /\ otp' = [o \in Requests |-> IF o \in D THEN "gone" ELSE otp[o]]
          /\ (D = Unused(Purpose(r)) /\ Goto(r, "create")) \/ Fails(r)
    /\ UNCHANGED <<attempts, mailed, record, count, passed, expired>>

CreateOTP(r) ==
    /\ pc[r] = "create"
    /\ \/ /\ otp' = [otp EXCEPT ![r] = "unused"]
          /\ Goto(r, "mail") \/ Fails(r)
       \/ Fails(r) /\ UNCHANGED otp
    /\ UNCHANGED <<attempts, mailed, record, count, passed, expired>>

\* sendOTPEmail; the OTP stays whether or not it reaches anybody.
MailOTP(r) ==
    /\ pc[r] = "mail"
    /\ \/ /\ mailed' = mailed \union {r}
          /\ Ends(r, "ok")
       \/ /\ "mail" \in faults
          /\ mailed' \in {mailed, mailed \union {r}}
          /\ Ends(r, "error")
    /\ UNCHANGED <<otp, attempts, record, count, passed, expired>>
-----------------------------------------------------------------------------
\* Mutant: the lookup ignores the purpose.
FindableForAny(r) == {o \in Requests : otp[o] = "unused" /\ o \notin expired}

Findable(r) == Unused(Purpose(r)) \ expired

\* _verifyOTP: findOne, of any OTP that fits; then attempts += 1, in memory.
FindRecord(r) ==
    /\ pc[r] = "record"
    /\ \/ \E o \in Findable(r) :
             /\ record' = [record EXCEPT ![r] = o]
             /\ count' = [count EXCEPT ![r] = attempts[o] + 1]
             /\ Goto(r, "save")
       \/ /\ (Findable(r) = {} /\ Ends(r, "refused")) \/ Fails(r)
          /\ UNCHANGED <<record, count>>
    /\ UNCHANGED <<otp, attempts, mailed, passed, expired>>

\* Mutant: the attempts are only stored with the OTP that is accepted.
SaveNoAttempt(r) ==
    /\ pc[r] = "save"
    /\ \/ count[r] > MaxAttempts /\ Goto(r, "drop")
       \/ count[r] <= MaxAttempts /\ brings[r] # record[r] /\ Ends(r, "refused")
       \/ count[r] <= MaxAttempts /\ brings[r] = record[r] /\ Goto(r, "mark")
    /\ UNCHANGED <<otp, attempts, mailed, record, count, passed, expired>>

\* record.save() sets the attempts, or throws if the record is gone; then the
\* limit, and the comparison with the OTP that was brought.
SaveAttempt(r) ==
    LET o == record[r] IN
    /\ pc[r] = "save"
    /\ \/ /\ Stored(o)
          /\ attempts' = [attempts EXCEPT ![o] = count[r]]
          /\ \/ count[r] > MaxAttempts /\ Goto(r, "drop")
             \/ count[r] <= MaxAttempts /\ brings[r] # o /\ Ends(r, "refused")
             \/ count[r] <= MaxAttempts /\ brings[r] = o /\ Goto(r, "mark")
             \/ Fails(r)
       \/ /\ (~Stored(o) /\ Ends(r, "error")) \/ Fails(r)
          /\ UNCHANGED attempts
    /\ UNCHANGED <<otp, mailed, record, count, passed, expired>>

\* Too many attempts: deleteOne, and the request is refused.
DropRecord(r) ==
    LET o == record[r] IN
    /\ pc[r] = "drop"
    /\ \/ /\ otp' = [otp EXCEPT ![o] = "gone"]
          /\ Ends(r, "refused") \/ Fails(r)
       \/ Fails(r) /\ UNCHANGED otp
    /\ UNCHANGED <<attempts, mailed, record, count, passed, expired>>

\* Where verifyEmail, resetPassword and changePassword go on.
AfterOTP == [verify |-> "verified", reset |-> "password", change |-> "password"]

\* Mutant: an OTP that is accepted gets its attempts back and is not marked.
ForgiveAttempts(r) ==
    /\ pc[r] = "mark"
    /\ attempts' = [attempts EXCEPT ![record[r]] = 0]
    /\ passed' = passed \union {r}
    /\ Goto(r, AfterOTP[kind[r]])
    /\ UNCHANGED <<otp, mailed, record, count, expired>>

\* record.save() sets is_used, whoever has set it since the record was read.
MarkUsed(r) ==
    LET o == record[r] IN
    /\ pc[r] = "mark"
    /\ \/ /\ Stored(o)
          /\ otp' = [otp EXCEPT ![o] = "used"]
          /\ passed' = passed \union {r}
          /\ Goto(r, AfterOTP[kind[r]]) \/ Fails(r)
       \/ /\ (~Stored(o) /\ Ends(r, "error")) \/ Fails(r)
          /\ UNCHANGED <<otp, passed>>
    /\ UNCHANGED <<attempts, mailed, record, count, expired>>

OTPStep(r) ==
    \/ DeleteUnused(r) \/ CreateOTP(r) \/ MailOTP(r)
    \/ FindRecord(r) \/ SaveAttempt(r) \/ DropRecord(r) \/ MarkUsed(r)

\* Ten minutes are over; later the TTL index purges the OTP.
OTPExpires(o) ==
    /\ "expiry" \in faults
    /\ Stored(o)
    /\ o \notin expired
    /\ expired' = expired \union {o}
    /\ UNCHANGED <<requestVars, otpVars>>

OTPPurged(o) ==
    /\ Stored(o)
    /\ o \in expired
    /\ otp' = [otp EXCEPT ![o] = "gone"]
    /\ UNCHANGED <<requestVars, attempts, mailed, record, count, passed, expired>>
-----------------------------------------------------------------------------
\* Neither of two requests ended before the other began.
Overlap(r, s) == r \notin before[s] /\ s \notin before[r]

\* The comment "Invalidate any existing unused OTP for same email+purpose", as
\* far as deleteMany and create, two awaits, can keep it: two OTPs of a
\* purpose can only both be valid if they were sent by overlapping requests.
OneValidOTP ==
    \A o, p \in Requests :
        o # p /\ otp[o] = "unused" /\ otp[p] = "unused" /\ Purpose(o) = Purpose(p) => Overlap(o, p)

\* An OTP is good for one request: others it is accepted from can only be
\* those that read it before the first one marked it as used.
AcceptedOnce ==
    \A r, s \in passed : r # s /\ record[r] = record[s] => Overlap(r, s)

\* The requests whose OTP was compared with the OTP o.
Tries(o) ==
    {r \in Requests : record[r] = o /\ count[r] <= MaxAttempts
                      /\ pc[r] # "save" /\ answer[r] \notin {"error", "lost"}}

\* The comment "Increment attempts - prevent brute force": while the requests
\* that read an OTP come one after the other, no more than MaxAttempts of them
\* are compared with it, whatever fails on the way and whatever else runs.
AttemptsLimited ==
    \A o \in Requests :
        (\A r, s \in Requests : r # s /\ record[r] = o /\ record[s] = o => ~Overlap(r, s))
            => Cardinality(Tries(o)) <= MaxAttempts
=============================================================================

------------------------ MODULE AccountAccessProofs ------------------------
(***************************************************************************)
(* Proofs about AccountAccess for any requests, workloads, faults and      *)
(* limit of attempts: types, what a step can do, and the sessions.         *)
(***************************************************************************)
EXTENDS AccountAccess, TLAPS

\* What a request of a kind may be doing.
StageOK(k, step) ==
    /\ step \in SendSteps => k \in SendKinds
    /\ step \in VerifySteps => k \in VerifyKinds
    /\ step = "user" => k \in SendKinds \union {"change"}
    /\ step = "verified" => k = "verify"
    /\ step \in {"password", "revokeAll"} => k \in PasswordKinds
    /\ step = "hash" => k = "login"
    /\ step = "google" => k = "google"
    /\ step \in {"token", "rotate"} => k = "refresh"
    /\ step = "issue" => k \in IssueKinds
    /\ step = "logout" => k = "logout"

\* Requests do what their kind does, look at an OTP once they have read one,
\* and refresh or leave a session with a token.
StageInv ==
    \A r \in Requests :
        /\ kind[r] = "none" => pc[r] = "idle"
        /\ StageOK(kind[r], pc[r])
        /\ pc[r] \in {"save", "drop", "mark"} => record[r] \in Requests
        /\ pc[r] \in {"token", "rotate", "logout"} => brings[r] \in Requests
        /\ kind[r] = "refresh" /\ pc[r] = "issue" => brings[r] \in Requests

TypeInv == TypeOK /\ StageInv

\* What ended before a request began is over, and the request has begun.
OrderInv ==
    \A r, s \in Requests : s \in before[r] => pc[s] = "done" /\ pc[r] # "idle"

\* An answer is the end of a request.
AnswerInv == \A r \in Requests : pc[r] # "done" => answer[r] = "none"

\* A token belongs to a request that is over.  What is brought as a token is
\* one, and what was exchanged for another is not valid any more.
SessionInv ==
    \A r \in Requests :
        /\ token[r] # "none" => pc[r] = "done"
        /\ answer[r] = "ok" /\ kind[r] \in IssueKinds => token[r] # "none"
        /\ pc[r] \in {"token", "rotate", "logout"} => token[brings[r]] # "none"
        /\ kind[r] = "refresh" /\ (pc[r] = "issue" \/ token[r] # "none") =>
               brings[r] \in Requests /\ token[brings[r]] \in {"revoked", "gone"}

\* Tokens, answers and the order of requests fit together.
BaseInv == TypeInv /\ OrderInv /\ AnswerInv /\ SessionInv

\* A refresh that began after another had exchanged the token gets none.
RotationInv ==
    \A r, s \in Requests :
        /\ r \in before[s]
        /\ kind[r] = "refresh" /\ kind[s] = "refresh"
        /\ brings[r] = brings[s]
        /\ token[r] # "none"
        => token[s] = "none" /\ pc[s] \notin {"rotate", "issue"}

\* After a logout its token is revoked or purged, and a refresh that began
\* later has not come past its lookup.
LogoutInv ==
    \A r \in Requests : LoggedOut(r) =>
        /\ brings[r] \in Requests /\ token[brings[r]] \in {"revoked", "gone"}
        /\ \A s \in Requests :
               /\ kind[s] = "refresh" /\ brings[s] = brings[r] /\ r \in before[s]
               => token[s] = "none" /\ pc[s] \notin {"rotate", "issue"}

\* After a change the password is that of no earlier request, and only such a
\* password was compared with what a later login brings.
PasswordInv ==
    /\ \A c \in Requests :
          pc[c] = "revokeAll" \/ Changed(c) => password \in Requests \ before[c]
    /\ \A c, r \in Requests :
          /\ Changed(c) /\ c \in before[r]
          /\ kind[r] = "login" /\ (pc[r] = "issue" \/ token[r] # "none")
          => brings[r] \in Requests \ before[c]
-----------------------------------------------------------------------------
\* A route begins with a statement of its own.
LEMMA FirstFacts ==
    \A k \in Kinds : /\ First[k] \in {"user", "record", "hash", "google", "token", "logout"}
                     /\ StageOK(k, First[k])
  BY DEF First, Kinds, SendKinds, VerifyKinds, SessionKinds, StageOK, SendSteps,
     VerifySteps,
         PasswordKinds, IssueKinds

\* Where a request goes on after its OTP.
LEMMA AfterFacts ==
    \A k \in VerifyKinds : AfterOTP[k] \in {"verified", "password"} /\ StageOK(k, AfterOTP[k])
  BY DEF AfterOTP, VerifyKinds, StageOK, SendSteps, VerifySteps, PasswordKinds

\* What a client can bring, and a request that needs a token brings one.
LEMMA BringFacts ==
    ASSUME TypeOK, NEW r \in Requests, NEW x \in CanBring(r)
    PROVE  /\ x \in Requests \union {Original, None}
           /\ RawToken(x) # None => RawToken(x) = x
           /\ kind[r] \in {"refresh", "logout"} /\ RawToken(x) # None =>
                  x \in Requests /\ kind[x] \in IssueKinds /\ answer[x] = "ok"
           /\ kind[r] \in VerifyKinds => x \in mailed \union {None}
  BY DEF CanBring, RawToken, TypeOK, OTPTypeOK, VerifyKinds

\* The initial state has its types, and no request has begun.
LEMMA TypeInit == Init => TypeInv
<1> SUFFICES ASSUME Init PROVE TypeInv
  OBVIOUS
<1>1. TypeOK
  <2>1. OTPTypeOK
    BY DEF Init, OTPInit, OTPTypeOK
  <2>2. password \in Requests \union {Original, None}
    BY DEF Init
  <2> QED
    BY <2>1, <2>2 DEF Init, TypeOK, Answers
<1>2. StageInv
  BY DEF Init, StageInv, StageOK, SendSteps, VerifySteps
<1> QED
  BY <1>1, <1>2 DEF TypeInv

\* Every step keeps the types.
LEMMA TypeStep ==
    ASSUME TypeInv, [Next]_vars
    PROVE  TypeOK'
<1> USE DEF TypeInv, TypeOK, OTPTypeOK, Goto, Ends, Fails, Answers
<1> USE DEF Steps, SendSteps, VerifySteps, AccountSteps, SessionSteps
<1>1. CASE \E r \in Requests : Arrive(r)
  BY <1>1, FirstFacts, BringFacts DEF Arrive, requestVars, accountVars, otpVars, Kinds
<1>2. CASE \E r \in Requests : DeleteUnused(r) /\ UNCHANGED <<accountVars, token>>
  BY <1>2 DEF DeleteUnused, accountVars
<1>3. CASE \E r \in Requests : CreateOTP(r) /\ UNCHANGED <<accountVars, token>>
  BY <1>3 DEF CreateOTP, accountVars
<1>4. CASE \E r \in Requests : MailOTP(r) /\ UNCHANGED <<accountVars, token>>
  BY <1>4 DEF MailOTP, accountVars
<1>5. CASE \E r \in Requests : FindRecord(r) /\ UNCHANGED <<accountVars, token>>
  BY <1>5 DEF FindRecord, accountVars, Findable, Unused
<1>6. CASE \E r \in Requests : SaveAttempt(r) /\ UNCHANGED <<accountVars, token>>
  BY <1>6 DEF SaveAttempt, accountVars, StageInv
<1>7. CASE \E r \in Requests : DropRecord(r) /\ UNCHANGED <<accountVars, token>>
  BY <1>7 DEF DropRecord, accountVars
<1>8. CASE \E r \in Requests : MarkUsed(r) /\ UNCHANGED <<accountVars, token>>
  <2> PICK r \in Requests : MarkUsed(r) /\ UNCHANGED <<accountVars, token>>
    BY <1>8
  <2>1. kind[r] \in VerifyKinds
    BY DEF MarkUsed, StageInv, StageOK
  <2>2. AfterOTP[kind[r]] \in Steps
    BY <2>1, AfterFacts
  <2> QED
    BY <2>2 DEF MarkUsed, accountVars
<1>9. CASE \E r \in Requests : FindUser(r)
  BY <1>9 DEF FindUser, accountVars, otpVars
<1>10. CASE \E r \in Requests : SetVerified(r)
  <2>1. verified' \in BOOLEAN /\ registered' = registered
    BY <1>10, Zenon DEF SetVerified
  <2> QED
    BY <1>10, <2>1 DEF SetVerified, accountVars, otpVars
<1>11. CASE \E r \in Requests : SavePassword(r)
  BY <1>11 DEF SavePassword, accountVars, otpVars
<1>12. CASE \E r \in Requests : RevokeAll(r)
  BY <1>12 DEF RevokeAll, accountVars, otpVars, Revoke
<1>13. CASE \E r \in Requests : FindHash(r)
  BY <1>13 DEF FindHash, accountVars, otpVars
<1>14. CASE \E r \in Requests : GoogleUser(r)
  <2>1. registered' \in BOOLEAN /\ verified' = verified
    BY <1>14, Zenon DEF GoogleUser
  <2> QED
    BY <1>14, <2>1 DEF GoogleUser, accountVars, otpVars
<1>15. CASE \E r \in Requests : IssueToken(r)
  BY <1>15 DEF IssueToken, accountVars, otpVars
<1>16. CASE \E r \in Requests : FindToken(r)
  BY <1>16 DEF FindToken, accountVars, otpVars
<1>17. CASE \E r \in Requests : RevokeOld(r)
  BY <1>17 DEF RevokeOld, accountVars, otpVars, Revoke
<1>18. CASE \E r \in Requests : Logout(r)
  BY <1>18 DEF Logout, accountVars, otpVars, Revoke
<1>19. CASE \E r \in Requests : Expiry(r)
  BY <1>19 DEF Expiry, OTPExpires, OTPPurged, TokenExpires, TokenPurged, requestVars,
     accountVars, otpVars
<1>20. CASE Crash
  BY <1>20 DEF Crash, accountVars, otpVars
<1>21. CASE UNCHANGED vars
  BY <1>21 DEF vars, requestVars, accountVars, otpVars
<1> QED
  BY <1>1, <1>2, <1>3, <1>4, <1>5, <1>6, <1>7, <1>8, <1>9, <1>10, <1>11, <1>12, <1>13,
     <1>14, <1>15, <1>16, <1>17, <1>18, <1>19, <1>20, <1>21 DEF Next, RequestStep,
     OTPStep, Finished

\* Requests go through the statements of their kind.
LEMMA StageStep ==
    ASSUME TypeInv, [Next]_vars
    PROVE  StageInv'
<1> USE DEF TypeInv, TypeOK, OTPTypeOK, StageInv, StageOK, Goto, Ends, Fails
<1> USE DEF SendSteps, VerifySteps, SendKinds, VerifyKinds, PasswordKinds, IssueKinds
<1>1. CASE \E r \in Requests : Arrive(r)
  BY <1>1, FirstFacts, BringFacts DEF Arrive, requestVars, accountVars, otpVars
<1>2. CASE \E r \in Requests : DeleteUnused(r) /\ UNCHANGED <<accountVars, token>>
  BY <1>2 DEF DeleteUnused, accountVars
<1>3. CASE \E r \in Requests : CreateOTP(r) /\ UNCHANGED <<accountVars, token>>
  BY <1>3 DEF CreateOTP, accountVars
<1>4. CASE \E r \in Requests : MailOTP(r) /\ UNCHANGED <<accountVars, token>>
  BY <1>4 DEF MailOTP, accountVars
<1>5. CASE \E r \in Requests : FindRecord(r) /\ UNCHANGED <<accountVars, token>>
  BY <1>5 DEF FindRecord, accountVars, Findable, Unused
<1>6. CASE \E r \in Requests : SaveAttempt(r) /\ UNCHANGED <<accountVars, token>>
  BY <1>6 DEF SaveAttempt, accountVars
<1>7. CASE \E r \in Requests : DropRecord(r) /\ UNCHANGED <<accountVars, token>>
  BY <1>7 DEF DropRecord, accountVars
<1>8. CASE \E r \in Requests : MarkUsed(r) /\ UNCHANGED <<accountVars, token>>
  BY <1>8 DEF MarkUsed, accountVars, AfterOTP
<1>9. CASE \E r \in Requests : FindUser(r)
  BY <1>9 DEF FindUser, accountVars, otpVars
<1>10. CASE \E r \in Requests : SetVerified(r)
  BY <1>10 DEF SetVerified, accountVars, otpVars
<1>11. CASE \E r \in Requests : SavePassword(r)
  BY <1>11 DEF SavePassword, accountVars, otpVars
<1>12. CASE \E r \in Requests : RevokeAll(r)
  BY <1>12 DEF RevokeAll, accountVars, otpVars
<1>13. CASE \E r \in Requests : FindHash(r)
  BY <1>13 DEF FindHash, accountVars, otpVars
<1>14. CASE \E r \in Requests : GoogleUser(r)
  BY <1>14 DEF GoogleUser, accountVars, otpVars
<1>15. CASE \E r \in Requests : IssueToken(r)
  BY <1>15 DEF IssueToken, accountVars, otpVars
<1>16. CASE \E r \in Requests : FindToken(r)
  BY <1>16 DEF FindToken, accountVars, otpVars
<1>17. CASE \E r \in Requests : RevokeOld(r)
  BY <1>17 DEF RevokeOld, accountVars, otpVars
<1>18. CASE \E r \in Requests : Logout(r)
  BY <1>18 DEF Logout, accountVars, otpVars
<1>19. CASE \E r \in Requests : Expiry(r)
  BY <1>19 DEF Expiry, OTPExpires, OTPPurged, TokenExpires, TokenPurged, requestVars,
     accountVars, otpVars
<1>20. CASE Crash
  BY <1>20 DEF Crash, accountVars, otpVars
<1>21. CASE UNCHANGED vars
  BY <1>21 DEF vars, requestVars, accountVars, otpVars
<1> QED
  BY <1>1, <1>2, <1>3, <1>4, <1>5, <1>6, <1>7, <1>8, <1>9, <1>10, <1>11, <1>12, <1>13,
     <1>14, <1>15, <1>16, <1>17, <1>18, <1>19, <1>20, <1>21 DEF Next, RequestStep,
     OTPStep, Finished

\* Every variable has its type, always.
LEMMA TypeInvariant == Spec => []TypeInv
<1>1. TypeInv /\ [Next]_vars => TypeInv'
  BY TypeStep, StageStep DEF TypeInv
<1> QED
  BY TypeInit, <1>1, PTL DEF Spec

\* The state of the auth service keeps its type, whatever the requests are.
THEOREM TypeCorrect == Spec => []TypeOK
<1>1. TypeInv => TypeOK
  BY DEF TypeInv
<1> QED
  BY <1>1, TypeInvariant, PTL
-----------------------------------------------------------------------------
\* A request begins once, after all that is over, and ends once, with its answer.
LEMMA OrderStep ==
    ASSUME TypeInv, [Next]_vars
    PROVE  \A r \in Requests :
               /\ kind'[r] = kind[r]
               /\ pc[r] = "done" => pc'[r] = "done" /\ answer'[r] = answer[r]
               /\ pc[r] # "idle" => /\ pc'[r] # "idle"
                                    /\ brings'[r] = brings[r] /\ before'[r] = before[r]
               /\ pc'[r] = "done" \/ answer'[r] = answer[r]
               /\ \/ before'[r] = before[r]
                  \/ /\ pc[r] = "idle" /\ pc'[r] # "idle"
                     /\ before'[r] = {s \in Requests : pc[s] = "done"}
<1> USE DEF TypeInv, TypeOK, OTPTypeOK, Goto, Ends, Fails
<1>1. CASE \E r \in Requests : Arrive(r)
  BY <1>1, FirstFacts DEF Arrive, requestVars, accountVars, otpVars
<1>2. CASE \E r \in Requests : DeleteUnused(r) /\ UNCHANGED <<accountVars, token>>
  BY <1>2 DEF DeleteUnused, accountVars
<1>3. CASE \E r \in Requests : CreateOTP(r) /\ UNCHANGED <<accountVars, token>>
  BY <1>3 DEF CreateOTP, accountVars
<1>4. CASE \E r \in Requests : MailOTP(r) /\ UNCHANGED <<accountVars, token>>
  BY <1>4 DEF MailOTP, accountVars
<1>5. CASE \E r \in Requests : FindRecord(r) /\ UNCHANGED <<accountVars, token>>
  BY <1>5 DEF FindRecord, accountVars
<1>6. CASE \E r \in Requests : SaveAttempt(r) /\ UNCHANGED <<accountVars, token>>
  BY <1>6 DEF SaveAttempt, accountVars
<1>7. CASE \E r \in Requests : DropRecord(r) /\ UNCHANGED <<accountVars, token>>
  BY <1>7 DEF DropRecord, accountVars
<1>8. CASE \E r \in Requests : MarkUsed(r) /\ UNCHANGED <<accountVars, token>>
  BY <1>8, AfterFacts DEF MarkUsed, accountVars, StageInv, StageOK, VerifySteps
<1>9. CASE \E r \in Requests : FindUser(r)
  BY <1>9 DEF FindUser, accountVars, otpVars
<1>10. CASE \E r \in Requests : SetVerified(r)
  BY <1>10 DEF SetVerified, accountVars, otpVars
<1>11. CASE \E r \in Requests : SavePassword(r)
  BY <1>11 DEF SavePassword, accountVars, otpVars
<1>12. CASE \E r \in Requests : RevokeAll(r)
  BY <1>12 DEF RevokeAll, accountVars, otpVars
<1>13. CASE \E r \in Requests : FindHash(r)
  BY <1>13 DEF FindHash, accountVars, otpVars
<1>14. CASE \E r \in Requests : GoogleUser(r)
  BY <1>14 DEF GoogleUser, accountVars, otpVars
<1>15. CASE \E r \in Requests : IssueToken(r)
  BY <1>15 DEF IssueToken, accountVars, otpVars
<1>16. CASE \E r \in Requests : FindToken(r)
  BY <1>16 DEF FindToken, accountVars, otpVars
<1>17. CASE \E r \in Requests : RevokeOld(r)
  BY <1>17 DEF RevokeOld, accountVars, otpVars
<1>18. CASE \E r \in Requests : Logout(r)
  BY <1>18 DEF Logout, accountVars, otpVars
<1>19. CASE \E r \in Requests : Expiry(r)
  BY <1>19 DEF Expiry, OTPExpires, OTPPurged, TokenExpires, TokenPurged, requestVars,
     accountVars, otpVars
<1>20. CASE Crash
  BY <1>20 DEF Crash, accountVars, otpVars
<1>21. CASE UNCHANGED vars
  BY <1>21 DEF vars, requestVars, accountVars, otpVars
<1> QED
  BY <1>1, <1>2, <1>3, <1>4, <1>5, <1>6, <1>7, <1>8, <1>9, <1>10, <1>11, <1>12, <1>13,
     <1>14, <1>15, <1>16, <1>17, <1>18, <1>19, <1>20, <1>21 DEF Next, RequestStep,
     OTPStep, Finished

\* Tokens are issued, revoked and purged, and never come back; a refresh begins
\* with a valid one, and a changed password leaves none.
LEMMA SessionStep ==
    ASSUME TypeInv, SessionInv, [Next]_vars
    PROVE  /\ SessionInv'
           /\ \A r \in Requests :
                 /\ token'[r] = "live" => token[r] = "live" \/ pc[r] = "issue"
                 /\ token'[r] # "none" => token[r] # "none" \/ pc[r] = "issue"
                 /\ pc'[r] = "rotate" => \/ pc[r] = "rotate"
                                         \/ pc[r] = "token" /\ token[brings[r]] = "live"
                 /\ pc'[r] = "issue" /\ kind[r] = "refresh" => pc[r] \in {"rotate", "issue"}
                 /\ answer'[r] = "ok" /\ kind[r] \in PasswordKinds =>
                       \/ answer[r] = "ok"
                       \/ pc[r] = "revokeAll" /\ \A t \in Requests : token'[t] # "live"
                 /\ answer'[r] = "ok" /\ kind[r] = "logout" =>
                       \/ answer[r] = "ok"
                       \/ pc[r] = "logout" /\ token'[brings[r]] # "live"
                       \/ pc[r] = "idle" /\ RawToken(brings'[r]) = None
                 /\ token[r] # "none" => token'[r] # "none"
<1> USE DEF TypeInv, TypeOK, OTPTypeOK, StageInv, StageOK, SessionInv, Goto, Ends, Fails
<1> USE DEF SendSteps, VerifySteps, SendKinds, VerifyKinds, PasswordKinds, IssueKinds
<1>1. CASE \E r \in Requests : Arrive(r)
  BY <1>1, FirstFacts, BringFacts DEF Arrive, requestVars, accountVars, otpVars,
     SessionKinds, Kinds, ProtectedKinds
<1>2. CASE \E r \in Requests : DeleteUnused(r) /\ UNCHANGED <<accountVars, token>>
  BY <1>2 DEF DeleteUnused, accountVars
<1>3. CASE \E r \in Requests : CreateOTP(r) /\ UNCHANGED <<accountVars, token>>
  BY <1>3 DEF CreateOTP, accountVars
<1>4. CASE \E r \in Requests : MailOTP(r) /\ UNCHANGED <<accountVars, token>>
  BY <1>4 DEF MailOTP, accountVars
<1>5. CASE \E r \in Requests : FindRecord(r) /\ UNCHANGED <<accountVars, token>>
  BY <1>5 DEF FindRecord, accountVars
<1>6. CASE \E r \in Requests : SaveAttempt(r) /\ UNCHANGED <<accountVars, token>>
  BY <1>6 DEF SaveAttempt, accountVars
<1>7. CASE \E r \in Requests : DropRecord(r) /\ UNCHANGED <<accountVars, token>>
  BY <1>7 DEF DropRecord, accountVars
<1>8. CASE \E r \in Requests : MarkUsed(r) /\ UNCHANGED <<accountVars, token>>
  BY <1>8, AfterFacts DEF MarkUsed, accountVars
<1>9. CASE \E r \in Requests : FindUser(r)
  BY <1>9 DEF FindUser, accountVars, otpVars
<1>10. CASE \E r \in Requests : SetVerified(r)
  BY <1>10 DEF SetVerified, accountVars, otpVars
<1>11. CASE \E r \in Requests : SavePassword(r)
  BY <1>11 DEF SavePassword, accountVars, otpVars
<1>12. CASE \E r \in Requests : RevokeAll(r)
  BY <1>12 DEF RevokeAll, accountVars, otpVars, Revoke, LiveTokens
<1>13. CASE \E r \in Requests : FindHash(r)
  BY <1>13 DEF FindHash, accountVars, otpVars
<1>14. CASE \E r \in Requests : GoogleUser(r)
  BY <1>14 DEF GoogleUser, accountVars, otpVars
<1>15. CASE \E r \in Requests : IssueToken(r)
  BY <1>15 DEF IssueToken, accountVars, otpVars
<1>16. CASE \E r \in Requests : FindToken(r)
  BY <1>16 DEF FindToken, accountVars, otpVars
<1>17. CASE \E r \in Requests : RevokeOld(r)
  BY <1>17 DEF RevokeOld, accountVars, otpVars, Revoke
<1>18. CASE \E r \in Requests : Logout(r)
  BY <1>18 DEF Logout, accountVars, otpVars, Revoke
<1>19. CASE \E r \in Requests : Expiry(r)
  BY <1>19 DEF Expiry, OTPExpires, OTPPurged, TokenExpires, TokenPurged, requestVars,
     accountVars, otpVars
<1>20. CASE Crash
  BY <1>20 DEF Crash, accountVars, otpVars
<1>21. CASE UNCHANGED vars
  BY <1>21 DEF vars, requestVars, accountVars, otpVars
<1> QED
  BY <1>1, <1>2, <1>3, <1>4, <1>5, <1>6, <1>7, <1>8, <1>9, <1>10, <1>11, <1>12, <1>13,
     <1>14, <1>15, <1>16, <1>17, <1>18, <1>19, <1>20, <1>21 DEF Next, RequestStep,
     OTPStep, Finished

\* No request has begun, been answered or been given a token.
LEMMA BaseInit == Init => BaseInv
<1> SUFFICES ASSUME Init PROVE BaseInv
  OBVIOUS
<1>1. OrderInv /\ AnswerInv
  BY DEF Init, OrderInv, AnswerInv
<1>2. SessionInv
  BY DEF Init, SessionInv
<1> QED
  BY <1>1, <1>2, TypeInit DEF BaseInv

\* Every step keeps types, order, answers and sessions together.
LEMMA BaseStep == BaseInv /\ [Next]_vars => BaseInv'
<1> SUFFICES ASSUME BaseInv, [Next]_vars PROVE BaseInv'
  OBVIOUS
<1>1. TypeInv'
  BY TypeStep, StageStep DEF BaseInv, TypeInv
<1>2. OrderInv'
  BY OrderStep DEF BaseInv, OrderInv
<1>3. AnswerInv'
  BY OrderStep DEF BaseInv, AnswerInv
<1>4. SessionInv'
  BY SessionStep DEF BaseInv
<1> QED
  BY <1>1, <1>2, <1>3, <1>4 DEF BaseInv

\* They fit together in every behaviour.
LEMMA BaseInvariant == Spec => []BaseInv
  BY BaseInit, BaseStep, PTL DEF Spec

\* A refresh that begins late finds the token revoked, so it never comes to
\* the point where it would revoke it itself.
LEMMA RotationStep ==
    ASSUME BaseInv, RotationInv, [Next]_vars
    PROVE  RotationInv'
<1> SUFFICES ASSUME NEW r \in Requests, NEW s \in Requests,
                    r \in before'[s], kind'[r] = "refresh", kind'[s] = "refresh",
                    brings'[r] = brings'[s], token'[r] # "none"
             PROVE  token'[s] = "none" /\ pc'[s] \notin {"rotate", "issue"}
  BY DEF RotationInv
<1> USE OrderStep, SessionStep DEF BaseInv
<1>1. kind[r] = "refresh" /\ kind[s] = "refresh"
  OBVIOUS
<1>2. CASE pc[s] = "idle"
  <2>1. token[s] = "none"
    BY <1>2 DEF SessionInv
  <2> QED
    BY <1>1, <1>2, <2>1
<1>3. CASE pc[s] # "idle"
  <2>1. r \in before[s] /\ brings'[s] = brings[s]
    BY <1>3
  <2>2. pc[r] = "done"
    BY <2>1 DEF OrderInv
  <2>3. brings[r] = brings[s] /\ token[r] # "none"
    BY <2>1, <2>2
  <2>4. token[s] = "none" /\ pc[s] \notin {"rotate", "issue"}
    BY <1>1, <2>1, <2>3 DEF RotationInv
  <2>5. token[brings[s]] # "live"
    BY <1>1, <2>3 DEF SessionInv
  <2> QED
    BY <1>1, <2>4, <2>5
<1> QED
  BY <1>2, <1>3

\* A refresh token is exchanged once, or by requests that overlap: rotation as
\* refreshTokens does it, for any number of refreshes and any faults.
THEOREM Rotation == Spec => []RotatedOnce
<1>1. Init => RotationInv
  BY DEF Init, RotationInv
<1>2. BaseInv /\ RotationInv /\ [Next]_vars => RotationInv'
  BY RotationStep
<1>3. RotationInv => RotatedOnce
  BY DEF RotationInv, RotatedOnce, Overlap
<1> QED
  BY <1>1, <1>2, <1>3, BaseInvariant, PTL DEF Spec

\* What was given out before a change began cannot become valid again.
LEMMA ChangeStep ==
    ASSUME BaseInv, ChangeEndsSessions, [Next]_vars
    PROVE  ChangeEndsSessions'
<1> SUFFICES ASSUME NEW c \in Requests, NEW t \in Requests,
                    Changed(c)', t \in before'[c], token'[t] = "live"
             PROVE  FALSE
  BY DEF ChangeEndsSessions
<1> USE OrderStep, SessionStep DEF BaseInv, Changed
<1>1. kind[c] \in PasswordKinds
  BY DEF PasswordKinds
<1>2. answer[c] = "ok"
  BY <1>1
<1>3. pc[c] = "done"
  BY <1>2 DEF AnswerInv
<1>4. t \in before[c] /\ pc[t] = "done"
  BY <1>3 DEF OrderInv
<1>5. token[t] = "live"
  BY <1>4
<1> QED
  BY <1>1, <1>2, <1>4, <1>5 DEF ChangeEndsSessions

\* No token from before a change of the password works after it: the
\* revocation resetPassword and changePassword end with reaches all of them.
THEOREM ChangeRevokes == Spec => []ChangeEndsSessions
<1>1. Init => ChangeEndsSessions
  BY DEF Init, ChangeEndsSessions
<1>2. BaseInv /\ ChangeEndsSessions /\ [Next]_vars => ChangeEndsSessions'
  BY ChangeStep
<1> QED
  BY <1>1, <1>2, BaseInvariant, PTL DEF Spec

\* Nothing revives a token a logout revoked, and a refresh that begins later
\* finds it revoked.
LEMMA LogoutStep ==
    ASSUME BaseInv, LogoutInv, [Next]_vars
    PROVE  LogoutInv'
<1> SUFFICES ASSUME NEW r \in Requests, LoggedOut(r)'
             PROVE  /\ brings'[r] \in Requests /\ token'[brings'[r]] \in {"revoked", "gone"}
                    /\ \A s \in Requests :
                           /\ kind'[s] = "refresh" /\ brings'[s] = brings'[r] /\ r \in before'[s]
                           => token'[s] = "none" /\ pc'[s] \notin {"rotate", "issue"}
  BY DEF LogoutInv
<1> USE OrderStep, SessionStep DEF BaseInv
<1>1. kind[r] = "logout"
  BY DEF LoggedOut
<1>2. brings'[r] = brings[r]
  <2>1. pc[r] # "idle"
    BY <1>1 DEF LoggedOut, AnswerInv
  <2> QED
    BY <2>1
<1>3. LoggedOut(r) \/ (pc[r] = "logout" /\ token'[brings[r]] # "live")
  BY <1>1, <1>2 DEF LoggedOut, AnswerInv
<1>4. brings[r] \in Requests /\ token[brings[r]] # "none"
  BY <1>1, <1>3 DEF LogoutInv, SessionInv, TypeInv, StageInv
<1>5. token'[brings[r]] \in {"revoked", "gone"}
  <2>1. TypeOK'
    BY TypeStep
  <2>2. token'[brings[r]] # "live"
    <3>1. CASE LoggedOut(r)
      <4>1. pc[brings[r]] = "done" /\ token[brings[r]] # "live"
        BY <1>4, <3>1 DEF LogoutInv, SessionInv
      <4> QED
        BY <1>4, <4>1
    <3> QED
      BY <1>3, <3>1
  <2> QED
    BY <1>4, <2>1, <2>2 DEF TypeOK
<1>6. ASSUME NEW s \in Requests, kind'[s] = "refresh", brings'[s] = brings[r], r \in before'[s]
      PROVE  token'[s] = "none" /\ pc'[s] \notin {"rotate", "issue"}
  <2>1. CASE pc[s] = "idle"
    BY <1>6, <2>1 DEF SessionInv
  <2>2. CASE pc[s] # "idle"
    <3>1. r \in before[s] /\ brings[s] = brings[r] /\ kind[s] = "refresh"
      BY <1>6, <2>2
    <3>2. LoggedOut(r)
      BY <1>3, <3>1 DEF OrderInv
    <3> QED
      BY <3>1, <3>2 DEF LogoutInv
  <2> QED
    BY <2>1, <2>2
<1> QED
  BY <1>2, <1>4, <1>5, <1>6

\* A logout that was answered ends the validity of its token for good, whatever
\* refreshes overlap it: AuthService.logout with the cookie it was written for.
THEOREM LogoutRevokes == Spec => []LogoutEndsSession
<1>1. Init => LogoutInv
  BY DEF Init, LogoutInv, LoggedOut
<1>2. BaseInv /\ LogoutInv /\ [Next]_vars => LogoutInv'
  BY LogoutStep
<1>3. LogoutInv => LogoutEndsSession
  BY DEF LogoutInv, LogoutEndsSession
<1> QED
  BY <1>1, <1>2, <1>3, BaseInvariant, PTL DEF Spec

\* Where passwords come from, and what a login, a revocation or a verified
\* email goes back to.
LEMMA PasswordStep ==
    ASSUME TypeInv, [Next]_vars
    PROVE  /\ password' = password \/ \E c \in Requests : pc[c] = "password" /\ password' = c
           /\ verified' => verified \/ \E r \in Requests : pc[r] = "verified"
           /\ \A r \in Requests :
                 /\ pc'[r] = "revokeAll" => \/ pc[r] = "revokeAll"
                                            \/ pc[r] = "password" /\ password' = r
                 /\ pc'[r] = "issue" /\ kind[r] = "login" =>
                       \/ pc[r] = "issue"
                       \/ pc[r] = "hash" /\ password # None /\ brings[r] = password
<1> USE DEF TypeInv, TypeOK, OTPTypeOK, StageInv, StageOK, Goto, Ends, Fails
<1> USE DEF SendSteps, VerifySteps, SendKinds, VerifyKinds, PasswordKinds, IssueKinds
<1>1. CASE \E r \in Requests : Arrive(r)
  BY <1>1, FirstFacts DEF Arrive, requestVars, accountVars, otpVars
<1>2. CASE \E r \in Requests : DeleteUnused(r) /\ UNCHANGED <<accountVars, token>>
  BY <1>2 DEF DeleteUnused, accountVars
<1>3. CASE \E r \in Requests : CreateOTP(r) /\ UNCHANGED <<accountVars, token>>
  BY <1>3 DEF CreateOTP, accountVars
<1>4. CASE \E r \in Requests : MailOTP(r) /\ UNCHANGED <<accountVars, token>>
  BY <1>4 DEF MailOTP, accountVars
<1>5. CASE \E r \in Requests : FindRecord(r) /\ UNCHANGED <<accountVars, token>>
  BY <1>5 DEF FindRecord, accountVars
<1>6. CASE \E r \in Requests : SaveAttempt(r) /\ UNCHANGED <<accountVars, token>>
  BY <1>6 DEF SaveAttempt, accountVars
<1>7. CASE \E r \in Requests : DropRecord(r) /\ UNCHANGED <<accountVars, token>>
  BY <1>7 DEF DropRecord, accountVars
<1>8. CASE \E r \in Requests : MarkUsed(r) /\ UNCHANGED <<accountVars, token>>
  BY <1>8, AfterFacts DEF MarkUsed, accountVars
<1>9. CASE \E r \in Requests : FindUser(r)
  BY <1>9 DEF FindUser, accountVars, otpVars
<1>10. CASE \E r \in Requests : SetVerified(r)
  BY <1>10 DEF SetVerified, accountVars, otpVars
<1>11. CASE \E r \in Requests : SavePassword(r)
  BY <1>11 DEF SavePassword, accountVars, otpVars
<1>12. CASE \E r \in Requests : RevokeAll(r)
  BY <1>12 DEF RevokeAll, accountVars, otpVars
<1>13. CASE \E r \in Requests : FindHash(r)
  BY <1>13 DEF FindHash, accountVars, otpVars
<1>14. CASE \E r \in Requests : GoogleUser(r)
  BY <1>14 DEF GoogleUser, accountVars, otpVars
<1>15. CASE \E r \in Requests : IssueToken(r)
  BY <1>15 DEF IssueToken, accountVars, otpVars
<1>16. CASE \E r \in Requests : FindToken(r)
  BY <1>16 DEF FindToken, accountVars, otpVars
<1>17. CASE \E r \in Requests : RevokeOld(r)
  BY <1>17 DEF RevokeOld, accountVars, otpVars
<1>18. CASE \E r \in Requests : Logout(r)
  BY <1>18 DEF Logout, accountVars, otpVars
<1>19. CASE \E r \in Requests : Expiry(r)
  BY <1>19 DEF Expiry, OTPExpires, OTPPurged, TokenExpires, TokenPurged, requestVars,
     accountVars, otpVars
<1>20. CASE Crash
  BY <1>20 DEF Crash, accountVars, otpVars
<1>21. CASE UNCHANGED vars
  BY <1>21 DEF vars, requestVars, accountVars, otpVars
<1> QED
  BY <1>1, <1>2, <1>3, <1>4, <1>5, <1>6, <1>7, <1>8, <1>9, <1>10, <1>11, <1>12, <1>13,
     <1>14, <1>15, <1>16, <1>17, <1>18, <1>19, <1>20, <1>21 DEF Next, RequestStep,
     OTPStep, Finished

\* A change sets a password that no request before it could have chosen; a login
\* that begins after its end reads that password or a later one.
LEMMA ReplacedStep ==
    ASSUME BaseInv, PasswordInv, [Next]_vars
    PROVE  PasswordInv'
<1> USE OrderStep, SessionStep, PasswordStep DEF BaseInv
<1>1. ASSUME NEW c \in Requests, Changed(c)'
      PROVE  /\ kind[c] \in PasswordKinds /\ pc[c] # "idle"
             /\ Changed(c) \/ pc[c] = "revokeAll"
  <2>1. kind[c] \in PasswordKinds
    BY <1>1 DEF Changed
  <2>2. answer[c] = "ok" \/ pc[c] = "revokeAll"
    BY <1>1, <2>1 DEF Changed
  <2> QED
    BY <2>1, <2>2 DEF Changed, AnswerInv
<1>2. ASSUME NEW c \in Requests, pc'[c] = "revokeAll" \/ Changed(c)'
      PROVE  password' \in Requests \ before'[c]
  <2>1. pc[c] # "idle" /\ before'[c] = before[c]
    BY <1>1, <1>2
  <2>2. CASE pc[c] = "password" /\ password' = c
    BY <2>1, <2>2 DEF OrderInv
  <2>3. CASE pc[c] = "revokeAll" \/ Changed(c)
    <3>1. password \in Requests \ before[c]
      BY <2>3 DEF PasswordInv
    <3>2. CASE password' = password
      BY <2>1, <3>1, <3>2
    <3>3. CASE \E d \in Requests : pc[d] = "password" /\ password' = d
      BY <2>1, <3>3 DEF OrderInv
    <3> QED
      BY <3>2, <3>3
  <2> QED
    BY <1>1, <1>2, <2>2, <2>3
<1>3. ASSUME NEW c \in Requests, NEW r \in Requests, Changed(c)', c \in before'[r],
             kind'[r] = "login", pc'[r] = "issue" \/ token'[r] # "none"
      PROVE  brings'[r] \in Requests \ before'[c]
  <2>1. pc[r] # "idle"
    BY <1>3 DEF SessionInv
  <2>2. c \in before[r] /\ brings'[r] = brings[r] /\ kind[r] = "login"
    BY <1>3, <2>1
  <2>3. pc[c] = "done"
    BY <2>2 DEF OrderInv
  <2>4. Changed(c) /\ before'[c] = before[c]
    BY <1>1, <1>3, <2>3
  <2>5. CASE pc[r] = "issue" \/ token[r] # "none"
    BY <2>2, <2>4, <2>5 DEF PasswordInv
  <2>6. CASE brings[r] = password
    BY <2>2, <2>4, <2>6 DEF PasswordInv
  <2> QED
    BY <1>3, <2>2, <2>5, <2>6
<1> QED
  BY <1>2, <1>3 DEF PasswordInv

\* A password that was changed opens no session any more, however long login
\* took to compare it and whatever failed in between.
THEOREM Replaced == Spec => []OldPasswordRefused
<1>1. Init => PasswordInv
  BY DEF Init, PasswordInv, Changed
<1>2. BaseInv /\ PasswordInv /\ [Next]_vars => PasswordInv'
  BY ReplacedStep
<1>3. PasswordInv => OldPasswordRefused
  BY OriginalAssumption DEF PasswordInv, OldPasswordRefused
<1> QED
  BY <1>1, <1>2, <1>3, BaseInvariant, PTL DEF Spec
=============================================================================

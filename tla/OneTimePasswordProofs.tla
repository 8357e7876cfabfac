----------------------- MODULE OneTimePasswordProofs -----------------------
(***************************************************************************)
(* Proofs about the one-time passwords of AccountAccess, for any requests, *)
(* workloads, faults and limit of attempts: one valid OTP, one use of it,  *)
(* no change of the account without it, and no more attempts than allowed. *)
(***************************************************************************)
EXTENDS AccountAccessProofs, FiniteSetTheorems

\* Where a request is once its OTP was accepted.
Late == {"verified", "password", "revokeAll", "done"}

\* A request came with an OTP from the user's mailbox, if with any.  What it
\* read is an OTP made for its purpose; what was accepted from it is the one it
\* came with, is marked and was never made valid again.
OTPInv ==
    \A r \in Requests :
        /\ kind[r] \in VerifyKinds => brings[r] \in mailed \union {None}
        /\ pc[r] \in {"save", "drop", "mark"} \/ r \in passed =>
               record[r] \in Requests /\ Purpose(record[r]) = Purpose(r) /\ otp[record[r]] # "none"
        /\ pc[r] = "mark" \/ r \in passed => brings[r] = record[r] /\ kind[r] \in VerifyKinds
        /\ r \in passed => pc[r] \in Late /\ otp[record[r]] \in {"used", "gone"}
        /\ pc[r] \in {"verified", "password", "revokeAll"} => r \in passed
        /\ otp[r] # "none" => pc[r] \in {"mail", "done"}

\* Only requests whose OTP was accepted have changed the account.
ApprovedInv ==
    /\ password \in Requests => password \in passed
    /\ verified => \E r \in Requests : kind[r] = "verify" /\ r \in passed

\* An OTP that is made leaves none of an earlier request valid.
FreshInv ==
    \A o, p \in Requests :
        o \in before[p] /\ Purpose(o) = Purpose(p) /\ (pc[p] \in {"create", "mail"} \/ otp[p] # "none")
            => otp[o] # "unused"

\* Nobody reads an OTP that was accepted from an earlier request.
AcceptInv ==
    \A r, s \in Requests :
        r \in passed /\ r \in before[s] /\ (pc[s] \in {"save", "drop", "mark"} \/ s \in passed)
            => record[s] # record[r]

\* What a request read stays, with a count of its attempt.
ReadInv ==
    \A r \in Requests :
        record[r] \in Requests => pc[r] \notin {"idle", "user", "record"} /\ count[r] >= 1

\* The requests that read the OTP o came one after the other.
InTurn(o) ==
    \A r, s \in Requests : r # s /\ record[r] = o /\ record[s] = o => ~Overlap(r, s)

\* The request r stored the attempt it made with its OTP.
Saved(r) == pc[r] # "save" /\ answer[r] \notin {"error", "lost"}

\* Requests that come one after the other count on: every attempt that was
\* stored is counted in the OTP, and by every later request.
CountInv ==
    \A o \in Requests : InTurn(o) =>
        /\ \A r \in Requests :
              record[r] = o => /\ Saved(r) => count[r] <= attempts[o]
                               /\ pc[r] = "save" => attempts[o] < count[r]
        /\ \A r, s \in Requests :
              record[r] = o /\ record[s] = o /\ r \in before[s] /\ Saved(r) => count[r] < count[s]
-----------------------------------------------------------------------------
\* How a request goes through sending and verifying.
LEMMA OTPRequestStep ==
    ASSUME TypeInv, [Next]_vars
    PROVE  /\ mailed \subseteq mailed' /\ passed \subseteq passed'
           /\ \A r \in Requests :
                 /\ pc[r] = "idle" /\ kind[r] \in VerifyKinds =>
                       brings'[r] \in mailed \union {brings[r], None}
                 /\ \/ record'[r] = record[r] /\ (pc'[r] = "save" => pc[r] = "save")
                    \/ /\ pc[r] = "record" /\ pc'[r] = "save"
                       /\ record'[r] \in Requests /\ Purpose(record'[r]) = Purpose(r)
                       /\ otp[record'[r]] = "unused"
                 /\ pc'[r] = "drop" => pc[r] \in {"save", "drop"}
                 /\ pc'[r] = "mark" => \/ pc[r] = "mark"
                                       \/ /\ pc[r] = "save" /\ brings[r] = record[r]
                                          /\ kind[r] \in VerifyKinds
                 /\ r \in passed' => \/ r \in passed
                                     \/ /\ pc[r] = "mark" /\ pc'[r] \in Late
                                        /\ otp'[record[r]] = "used"
                 /\ pc[r] \in Late => pc'[r] \in Late
                 /\ pc'[r] \in {"verified", "password"} => pc'[r] = pc[r] \/ r \in passed'
<1> USE DEF TypeInv, TypeOK, OTPTypeOK, StageInv, StageOK, Purpose, Late, Goto, Ends, Fails
<1> USE DEF SendSteps, VerifySteps, SendKinds, VerifyKinds, PasswordKinds, IssueKinds
<1>1. CASE \E r \in Requests : Arrive(r)
  BY <1>1, FirstFacts, BringFacts DEF Arrive, requestVars, accountVars, otpVars
<1>2. CASE \E r \in Requests : DeleteUnused(r) /\ UNCHANGED <<accountVars, token>>
  BY <1>2 DEF DeleteUnused, accountVars
<1>3. CASE \E r \in Requests : CreateOTP(r) /\ UNCHANGED <<accountVars, token>>
  BY <1>3 DEF CreateOTP, accountVars
<1>4. CASE \E r \in Requests : MailOTP(r) /\ UNCHANGED <<accountVars, token>>
  BY <1>4 DEF MailOTP, accountVars
<1>5. CASE \E r \in Requests : FindRecord(r) /\ UNCHANGED <<accountVars, token>>
  BY <1>5 DEF FindRecord, accountVars, Findable, Unused
<1>6. CASE \E r \in Requests : SaveAttempt(r) /\ UNCHANGED <<accountVars, token>>
  BY <1>6 DEF SaveAttempt, accountVars
<1>7. CASE \E r \in Requests : DropRecord(r) /\ UNCHANGED <<accountVars, token>>
  BY <1>7 DEF DropRecord, accountVars
<1>8. CASE \E r \in Requests : MarkUsed(r) /\ UNCHANGED <<accountVars, token>>
  BY <1>8, AfterFacts DEF MarkUsed, accountVars
<1>9. CASE \E r \in Requests : FindUser(r)
  BY <1>9 DEF FindUser, accountVars, otpVars
<1>10. CASE \E r \in Requests : SetVerified(r)
  BY <1>10 DEF SetVerified, accountVars, otpVars
<1>11. CASE \E r \in Requests : SavePassword(r)
  BY <1>11 DEF SavePassword, accountVars, otpVars
<1>12. CASE \E r \in Requests : RevokeAll(r)
  BY <1>12 DEF RevokeAll, accountVars, otpVars
<1>13. CASE \E r \in Requests : FindHash(r)
  BY <1>13 DEF FindHash, accountVars, otpVars
<1>14. CASE \E r \in Requests : GoogleUser(r)
  BY <1>14 DEF GoogleUser, accountVars, otpVars
<1>15. CASE \E r \in Requests : IssueToken(r)
  BY <1>15 DEF IssueToken, accountVars, otpVars
<1>16. CASE \E r \in Requests : FindToken(r)
  BY <1>16 DEF FindToken, accountVars, otpVars
<1>17. CASE \E r \in Requests : RevokeOld(r)
  BY <1>17 DEF RevokeOld, accountVars, otpVars
<1>18. CASE \E r \in Requests : Logout(r)
  BY <1>18 DEF Logout, accountVars, otpVars
<1>19. CASE \E r \in Requests : Expiry(r)
  BY <1>19 DEF Expiry, OTPExpires, OTPPurged, TokenExpires, TokenPurged, requestVars,
     accountVars, otpVars
<1>20. CASE Crash
  BY <1>20 DEF Crash, accountVars, otpVars
<1>21. CASE UNCHANGED vars
  BY <1>21 DEF vars, requestVars, accountVars, otpVars
<1> QED
  BY <1>1, <1>2, <1>3, <1>4, <1>5, <1>6, <1>7, <1>8, <1>9, <1>10, <1>11, <1>12, <1>13,
     <1>14, <1>15, <1>16, <1>17, <1>18, <1>19, <1>20, <1>21 DEF Next, RequestStep,
     OTPStep, Finished

\* How an OTP comes and goes.
LEMMA OTPStateStep ==
    ASSUME TypeInv, OTPInv, [Next]_vars
    PROVE  \A o \in Requests :
               /\ otp'[o] # "none" => \/ otp[o] # "none"
                                      \/ pc[o] = "create" /\ pc'[o] \in {"mail", "done"}
               /\ otp[o] # "none" => otp'[o] # "none"
               /\ otp'[o] = "unused" => otp[o] = "unused" \/ pc[o] = "create"
               /\ otp[o] \in {"used", "gone"} => otp'[o] \in {"used", "gone"}
               /\ pc[o] \in {"mail", "done"} => pc'[o] \in {"mail", "done"}
               /\ pc'[o] = "mail" => pc[o] \in {"create", "mail"}
               /\ pc'[o] = "create" =>
                     \/ pc[o] = "create"
                     \/ pc[o] = "delete" /\ \A p \in Requests : Purpose(p) = Purpose(o) => otp'[p] # "unused"
<1> USE DEF TypeInv, TypeOK, OTPTypeOK, StageInv, StageOK, OTPInv, Stored, Purpose, Goto, Ends, Fails
<1> USE DEF SendSteps, VerifySteps, SendKinds, VerifyKinds, PasswordKinds, IssueKinds
<1>1. CASE \E r \in Requests : Arrive(r)
  BY <1>1, FirstFacts DEF Arrive, requestVars, accountVars, otpVars
<1>2. CASE \E r \in Requests : DeleteUnused(r) /\ UNCHANGED <<accountVars, token>>
  BY <1>2 DEF DeleteUnused, accountVars, Unused
<1>3. CASE \E r \in Requests : CreateOTP(r) /\ UNCHANGED <<accountVars, token>>
  BY <1>3 DEF CreateOTP, accountVars
<1>4. CASE \E r \in Requests : MailOTP(r) /\ UNCHANGED <<accountVars, token>>
  BY <1>4 DEF MailOTP, accountVars
<1>5. CASE \E r \in Requests : FindRecord(r) /\ UNCHANGED <<accountVars, token>>
  BY <1>5 DEF FindRecord, accountVars, Findable, Unused
<1>6. CASE \E r \in Requests : SaveAttempt(r) /\ UNCHANGED <<accountVars, token>>
  BY <1>6 DEF SaveAttempt, accountVars
<1>7. CASE \E r \in Requests : DropRecord(r) /\ UNCHANGED <<accountVars, token>>
  BY <1>7 DEF DropRecord, accountVars
<1>8. CASE \E r \in Requests : MarkUsed(r) /\ UNCHANGED <<accountVars, token>>
  BY <1>8, AfterFacts DEF MarkUsed, accountVars
<1>9. CASE \E r \in Requests : FindUser(r)
  BY <1>9 DEF FindUser, accountVars, otpVars
<1>10. CASE \E r \in Requests : SetVerified(r)
  BY <1>10 DEF SetVerified, accountVars, otpVars
<1>11. CASE \E r \in Requests : SavePassword(r)
  BY <1>11 DEF SavePassword, accountVars, otpVars
<1>12. CASE \E r \in Requests : RevokeAll(r)
  BY <1>12 DEF RevokeAll, accountVars, otpVars
<1>13. CASE \E r \in Requests : FindHash(r)
  BY <1>13 DEF FindHash, accountVars, otpVars
<1>14. CASE \E r \in Requests : GoogleUser(r)
  BY <1>14 DEF GoogleUser, accountVars, otpVars
<1>15. CASE \E r \in Requests : IssueToken(r)
  BY <1>15 DEF IssueToken, accountVars, otpVars
<1>16. CASE \E r \in Requests : FindToken(r)
  BY <1>16 DEF FindToken, accountVars, otpVars
<1>17. CASE \E r \in Requests : RevokeOld(r)
  BY <1>17 DEF RevokeOld, accountVars, otpVars
<1>18. CASE \E r \in Requests : Logout(r)
  BY <1>18 DEF Logout, accountVars, otpVars
<1>19. CASE \E r \in Requests : Expiry(r)
  BY <1>19 DEF Expiry, OTPExpires, OTPPurged, TokenExpires, TokenPurged, requestVars,
     accountVars, otpVars
<1>20. CASE Crash
  BY <1>20 DEF Crash, accountVars, otpVars
<1>21. CASE UNCHANGED vars
  BY <1>21 DEF vars, requestVars, accountVars, otpVars
<1> QED
  BY <1>1, <1>2, <1>3, <1>4, <1>5, <1>6, <1>7, <1>8, <1>9, <1>10, <1>11, <1>12, <1>13,
     <1>14, <1>15, <1>16, <1>17, <1>18, <1>19, <1>20, <1>21 DEF Next, RequestStep,
     OTPStep, Finished

\* All that the theorems about OTPs rest on.
AllOTPInv == BaseInv /\ OTPInv

\* A request that reads an OTP starts from a valid one of its purpose, and goes
\* on with the same OTP to its end.
LEMMA OTPInvStep ==
    ASSUME BaseInv, OTPInv, [Next]_vars
    PROVE  OTPInv'
<1> SUFFICES ASSUME NEW r \in Requests
             PROVE  /\ kind'[r] \in VerifyKinds => brings'[r] \in mailed' \union {None}
                    /\ pc'[r] \in {"save", "drop", "mark"} \/ r \in passed' =>
                           /\ record'[r] \in Requests /\ Purpose(record[r])' = Purpose(r)'
                           /\ otp'[record'[r]] # "none"
                    /\ pc'[r] = "mark" \/ r \in passed' =>
                           brings'[r] = record'[r] /\ kind'[r] \in VerifyKinds
                    /\ r \in passed' => pc'[r] \in Late /\ otp'[record'[r]] \in {"used", "gone"}
                    /\ pc'[r] \in {"verified", "password", "revokeAll"} => r \in passed'
                    /\ otp'[r] # "none" => pc'[r] \in {"mail", "done"}
  BY DEF OTPInv
<1> USE OrderStep, OTPRequestStep, OTPStateStep DEF BaseInv
<1>1. kind'[r] \in VerifyKinds => brings'[r] \in mailed' \union {None}
  BY DEF OTPInv
<1>2. CASE record'[r] = record[r] /\ (pc'[r] = "save" => pc[r] = "save")
  <2>1. pc'[r] \in {"save", "drop", "mark"} \/ r \in passed' =>
            pc[r] \in {"save", "drop", "mark"} \/ r \in passed
    BY <1>2
  <2>2. pc'[r] \in {"save", "drop", "mark"} \/ r \in passed' =>
            /\ record'[r] \in Requests /\ Purpose(record[r])' = Purpose(r)'
            /\ otp'[record'[r]] # "none"
    BY <1>2, <2>1 DEF OTPInv, Purpose
  <2>3. pc'[r] = "mark" \/ r \in passed' => brings'[r] = record'[r] /\ kind'[r] \in VerifyKinds
    BY <1>2 DEF OTPInv, Late
  <2>4. r \in passed' => pc'[r] \in Late /\ otp'[record'[r]] \in {"used", "gone"}
    BY <1>2 DEF OTPInv
  <2>5. pc'[r] \in {"verified", "password", "revokeAll"} => r \in passed'
    BY PasswordStep DEF OTPInv
  <2>6. otp'[r] # "none" => pc'[r] \in {"mail", "done"}
    BY DEF OTPInv
  <2> QED
    BY <1>1, <2>2, <2>3, <2>4, <2>5, <2>6
<1>3. CASE /\ pc[r] = "record" /\ pc'[r] = "save"
           /\ record'[r] \in Requests /\ Purpose(record'[r]) = Purpose(r)
           /\ otp[record'[r]] = "unused"
  <2>1. r \notin passed'
    BY <1>3 DEF OTPInv, Late
  <2>2. otp'[record'[r]] # "none" /\ Purpose(record[r])' = Purpose(r)'
    BY <1>3 DEF Purpose
  <2>3. otp'[r] # "none" => pc'[r] \in {"mail", "done"}
    BY DEF OTPInv
  <2> QED
    BY <1>1, <1>3, <2>1, <2>2, <2>3
<1> QED
  BY <1>2, <1>3

\* Requests and their OTPs fit together in every behaviour.
LEMMA OTPInvariant == Spec => []AllOTPInv
<1>1. Init => AllOTPInv
  <2>1. Init => OTPInv
    BY DEF Init, OTPInit, OTPInv
  <2> QED
    BY <2>1, BaseInit DEF AllOTPInv
<1>2. AllOTPInv /\ [Next]_vars => AllOTPInv'
  BY BaseStep, OTPInvStep DEF AllOTPInv
<1> QED
  BY <1>1, <1>2, PTL DEF Spec

\* Whatever changes the account has had its OTP accepted.
LEMMA ApprovedStep ==
    ASSUME AllOTPInv, ApprovedInv, [Next]_vars
    PROVE  ApprovedInv'
<1> USE OrderStep, OTPRequestStep, PasswordStep DEF AllOTPInv, BaseInv
<1>1. ASSUME password' \in Requests PROVE password' \in passed'
  BY <1>1 DEF ApprovedInv, OTPInv
<1>2. ASSUME verified' PROVE \E r \in Requests : kind'[r] = "verify" /\ r \in passed'
  <2>1. CASE verified
    BY <2>1 DEF ApprovedInv
  <2>2. CASE \E r \in Requests : pc[r] = "verified"
    BY <2>2 DEF OTPInv, TypeInv, StageInv, StageOK
  <2> QED
    BY <1>2, <2>1, <2>2
<1> QED
  BY <1>1, <1>2 DEF ApprovedInv

\* The password and the verified email are only ever changed by requests with
\* an OTP that was mailed to the user for that very purpose.
THEOREM Approved == Spec => []ChangesNeedOTP
<1>1. Init => ApprovedInv
  BY NoneAssumption, OriginalAssumption DEF Init, ApprovedInv
<1>2. AllOTPInv /\ ApprovedInv /\ [Next]_vars => ApprovedInv'
  BY ApprovedStep
<1>3. AllOTPInv /\ ApprovedInv => ChangesNeedOTP
  <2> SUFFICES ASSUME AllOTPInv, ApprovedInv PROVE ChangesNeedOTP
    OBVIOUS
  <2>1. ASSUME NEW r \in Requests, r \in passed
        PROVE  /\ brings[r] = record[r] /\ record[r] \in mailed
               /\ Purpose(record[r]) = Purpose(r)
    BY <2>1, NoneAssumption DEF AllOTPInv, OTPInv
  <2> QED
    BY <2>1 DEF ApprovedInv, ChangesNeedOTP
<1> QED
  BY <1>1, <1>2, <1>3, OTPInvariant, PTL DEF Spec

\* deleteMany leaves no OTP of the purpose, and what is made later has another
\* request's name.
LEMMA FreshStep ==
    ASSUME AllOTPInv, FreshInv, [Next]_vars
    PROVE  FreshInv'
<1> SUFFICES ASSUME NEW o \in Requests, NEW p \in Requests,
                    o \in before'[p], Purpose(o)' = Purpose(p)',
                    pc'[p] \in {"create", "mail"} \/ otp'[p] # "none",
                    otp'[o] = "unused"
             PROVE  FALSE
  BY DEF FreshInv
<1> USE OrderStep, OTPStateStep DEF AllOTPInv, BaseInv
<1>1. Purpose(o) = Purpose(p)
  BY DEF Purpose
<1>2. pc[p] # "idle"
  BY DEF OTPInv
<1>3. o \in before[p] /\ pc[o] = "done"
  BY <1>2 DEF OrderInv
<1>4. otp[o] = "unused"
  BY <1>3
<1>5. ~(pc[p] \in {"create", "mail"} \/ otp[p] # "none")
  BY <1>1, <1>3, <1>4 DEF FreshInv
<1> QED
  BY <1>1, <1>5

\* Two valid OTPs of one purpose are the work of requests that overlap, however
\* many are sent and whatever fails between deleteMany and create.
THEOREM OneValid == Spec => []OneValidOTP
<1>1. Init => FreshInv
  BY DEF Init, FreshInv
<1>2. AllOTPInv /\ FreshInv /\ [Next]_vars => FreshInv'
  BY FreshStep
<1>3. FreshInv => OneValidOTP
  BY DEF FreshInv, OneValidOTP, Overlap
<1> QED
  BY <1>1, <1>2, <1>3, OTPInvariant, PTL DEF Spec

\* findOne asks for an unused OTP, and an accepted one is not.
LEMMA AcceptStep ==
    ASSUME AllOTPInv, AcceptInv, [Next]_vars
    PROVE  AcceptInv'
<1> SUFFICES ASSUME NEW r \in Requests, NEW s \in Requests,
                    r \in passed', r \in before'[s],
                    pc'[s] \in {"save", "drop", "mark"} \/ s \in passed',
                    record'[s] = record'[r]
             PROVE  FALSE
  BY DEF AcceptInv
<1> USE OrderStep, OTPRequestStep, OTPStateStep DEF AllOTPInv, BaseInv
<1>1. pc[s] # "idle"
  BY DEF OTPInv, Late
<1>2. r \in before[s] /\ pc[r] = "done"
  BY <1>1 DEF OrderInv
<1>3. r \in passed /\ record'[r] = record[r]
  BY <1>2
<1>4. otp[record[r]] # "unused"
  BY <1>3 DEF OTPInv
<1>5. record'[s] = record[s] /\ (pc'[s] = "save" => pc[s] = "save")
  BY <1>3, <1>4
<1>6. pc[s] \in {"save", "drop", "mark"} \/ s \in passed
  BY <1>5
<1> QED
  BY <1>2, <1>3, <1>5, <1>6 DEF AcceptInv

\* An OTP is accepted from one request, or from requests that overlap.
THEOREM Accepted == Spec => []AcceptedOnce
<1>1. Init => AcceptInv
  BY DEF Init, OTPInit, AcceptInv
<1>2. AllOTPInv /\ AcceptInv /\ [Next]_vars => AcceptInv'
  BY AcceptStep
<1>3. AllOTPInv /\ AcceptInv => AcceptedOnce
  BY DEF AllOTPInv, BaseInv, TypeInv, TypeOK, OTPTypeOK, AcceptInv, AcceptedOnce, Overlap
<1> QED
  BY <1>1, <1>2, <1>3, OTPInvariant, PTL DEF Spec

\* How attempts are read and stored.
LEMMA CountStep ==
    ASSUME TypeInv, [Next]_vars
    PROVE  /\ \A r \in Requests :
                 /\ \/ /\ record'[r] = record[r] /\ count'[r] = count[r]
                       /\ pc'[r] = "save" => pc[r] = "save"
                    \/ /\ pc[r] = "record" /\ pc'[r] = "save" /\ record'[r] \in Requests
                       /\ count'[r] = attempts[record'[r]] + 1 /\ attempts' = attempts
                 /\ pc[r] \notin {"idle", "user", "record"} => pc'[r] \notin {"idle", "user", "record"}
                 /\ pc[r] = "save" /\ Saved(r)' => attempts'[record[r]] = count[r]
           /\ \A o \in Requests :
                 \/ attempts'[o] = attempts[o]
                 \/ \E r \in Requests : /\ pc[r] = "save" /\ pc'[r] # "save" /\ record[r] = o
                                        /\ attempts'[o] = count[r]
<1> USE DEF TypeInv, TypeOK, OTPTypeOK, StageInv, StageOK, Saved, Goto, Ends, Fails
<1> USE DEF SendSteps, VerifySteps, SendKinds, VerifyKinds, PasswordKinds, IssueKinds
<1>1. CASE \E r \in Requests : Arrive(r)
  BY <1>1, FirstFacts DEF Arrive, requestVars, accountVars, otpVars
<1>2. CASE \E r \in Requests : DeleteUnused(r) /\ UNCHANGED <<accountVars, token>>
  BY <1>2 DEF DeleteUnused, accountVars
<1>3. CASE \E r \in Requests : CreateOTP(r) /\ UNCHANGED <<accountVars, token>>
  BY <1>3 DEF CreateOTP, accountVars
<1>4. CASE \E r \in Requests : MailOTP(r) /\ UNCHANGED <<accountVars, token>>
  BY <1>4 DEF MailOTP, accountVars
<1>5. CASE \E r \in Requests : FindRecord(r) /\ UNCHANGED <<accountVars, token>>
  BY <1>5 DEF FindRecord, accountVars, Findable, Unused
<1>6. CASE \E r \in Requests : SaveAttempt(r) /\ UNCHANGED <<accountVars, token>>
  BY <1>6 DEF SaveAttempt, accountVars
<1>7. CASE \E r \in Requests : DropRecord(r) /\ UNCHANGED <<accountVars, token>>
  BY <1>7 DEF DropRecord, accountVars
<1>8. CASE \E r \in Requests : MarkUsed(r) /\ UNCHANGED <<accountVars, token>>
  BY <1>8, AfterFacts DEF MarkUsed, accountVars
<1>9. CASE \E r \in Requests : FindUser(r)
  BY <1>9 DEF FindUser, accountVars, otpVars
<1>10. CASE \E r \in Requests : SetVerified(r)
  BY <1>10 DEF SetVerified, accountVars, otpVars
<1>11. CASE \E r \in Requests : SavePassword(r)
  BY <1>11 DEF SavePassword, accountVars, otpVars
<1>12. CASE \E r \in Requests : RevokeAll(r)
  BY <1>12 DEF RevokeAll, accountVars, otpVars
<1>13. CASE \E r \in Requests : FindHash(r)
  BY <1>13 DEF FindHash, accountVars, otpVars
<1>14. CASE \E r \in Requests : GoogleUser(r)
  BY <1>14 DEF GoogleUser, accountVars, otpVars
<1>15. CASE \E r \in Requests : IssueToken(r)
  BY <1>15 DEF IssueToken, accountVars, otpVars
<1>16. CASE \E r \in Requests : FindToken(r)
  BY <1>16 DEF FindToken, accountVars, otpVars
<1>17. CASE \E r \in Requests : RevokeOld(r)
  BY <1>17 DEF RevokeOld, accountVars, otpVars
<1>18. CASE \E r \in Requests : Logout(r)
  BY <1>18 DEF Logout, accountVars, otpVars
<1>19. CASE \E r \in Requests : Expiry(r)
  BY <1>19 DEF Expiry, OTPExpires, OTPPurged, TokenExpires, TokenPurged, requestVars,
     accountVars, otpVars
<1>20. CASE Crash
  BY <1>20 DEF Crash, accountVars, otpVars
<1>21. CASE UNCHANGED vars
  BY <1>21 DEF vars, requestVars, accountVars, otpVars
<1> QED
  BY <1>1, <1>2, <1>3, <1>4, <1>5, <1>6, <1>7, <1>8, <1>9, <1>10, <1>11, <1>12, <1>13,
     <1>14, <1>15, <1>16, <1>17, <1>18, <1>19, <1>20, <1>21 DEF Next, RequestStep,
     OTPStep, Finished

\* No request goes back to reading an OTP.
LEMMA ReadStep ==
    ASSUME TypeInv, ReadInv, [Next]_vars
    PROVE  ReadInv'
  BY CountStep DEF ReadInv, TypeInv, TypeOK, OTPTypeOK

\* A request counts on from the attempts it read, and nobody stores any while
\* it is about to, if it is the only one with this OTP.
LEMMA CountInvStep ==
    ASSUME BaseInv, ReadInv, CountInv, [Next]_vars
    PROVE  CountInv'
<1> SUFFICES ASSUME NEW o \in Requests, InTurn(o)'
             PROVE  /\ \A r \in Requests :
                          record'[r] = o => /\ Saved(r)' => count'[r] <= attempts'[o]
                                            /\ pc'[r] = "save" => attempts'[o] < count'[r]
                    /\ \A r, s \in Requests :
                          record'[r] = o /\ record'[s] = o /\ r \in before'[s] /\ Saved(r)'
                              => count'[r] < count'[s]
  BY DEF CountInv
<1> USE OrderStep, CountStep DEF BaseInv
<1>1. \A r \in Requests : record[r] = o =>
          record'[r] = o /\ count'[r] = count[r] /\ pc[r] # "idle" /\ before'[r] = before[r]
  BY DEF ReadInv
<1>2. InTurn(o)
  BY <1>1 DEF InTurn, Overlap
<1>3. /\ \A r \in Requests :
            record[r] = o => /\ Saved(r) => count[r] <= attempts[o]
                             /\ pc[r] = "save" => attempts[o] < count[r]
      /\ \A r, s \in Requests :
            record[r] = o /\ record[s] = o /\ r \in before[s] /\ Saved(r) => count[r] < count[s]
  BY <1>2, Zenon DEF CountInv
<1>4. /\ attempts[o] \in Nat /\ attempts'[o] \in Nat
      /\ \A r \in Requests : count[r] \in Nat /\ count'[r] \in Nat
  BY TypeStep DEF TypeInv, TypeOK, OTPTypeOK
<1>5. ASSUME NEW r \in Requests, Saved(r)', record'[r] = o
      PROVE  record[r] = o /\ count'[r] = count[r] /\ (Saved(r) \/ pc[r] = "save")
  <2>1. record[r] = o /\ count'[r] = count[r]
    BY <1>5 DEF Saved
  <2>2. answer[r] \notin {"error", "lost"}
    BY <1>5 DEF Saved, AnswerInv
  <2> QED
    BY <2>1, <2>2 DEF Saved
<1>6. ASSUME NEW r \in Requests, Saved(r)', record'[r] = o
      PROVE  count'[r] <= attempts'[o]
  <2>1. CASE pc[r] = "save"
    BY <1>4, <1>5, <1>6, <2>1
  <2>2. CASE Saved(r)
    <3>1. count[r] <= attempts[o]
      BY <1>3, <1>5, <1>6, <2>2 DEF Saved
    <3>2. CASE attempts'[o] = attempts[o]
      BY <1>5, <1>6, <3>1, <3>2
    <3>3. CASE \E d \in Requests : pc[d] = "save" /\ record[d] = o /\ attempts'[o] = count[d]
      <4>1. attempts[o] < attempts'[o]
        BY <1>3, <1>4, <3>3
      <4> QED
        BY <1>4, <1>5, <1>6, <3>1, <4>1
    <3> QED
      BY <3>2, <3>3
  <2> QED
    BY <1>5, <1>6, <2>1, <2>2
<1>7. ASSUME NEW s \in Requests, record'[s] = o, pc'[s] = "save"
      PROVE  attempts'[o] < count'[s]
  <2>1. CASE count'[s] = attempts[record'[s]] + 1 /\ attempts' = attempts
    BY <1>4, <1>7, <2>1
  <2>2. CASE record'[s] = record[s] /\ count'[s] = count[s] /\ pc[s] = "save"
    <3>1. attempts[o] < count[s]
      BY <1>3, <1>4, <1>7, <2>2
    <3>2. ASSUME NEW d \in Requests, pc[d] = "save", pc'[d] # "save", record[d] = o
          PROVE  FALSE
      <4>1. ~Overlap(d, s)
        BY <1>2, <1>7, <2>2, <3>2 DEF InTurn
      <4> QED
        BY <2>2, <3>2, <4>1 DEF Overlap, OrderInv
    <3> QED
      BY <2>2, <3>1, <3>2
  <2> QED
    BY <1>7, <2>1, <2>2
<1>8. ASSUME NEW r \in Requests, NEW s \in Requests,
             record'[r] = o, record'[s] = o, r \in before'[s], Saved(r)'
      PROVE  count'[r] < count'[s]
  <2>1. pc[s] # "idle"
    BY <1>1, <1>8
  <2>2. r \in before[s] /\ pc[r] = "done"
    BY <1>8, <2>1 DEF OrderInv
  <2>3. record[r] = o /\ count'[r] = count[r] /\ Saved(r)
    BY <1>5, <1>8, <2>2
  <2>4. CASE record'[s] = record[s] /\ count'[s] = count[s]
    BY <1>3, <1>8, <2>2, <2>3, <2>4
  <2>5. CASE count'[s] = attempts[record'[s]] + 1
    <3>1. count[r] <= attempts[o]
      BY <1>3, <2>3 DEF Saved
    <3> QED
      BY <1>4, <1>8, <2>3, <2>5, <3>1
  <2> QED
    BY <2>4, <2>5
<1> QED
  BY <1>6, <1>7, <1>8

\* Requests that come one after the other and were compared with an OTP counted
\* differently, up to the limit: there are no more of them than that.
LEMMA Countable ==
    ASSUME BaseInv, ReadInv, CountInv
    PROVE  AttemptsLimited
<1> SUFFICES ASSUME NEW o \in Requests, InTurn(o)
             PROVE  Cardinality(Tries(o)) <= MaxAttempts
  BY DEF AttemptsLimited, InTurn
<1> DEFINE f == [r \in Tries(o) |-> count[r]]
<1>1. \A r \in Tries(o) : r \in Requests /\ record[r] = o /\ Saved(r) /\ count[r] <= MaxAttempts
  BY DEF Tries, Saved
<1>2. \A r \in Tries(o) : count[r] \in 1..MaxAttempts
  BY <1>1, AttemptsAssumption DEF ReadInv, BaseInv, TypeInv, TypeOK, OTPTypeOK
<1>3. ASSUME NEW r \in Tries(o), NEW s \in Tries(o), r # s
      PROVE  count[r] # count[s]
  <2>1. r \in before[s] \/ s \in before[r]
    BY <1>1, <1>3 DEF InTurn, Overlap
  <2>2. count[r] < count[s] \/ count[s] < count[r]
    BY <1>1, <2>1 DEF CountInv
  <2> QED
    BY <1>2, <2>2, AttemptsAssumption
<1>4. f \in Injection(Tries(o), 1..MaxAttempts)
  BY <1>2, <1>3 DEF Injection, IsInjective
<1>5. IsFiniteSet(1..MaxAttempts) /\ Cardinality(1..MaxAttempts) = MaxAttempts
  <2>1. 1 \in Int /\ MaxAttempts \in Int
    BY AttemptsAssumption
  <2> QED
    BY <2>1, FS_Interval, AttemptsAssumption
<1> HIDE DEF f
<1>6. Cardinality(Tries(o)) <= Cardinality(1..MaxAttempts)
  BY <1>4, <1>5, FS_Injection
<1> QED
  BY <1>5, <1>6

\* No OTP is compared more often than MaxAttempts allows with what requests
\* bring that come one after the other, for any limit and any faults.
THEOREM Limited == Spec => []AttemptsLimited
<1>1. Init => ReadInv /\ CountInv
  BY NoneAssumption DEF Init, OTPInit, ReadInv, CountInv
<1>2. BaseInv /\ ReadInv /\ CountInv /\ [Next]_vars => ReadInv' /\ CountInv'
  BY ReadStep, CountInvStep DEF BaseInv
<1>3. BaseInv /\ ReadInv /\ CountInv => AttemptsLimited
  BY Countable
<1> QED
  BY <1>1, <1>2, <1>3, BaseInvariant, PTL DEF Spec
=============================================================================

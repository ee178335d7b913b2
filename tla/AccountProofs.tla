---------------------------- MODULE AccountProofs ----------------------------
(***************************************************************************)
(* Theorems about AccountCodes, for every number of attempts, of handlers  *)
(* running at once, of codes, accounts and passwords, about Media, for any *)
(* images and any number of updates at once, and about the parts of an     *)
(* account together (MC_Accounts).                                         *)
(***************************************************************************)
EXTENDS MC_Accounts, AuthSessionsProofs, RatchetProofs, FiniteSetTheorems, TLAPS

-----------------------------------------------------------------------------
(* Types *)

Sending == [op : {"send"}, known : BOOLEAN]
Checking == [op : {"check"}, for : {"verify", "signup"}, right : BOOLEAN, id : 1..MaxCodes,
             code : 0..MaxCodes, old : BOOLEAN, tries : 1..OtpMaxAttempts]
Creating == [op : {"create"}]
LoggingIn == [op : {"login"}, acc : 1..MaxAccounts, pw : 1..MaxPw, signup : BOOLEAN]
OnAccount == [op : {"forgot", "delete", "remove"}, acc : 1..MaxAccounts]
Resetting == [op : {"reset"}, right : BOOLEAN, acc : 1..MaxAccounts, code : 1..MaxCodes,
              tries : 1..OtpMaxAttempts]
Purging == [op : {"purge"}, acc : 1..MaxAccounts, pw : 1..MaxPw]
Handlers ==
    {Idle} \cup Sending \cup Checking \cup Creating \cup LoggingIn \cup OnAccount \cup Resetting
           \cup Purging

RunsOK == running \in [Slots -> Handlers]
OtpOK == otp \in [id : 0..MaxCodes, code : 0..MaxCodes, tries : 0..OtpMaxAttempts,
                  old : BOOLEAN, cool : BOOLEAN]
AccountOK ==
    /\ account \in [id : 0..MaxAccounts, pw : 0..MaxPw, code : 0..MaxCodes,
                    tries : 0..OtpMaxAttempts, old : BOOLEAN, cool : BOOLEAN]
    /\ account.id = 0 => account.code = 0
    /\ account.id # 0 => account.pw # 0
SessionsOK == sessions \subseteq [acc : 1..MaxAccounts, pw : 1..MaxPw, raced : BOOLEAN]
CountsOK ==
    /\ codes \in 0..MaxCodes /\ ids \in 0..codes /\ born \in 0..MaxAccounts
    /\ mailed \subseteq Kinds
PastOK ==
    /\ wrong \in [Kinds -> Nat] /\ last \in [Kinds -> 0..MaxCodes]
    /\ crossed \in [Kinds -> BOOLEAN] /\ purged \in 0..MaxPw

\* CodesTypeOK, with what a handler knows at each of its steps.
CodesShapes == RunsOK /\ OtpOK /\ AccountOK /\ SessionsOK /\ CountsOK /\ PastOK

LEMMA CodesBounds ==
    /\ OtpMaxAttempts \in Nat /\ OtpMaxAttempts >= 1 /\ MaxPw \in Nat /\ MaxPw >= 1
    /\ MaxCodes \in Nat /\ MaxAccounts \in Nat /\ IsFiniteSet(Slots)
BY CodesAssumption DEF CodesAssumption

LEMMA Zeros ==
    /\ 0 \in 0..OtpMaxAttempts /\ 0 \in 0..MaxPw /\ 0 \in 0..MaxCodes /\ 0 \in 0..MaxAccounts
    /\ 1..MaxAccounts \subseteq 0..MaxAccounts /\ 1 \in 0..MaxPw /\ 0 \notin 1..MaxAccounts
BY CodesBounds

\* What a handler is at can be told from its op.
LEMMA KnownHandlers ==
    ASSUME RunsOK, NEW k \in Slots
    PROVE  /\ At(k, "check") => running[k] \in Checking
           /\ At(k, "login") => running[k] \in LoggingIn
           /\ At(k, "forgot") \/ At(k, "delete") \/ At(k, "remove") => running[k] \in OnAccount
           /\ At(k, "reset") => running[k] \in Resetting
           /\ At(k, "purge") => running[k] \in Purging
<1>1. running[k] \in Handlers
  BY DEF RunsOK
<1> QED BY <1>1 DEF At, Handlers, Idle, Sending, Checking, Creating, LoggingIn, OnAccount,
           Resetting, Purging

LEMMA RunsChange ==
    ASSUME RunsOK, NEW k \in Slots, NEW h \in Handlers, Starts(k, h) \/ Goes(k, h) \/ Ends(k)
    PROVE  RunsOK'
BY DEF RunsOK, Starts, Goes, Ends, Handlers

LEMMA RunsStep ==
    ASSUME CodesShapes, CodesNext
    PROVE  RunsOK'
<1>1. RunsOK /\ OtpOK /\ AccountOK /\ CountsOK
  BY DEF CodesShapes
<1>2. ASSUME NEW k \in Slots, Ends(k) PROVE RunsOK'
  BY <1>1, <1>2, RunsChange DEF Handlers
<1>3. ASSUME NEW k \in Slots, SendReads(k) PROVE RunsOK'
  <2>1. [op |-> "send", known |-> account.id # 0] \in Handlers
    BY DEF Handlers, Sending
  <2> QED BY <1>1, <1>3, <2>1, RunsChange DEF SendReads
<1>4. ASSUME NEW k \in Slots, NEW for \in {"verify", "signup"}, NEW right \in BOOLEAN,
             CheckTries(k, for, right)
      PROVE  RunsOK'
  <2> DEFINE h == [op |-> "check", for |-> for, right |-> right, id |-> otp.id,
                   code |-> otp.code, old |-> otp.old, tries |-> otp.tries + 1]
  <2>1. otp.id \in 1..MaxCodes /\ otp.code \in 0..MaxCodes /\ otp.old \in BOOLEAN
        /\ otp.tries + 1 \in 1..OtpMaxAttempts
    BY <1>1, <1>4, CodesBounds DEF CheckTries, MayTry, OtpOK
  <2>2. h \in Handlers
    BY <2>1 DEF Handlers, Checking
  <2>3. Starts(k, h)
    BY <1>4 DEF CheckTries
  <2> QED BY <1>1, <2>2, <2>3, RunsChange
<1>5. ASSUME NEW k \in Slots, CheckPasses(k) PROVE RunsOK'
  <2>1. [op |-> "create"] \in Handlers
    BY DEF Handlers, Creating
  <2>2. Goes(k, [op |-> "create"]) \/ Ends(k)
    BY <1>5 DEF CheckPasses
  <2> QED BY <1>1, <1>2, <2>1, <2>2, RunsChange
<1>6. ASSUME NEW k \in Slots, SignUpSaves(k) PROVE RunsOK'
  <2>1. born + 1 \in 1..MaxAccounts /\ 1 \in 1..MaxPw
    BY <1>1, <1>6, CodesBounds DEF SignUpSaves, CountsOK
  <2>2. [op |-> "login", acc |-> born + 1, pw |-> 1, signup |-> TRUE] \in Handlers
    BY <2>1 DEF Handlers, LoggingIn
  <2> QED BY <1>1, <1>6, <2>2, RunsChange DEF SignUpSaves
<1>7. ASSUME NEW k \in Slots, LoginCompares(k) \/ ForgotReads(k) \/ DeleteCompares(k) PROVE RunsOK'
  <2>1. account.id \in 1..MaxAccounts /\ account.pw \in 1..MaxPw
    BY <1>1, <1>7, CodesBounds DEF LoginCompares, ForgotReads, DeleteCompares, AccountOK
  <2>2. /\ [op |-> "login", acc |-> account.id, pw |-> account.pw, signup |-> FALSE] \in Handlers
        /\ [op |-> "forgot", acc |-> account.id] \in Handlers
        /\ [op |-> "delete", acc |-> account.id] \in Handlers
    BY <2>1 DEF Handlers, LoggingIn, OnAccount
  <2> QED BY <1>1, <1>7, <2>2, RunsChange DEF LoginCompares, ForgotReads, DeleteCompares
<1>8. ASSUME NEW k \in Slots, NEW right \in BOOLEAN, ResetTries(k, right) PROVE RunsOK'
  <2> DEFINE h == [op |-> "reset", right |-> right, acc |-> account.id, code |-> account.code,
                   tries |-> account.tries + 1]
  <2>1. account.id \in 1..MaxAccounts /\ account.code \in 1..MaxCodes
        /\ account.tries + 1 \in 1..OtpMaxAttempts
    BY <1>1, <1>8, CodesBounds DEF ResetTries, MayTry, AccountOK
  <2>2. h \in Handlers
    BY <2>1 DEF Handlers, Resetting
  <2>3. Starts(k, h)
    BY <1>8 DEF ResetTries
  <2> QED BY <1>1, <2>2, <2>3, RunsChange
<1>9. ASSUME NEW k \in Slots, ResetSaves(k) PROVE RunsOK'
  <2>1. CASE Ends(k)
    BY <1>2, <2>1
  <2>2. CASE Goes(k, [op |-> "purge", acc |-> running[k].acc, pw |-> account.pw + 1])
    <3>1. running[k].acc \in 1..MaxAccounts /\ account.pw + 1 \in 1..MaxPw
      BY <1>1, <1>9, KnownHandlers, CodesBounds DEF ResetSaves, AccountOK, Resetting
    <3>2. [op |-> "purge", acc |-> running[k].acc, pw |-> account.pw + 1] \in Handlers
      BY <3>1 DEF Handlers, Purging
    <3> QED BY <1>1, <2>2, <3>2, RunsChange
  <2> QED BY <1>9, <2>1, <2>2 DEF ResetSaves
<1>10. ASSUME NEW k \in Slots, DeleteClears(k) PROVE RunsOK'
  <2>1. running[k].acc \in 1..MaxAccounts
    BY <1>1, <1>10, KnownHandlers DEF DeleteClears, OnAccount
  <2>2. [op |-> "remove", acc |-> running[k].acc] \in Handlers
    BY <2>1 DEF Handlers, OnAccount
  <2> QED BY <1>1, <1>10, <2>2, RunsChange DEF DeleteClears
<1>11. ASSUME NEW k \in Slots,
              \/ SendWrites(k) \/ CheckFails(k) \/ SignUpRefused(k) \/ IssuesSession(k)
              \/ ForgotSaves(k) \/ ResetFails(k) \/ ResetPurges(k) \/ DeleteRemoves(k)
       PROVE  RunsOK'
  BY <1>2, <1>11 DEF SendWrites, CheckFails, SignUpRefused, IssuesSession, ForgotSaves, ResetFails,
     ResetPurges, DeleteRemoves
<1>12. ASSUME \/ \E s \in sessions : SessionEnds(s)
              \/ CoolsDown \/ SignupCodeAges \/ ResetCodeAges
       PROVE  RunsOK'
  BY <1>1, <1>12 DEF SessionEnds, CoolsDown, SignupCodeAges, ResetCodeAges, RunsOK
<1> QED BY <1>3, <1>4, <1>5, <1>6, <1>7, <1>8, <1>9, <1>10, <1>11, <1>12 DEF CodesNext

LEMMA OtpStep ==
    ASSUME CodesShapes, CodesNext
    PROVE  OtpOK'
<1>1. OtpOK /\ CountsOK
  BY DEF CodesShapes
<1>2. CASE otp' = otp \/ otp' = NoOtp
  <2>1. CASE otp' = otp
    BY <1>1, <2>1 DEF OtpOK
  <2>2. CASE otp' = NoOtp
    BY <2>2, Zeros DEF OtpOK, NoOtp
  <2> QED BY <1>2, <2>1, <2>2
<1>3. ASSUME NEW k \in Slots, SendWrites(k) PROVE OtpOK'
  <2>1. codes + 1 \in 0..MaxCodes /\ ids + 1 \in 0..MaxCodes
    BY <1>1, <1>3, CodesBounds DEF SendWrites, CountsOK
  <2>2. (IF otp.id = 0 THEN ids + 1 ELSE otp.id) \in 0..MaxCodes
    BY <1>1, <2>1 DEF OtpOK
  <2> QED BY <1>3, <2>1, <2>2, CodesBounds DEF SendWrites, OtpOK
<1>4. ASSUME NEW k \in Slots, NEW for, NEW right, CheckTries(k, for, right) PROVE OtpOK'
  <2>1. otp' = [otp EXCEPT !.tries = @ + 1] /\ otp.tries < OtpMaxAttempts
    BY <1>4 DEF CheckTries, MayTry
  <2>2. otp.tries + 1 \in 0..OtpMaxAttempts
    BY <1>1, <2>1, CodesBounds DEF OtpOK
  <2> QED BY <1>1, <2>1, <2>2 DEF OtpOK
<1>5. ASSUME NEW k \in Slots, CheckPasses(k) PROVE OtpOK'
  <2>1. otp' = otp \/ otp' = [otp EXCEPT !.tries = 0]
    BY <1>5 DEF CheckPasses
  <2> QED BY <1>1, <2>1, CodesBounds DEF OtpOK
<1>6. ASSUME CoolsDown PROVE OtpOK'
  BY <1>1, <1>6 DEF CoolsDown, OtpOK
<1>7. ASSUME SignupCodeAges PROVE OtpOK'
  <2>1. otp' = NoOtp \/ otp' = [otp EXCEPT !.old = TRUE]
    BY <1>7 DEF SignupCodeAges
  <2> QED BY <1>1, <1>2, <2>1 DEF OtpOK
<1>8. ASSUME NEW k \in Slots,
             \/ SendReads(k) \/ CheckFails(k) \/ SignUpRefused(k) \/ SignUpSaves(k)
             \/ LoginCompares(k) \/ IssuesSession(k) \/ ForgotReads(k) \/ ForgotSaves(k)
             \/ \E right \in BOOLEAN : ResetTries(k, right)
             \/ ResetFails(k) \/ ResetSaves(k) \/ ResetPurges(k)
             \/ DeleteCompares(k) \/ DeleteClears(k) \/ DeleteRemoves(k)
      PROVE  otp' = otp \/ otp' = NoOtp
  BY <1>8 DEF SendReads, CheckFails, SignUpRefused, SignUpSaves, LoginCompares, IssuesSession,
     ForgotReads, ForgotSaves, ResetTries, ResetFails, ResetSaves, ResetPurges, DeleteCompares,
     DeleteClears, DeleteRemoves
<1>9. ResetCodeAges \/ (\E s \in sessions : SessionEnds(s)) => otp' = otp
  BY DEF ResetCodeAges, SessionEnds
<1> QED BY <1>2, <1>3, <1>4, <1>5, <1>6, <1>7, <1>8, <1>9 DEF CodesNext

LEMMA AccountStep ==
    ASSUME CodesShapes, CodesNext
    PROVE  AccountOK'
<1> DEFINE AccountSet == [id : 0..MaxAccounts, pw : 0..MaxPw, code : 0..MaxCodes,
                          tries : 0..OtpMaxAttempts, old : BOOLEAN, cool : BOOLEAN]
<1>1. AccountOK /\ account \in AccountSet /\ CountsOK /\ RunsOK
  BY DEF CodesShapes, AccountOK
<1>2. CASE account' = account \/ account' = NoAccount
  <2>1. CASE account' = account
    BY <1>1, <2>1 DEF AccountOK
  <2>2. CASE account' = NoAccount
    BY <2>2, Zeros DEF AccountOK, NoAccount
  <2> QED BY <1>2, <2>1, <2>2
<1>3. ASSUME NEW k \in Slots, SignUpSaves(k) PROVE AccountOK'
  <2>1. born + 1 \in 1..MaxAccounts /\ account' = [NoAccount EXCEPT !.id = born + 1, !.pw = 1]
    BY <1>1, <1>3, CodesBounds DEF SignUpSaves, CountsOK
  <2> QED BY <2>1, Zeros DEF AccountOK, NoAccount
<1>4. ASSUME NEW k \in Slots, ForgotSaves(k) PROVE AccountOK'
  <2>1. CASE account' = account
    BY <1>2, <2>1
  <2>2. CASE account' = [account EXCEPT !.code = codes + 1, !.tries = 0, !.old = FALSE,
                                        !.cool = TRUE]
             /\ running[k].acc = account.id
    <3>1. codes + 1 \in 0..MaxCodes /\ running[k].acc \in 1..MaxAccounts
      BY <1>1, <1>4, KnownHandlers, CodesBounds DEF ForgotSaves, CountsOK, OnAccount
    <3>2. account' \in AccountSet /\ account'.id = account.id /\ account'.pw = account.pw
      BY <1>1, <2>2, <3>1, Zeros
    <3> QED BY <1>1, <2>2, <3>1, <3>2, Zeros DEF AccountOK
  <2> QED BY <1>4, <2>1, <2>2 DEF ForgotSaves
<1>5. ASSUME NEW k \in Slots, NEW right, ResetTries(k, right) PROVE AccountOK'
  <2>1. account' = [account EXCEPT !.tries = @ + 1] /\ account.tries < OtpMaxAttempts
    BY <1>5 DEF ResetTries, MayTry
  <2>2. account.tries + 1 \in 0..OtpMaxAttempts
    BY <1>1, <2>1, CodesBounds
  <2> QED BY <1>1, <2>1, <2>2 DEF AccountOK
<1>6. ASSUME NEW k \in Slots, ResetFails(k) \/ ResetSaves(k) PROVE AccountOK'
  <2>1. \/ account' = account \/ account' = [account EXCEPT !.code = 0]
        \/ /\ account' = [account EXCEPT !.pw = @ + 1, !.code = 0, !.tries = 0]
           /\ account.pw < MaxPw
    BY <1>6 DEF ResetFails, ResetSaves
  <2>2. account.pw < MaxPw => account.pw + 1 \in 0..MaxPw /\ account.pw + 1 # 0
    BY <1>1, CodesBounds
  <2>3. CASE account' = [account EXCEPT !.code = 0]
    BY <1>1, <2>3, Zeros DEF AccountOK
  <2>4. CASE /\ account' = [account EXCEPT !.pw = @ + 1, !.code = 0, !.tries = 0]
             /\ account.pw < MaxPw
    BY <1>1, <2>2, <2>4, Zeros DEF AccountOK
  <2> QED BY <1>2, <2>1, <2>3, <2>4
<1>7. ASSUME CoolsDown \/ ResetCodeAges PROVE AccountOK'
  <2>1. account' = [account EXCEPT !.cool = FALSE] \/ account' = [account EXCEPT !.old = TRUE]
    BY <1>7 DEF CoolsDown, ResetCodeAges
  <2> QED BY <1>1, <2>1 DEF AccountOK
<1>8. ASSUME NEW k \in Slots,
             \/ SendReads(k) \/ SendWrites(k) \/ CheckPasses(k) \/ CheckFails(k)
             \/ \E for \in {"verify", "signup"}, right \in BOOLEAN : CheckTries(k, for, right)
             \/ SignUpRefused(k) \/ LoginCompares(k) \/ IssuesSession(k) \/ ForgotReads(k)
             \/ ResetPurges(k) \/ DeleteCompares(k) \/ DeleteClears(k) \/ DeleteRemoves(k)
      PROVE  account' = account \/ account' = NoAccount
  BY <1>8 DEF SendReads, SendWrites, CheckPasses, CheckFails, CheckTries, SignUpRefused,
     LoginCompares, IssuesSession, ForgotReads, ResetPurges, DeleteCompares, DeleteClears,
     DeleteRemoves
<1>9. SignupCodeAges \/ (\E s \in sessions : SessionEnds(s)) => account' = account
  BY DEF SignupCodeAges, SessionEnds
<1> QED BY <1>2, <1>3, <1>4, <1>5, <1>6, <1>7, <1>8, <1>9 DEF CodesNext

LEMMA SessionsStep ==
    ASSUME CodesShapes, CodesNext
    PROVE  SessionsOK'
<1>1. SessionsOK /\ RunsOK
  BY DEF CodesShapes
<1>2. CASE sessions' \subseteq sessions
  BY <1>1, <1>2 DEF SessionsOK
<1>3. ASSUME NEW k \in Slots, IssuesSession(k) PROVE SessionsOK'
  <2>1. running[k].acc \in 1..MaxAccounts /\ running[k].pw \in 1..MaxPw
    BY <1>1, <1>3, KnownHandlers DEF IssuesSession, LoggingIn
  <2>2. PICK r \in BOOLEAN :
          sessions' = sessions \cup {[acc |-> running[k].acc, pw |-> running[k].pw, raced |-> r]}
    BY <1>3 DEF IssuesSession
  <2> QED BY <1>1, <2>1, <2>2 DEF SessionsOK
<1>4. ASSUME NEW k \in Slots,
             \/ SendReads(k) \/ SendWrites(k) \/ CheckPasses(k) \/ CheckFails(k)
             \/ \E for \in {"verify", "signup"}, right \in BOOLEAN : CheckTries(k, for, right)
             \/ SignUpRefused(k) \/ SignUpSaves(k) \/ LoginCompares(k)
             \/ ForgotReads(k) \/ ForgotSaves(k) \/ \E right \in BOOLEAN : ResetTries(k, right)
             \/ ResetFails(k) \/ ResetSaves(k) \/ ResetPurges(k)
             \/ DeleteCompares(k) \/ DeleteClears(k) \/ DeleteRemoves(k)
      PROVE  sessions' \subseteq sessions
  BY <1>4 DEF SendReads, SendWrites, CheckPasses, CheckFails, CheckTries, SignUpRefused,
     SignUpSaves, LoginCompares, ForgotReads, ForgotSaves, ResetTries, ResetFails, ResetSaves,
     ResetPurges, DeleteCompares, DeleteClears, DeleteRemoves
<1>5. ASSUME CoolsDown \/ SignupCodeAges \/ ResetCodeAges \/ \E s \in sessions : SessionEnds(s)
      PROVE  sessions' \subseteq sessions
  BY <1>5 DEF CoolsDown, SignupCodeAges, ResetCodeAges, SessionEnds
<1> QED BY <1>2, <1>3, <1>4, <1>5 DEF CodesNext

LEMMA CountsStep ==
    ASSUME CodesShapes, CodesNext
    PROVE  CountsOK'
<1>1. CountsOK
  BY DEF CodesShapes
<1>2. ASSUME NEW k \in Slots, SendWrites(k) PROVE CountsOK'
  <2>1. codes < MaxCodes /\ codes' = codes + 1 /\ born' = born
        /\ ids' = (IF otp.id = 0 THEN ids + 1 ELSE ids)
    BY <1>2 DEF SendWrites, NewCode
  <2>2. mailed' \subseteq Kinds
    BY <1>1, <1>2 DEF SendWrites, NotMailed, Mails, CountsOK, Kinds
  <2> QED BY <1>1, <2>1, <2>2, CodesBounds DEF CountsOK
<1>3. ASSUME NEW k \in Slots, ForgotSaves(k) PROVE CountsOK'
  <2>1. /\ codes' = codes \/ (codes < MaxCodes /\ codes' = codes + 1)
        /\ born' = born /\ ids' = ids
    BY <1>3 DEF ForgotSaves, NewCode
  <2>2. mailed' \subseteq Kinds
    BY <1>1, <1>3 DEF ForgotSaves, NotMailed, Mails, CountsOK, Kinds
  <2> QED BY <1>1, <2>1, <2>2, CodesBounds DEF CountsOK
<1>4. ASSUME NEW k \in Slots, SignUpSaves(k) PROVE CountsOK'
  BY <1>1, <1>4, CodesBounds DEF SignUpSaves, CountsOK
<1>5. ASSUME NEW k \in Slots,
             \/ SendReads(k) \/ CheckPasses(k) \/ CheckFails(k)
             \/ \E for \in {"verify", "signup"}, right \in BOOLEAN : CheckTries(k, for, right)
             \/ SignUpRefused(k) \/ LoginCompares(k) \/ IssuesSession(k)
             \/ ForgotReads(k) \/ \E right \in BOOLEAN : ResetTries(k, right)
             \/ ResetFails(k) \/ ResetSaves(k) \/ ResetPurges(k)
             \/ DeleteCompares(k) \/ DeleteClears(k) \/ DeleteRemoves(k)
      PROVE  UNCHANGED counters
  BY <1>5 DEF SendReads, CheckPasses, CheckFails, CheckTries, SignUpRefused, LoginCompares,
     IssuesSession, ForgotReads, ResetTries, ResetFails, ResetSaves, ResetPurges, DeleteCompares,
     DeleteClears, DeleteRemoves
<1>6. ASSUME CoolsDown \/ SignupCodeAges \/ ResetCodeAges \/ \E s \in sessions : SessionEnds(s)
      PROVE  UNCHANGED counters
  BY <1>6 DEF CoolsDown, SignupCodeAges, ResetCodeAges, SessionEnds
<1>7. UNCHANGED counters => CountsOK'
  BY <1>1 DEF counters, CountsOK
<1> QED BY <1>2, <1>3, <1>4, <1>5, <1>6, <1>7 DEF CodesNext

LEMMA PastStep ==
    ASSUME CodesShapes, CodesNext
    PROVE  PastOK'
<1>1. PastOK /\ CountsOK /\ RunsOK /\ AccountOK
  BY DEF CodesShapes
<1>2. \A x \in Kinds : wrong[x] \in Nat
  BY <1>1 DEF PastOK
<1>3. CASE UNCHANGED codesHistory
  BY <1>1, <1>3 DEF codesHistory, PastOK
<1>4. ASSUME NEW x \in Kinds, NewCode(x), codes < MaxCodes PROVE PastOK'
  <2>1. codes + 1 \in 0..MaxCodes
    BY <1>1, <1>4, CodesBounds DEF CountsOK
  <2> QED BY <1>1, <1>4, <2>1 DEF NewCode, PastOK
<1>5. ASSUME NEW k \in Slots, SendWrites(k) \/ ForgotSaves(k) PROVE PastOK'
  <2>1. \/ UNCHANGED codesHistory
        \/ \E x \in Kinds : NewCode(x) /\ codes < MaxCodes
    BY <1>5 DEF SendWrites, ForgotSaves, Kinds
  <2> QED BY <1>3, <1>4, <2>1
<1>6. ASSUME NEW k \in Slots, NEW for, NEW right, CheckTries(k, for, right) PROVE PastOK'
  <2>1. /\ wrong' = wrong \/ wrong' = [wrong EXCEPT !["signup"] = @ + 1]
        /\ UNCHANGED <<last, crossed, purged>>
    BY <1>6 DEF CheckTries
  <2>2. wrong["signup"] + 1 \in Nat
    BY <1>2 DEF Kinds
  <2> QED BY <1>1, <2>1, <2>2 DEF PastOK
<1>7. ASSUME NEW k \in Slots, NEW right, ResetTries(k, right) PROVE PastOK'
  <2>1. /\ wrong' = wrong \/ wrong' = [wrong EXCEPT !["reset"] = @ + 1]
        /\ UNCHANGED <<last, crossed, purged>>
    BY <1>7 DEF ResetTries
  <2>2. wrong["reset"] + 1 \in Nat
    BY <1>2 DEF Kinds
  <2> QED BY <1>1, <2>1, <2>2 DEF PastOK
<1>8. ASSUME NEW k \in Slots, CheckPasses(k) \/ CheckFails(k) PROVE PastOK'
  <2>1. /\ wrong' = wrong \/ wrong' = [wrong EXCEPT !["signup"] = 0]
        /\ last' = last \/ last' = [last EXCEPT !["signup"] = 0]
        /\ Crosses(running[k]) /\ UNCHANGED purged
    BY <1>8 DEF CheckPasses, CheckFails
  <2>2. crossed' \in [Kinds -> BOOLEAN]
    <3>1. (crossed["signup"] \/ (running[k].id = otp.id /\ running[k].code # otp.code)) \in BOOLEAN
      OBVIOUS
    <3> QED BY <1>1, <2>1, <3>1 DEF PastOK, Crosses
  <2>3. last' \in [Kinds -> 0..MaxCodes] /\ wrong' \in [Kinds -> Nat]
    BY <1>1, <2>1, Zeros DEF PastOK
  <2> QED BY <1>1, <2>1, <2>2, <2>3 DEF PastOK
<1>9. ASSUME NEW k \in Slots, ResetFails(k) \/ ResetSaves(k) PROVE PastOK'
  <2>1. /\ last' = last \/ last' = [last EXCEPT !["reset"] = 0]
        /\ crossed' = crossed \/ Touches(running[k])
        /\ UNCHANGED <<wrong, purged>>
    BY <1>9 DEF ResetFails, ResetSaves, Uses
  <2>2. crossed' \in [Kinds -> BOOLEAN]
    <3>1. (crossed["reset"] \/ (running[k].code # account.code)) \in BOOLEAN
      OBVIOUS
    <3> QED BY <1>1, <2>1, <3>1 DEF PastOK, Touches
  <2>3. last' \in [Kinds -> 0..MaxCodes]
    BY <1>1, <2>1, Zeros DEF PastOK
  <2> QED BY <1>1, <2>1, <2>2, <2>3 DEF PastOK
<1>10. ASSUME NEW k \in Slots,
              SignUpSaves(k) \/ IssuesSession(k) \/ DeleteClears(k) \/ DeleteRemoves(k)
       PROVE  PastOK'
  <2>1. /\ \/ last' = last \/ last' = [last EXCEPT !["signup"] = 0]
           \/ last' = [last EXCEPT !["reset"] = 0]
        /\ UNCHANGED <<wrong, crossed>> /\ purged' \in {purged, 0}
    BY <1>10 DEF SignUpSaves, IssuesSession, DeleteClears, DeleteRemoves
  <2>2. last' \in [Kinds -> 0..MaxCodes] /\ purged' \in 0..MaxPw
    BY <1>1, <2>1, Zeros DEF PastOK
  <2> QED BY <1>1, <2>1, <2>2 DEF PastOK
<1>11. ASSUME NEW k \in Slots, ResetPurges(k) PROVE PastOK'
  <2>1. running[k].pw \in 0..MaxPw
    BY <1>1, <1>11, KnownHandlers, CodesBounds DEF ResetPurges, Purging
  <2> QED BY <1>1, <1>11, <2>1 DEF ResetPurges, PastOK
<1>12. ASSUME SignupCodeAges \/ ResetCodeAges PROVE PastOK'
  <2>1. /\ last' = [last EXCEPT !["signup"] = 0] \/ last' = [last EXCEPT !["reset"] = 0]
        /\ UNCHANGED <<wrong, crossed, purged>>
    BY <1>12 DEF SignupCodeAges, ResetCodeAges
  <2>2. last' \in [Kinds -> 0..MaxCodes]
    BY <1>1, <2>1, Zeros DEF PastOK
  <2> QED BY <1>1, <2>1, <2>2 DEF PastOK
<1>13. ASSUME NEW k \in Slots,
              \/ SendReads(k) \/ SignUpRefused(k) \/ LoginCompares(k) \/ ForgotReads(k)
              \/ DeleteCompares(k)
       PROVE  UNCHANGED codesHistory
  BY <1>13 DEF SendReads, SignUpRefused, LoginCompares, ForgotReads, DeleteCompares
<1>14. CoolsDown \/ (\E s \in sessions : SessionEnds(s)) => UNCHANGED codesHistory
  BY DEF CoolsDown, SessionEnds
<1> QED BY <1>3, <1>5, <1>6, <1>7, <1>8, <1>9, <1>10, <1>11, <1>12, <1>13, <1>14 DEF CodesNext

LEMMA CodesShapesInit == CodesInit => CodesShapes
<1> SUFFICES ASSUME CodesInit PROVE CodesShapes
  OBVIOUS
<1>1. RunsOK /\ SessionsOK /\ CountsOK
  BY Zeros, CodesBounds DEF CodesInit, RunsOK, Handlers, SessionsOK, CountsOK, Kinds
<1>2. OtpOK
  BY Zeros DEF CodesInit, OtpOK, NoOtp
<1>4. AccountOK
  <2>1. CASE account = NoAccount
    BY <2>1, Zeros DEF AccountOK, NoAccount
  <2>2. CASE account # NoAccount
    <3>1. born = 1 /\ 1 \in 0..MaxAccounts /\ 1 \in 0..MaxPw
      BY <2>2, CodesBounds DEF CodesInit
    <3>2. account = [NoAccount EXCEPT !.id = 1, !.pw = 1]
      BY <2>2, <3>1 DEF CodesInit
    <3> QED BY <3>1, <3>2, Zeros DEF AccountOK, NoAccount
  <2> QED BY <2>1, <2>2
<1>3. PastOK
  BY Zeros DEF CodesInit, PastOK
<1> QED BY <1>1, <1>2, <1>3, <1>4 DEF CodesShapes

LEMMA CodesShapesStep == CodesShapes /\ [CodesNext]_codesVars => CodesShapes'
<1> SUFFICES ASSUME CodesShapes, [CodesNext]_codesVars PROVE CodesShapes'
  OBVIOUS
<1>1. CASE CodesNext
  BY <1>1, RunsStep, OtpStep, AccountStep, SessionsStep, CountsStep, PastStep DEF CodesShapes
<1>2. CASE UNCHANGED codesVars
  BY <1>2 DEF codesVars, CodesShapes, RunsOK, OtpOK, AccountOK, SessionsOK, CountsOK, PastOK
<1> QED BY <1>1, <1>2

LEMMA CodesShapesAlways == CodesSpec => []CodesShapes
BY CodesShapesInit, CodesShapesStep, PTL DEF CodesSpec

(***************************************************************************)
(* AccountCodes stays within its types: in particular no code is ever      *)
(* tried more often than OTP_MAX_ATTEMPTS, and no session is made without  *)
(* an account and a password.                                              *)
(***************************************************************************)
THEOREM CodesTypeCorrect == CodesSpec => []CodesTypeOK
<1>1. CodesShapes => CodesTypeOK
  <2> SUFFICES ASSUME CodesShapes PROVE CodesTypeOK
    OBVIOUS
  <2>1. DOMAIN running = Slots
    BY DEF CodesShapes, RunsOK
  <2>2. ids \in 0..MaxCodes
    BY CodesBounds DEF CodesShapes, CountsOK
  <2> QED BY <2>1, <2>2 DEF CodesShapes, OtpOK, AccountOK, SessionsOK, CountsOK, PastOK, CodesTypeOK
<1> QED BY <1>1, CodesShapesAlways, PTL

-----------------------------------------------------------------------------
(* Guesses *)

\* Every wrong guess made on the present code has used up one of its attempts.
SignupLimited ==
    \/ crossed["signup"]
    \/ wrong["signup"] <= OtpMaxAttempts /\ (otp.id # 0 => wrong["signup"] <= otp.tries)
ResetLimited ==
    wrong["reset"] <= OtpMaxAttempts /\ (account.code # 0 => wrong["reset"] <= account.tries)

LEMMA SignupLimitedStep == CodesShapes /\ SignupLimited /\ [CodesNext]_codesVars => SignupLimited'
<1> SUFFICES ASSUME CodesShapes, SignupLimited, [CodesNext]_codesVars PROVE SignupLimited'
  OBVIOUS
<1> USE DEF SignupLimited
<1>0. /\ RunsOK /\ PastOK /\ wrong["signup"] \in Nat /\ OtpMaxAttempts \in Nat
      /\ otp \in [id : 0..MaxCodes, code : 0..MaxCodes, tries : 0..OtpMaxAttempts,
                  old : BOOLEAN, cool : BOOLEAN]
  BY CodesBounds DEF CodesShapes, PastOK, OtpOK, Kinds
\* Steps that keep the record, or drop it.
<1>1. CASE /\ wrong'["signup"] = wrong["signup"] /\ (crossed["signup"] => crossed'["signup"])
           /\ otp'.id # 0 => otp'.id = otp.id /\ otp'.tries = otp.tries
  BY <1>0, <1>1
<1>2. ASSUME NEW k \in Slots, SendWrites(k) PROVE SignupLimited'
  BY <1>0, <1>2 DEF SendWrites, NewCode, PastOK, Kinds
<1>3. ASSUME NEW k \in Slots, NEW for, NEW right, CheckTries(k, for, right) PROVE SignupLimited'
  <2>1. /\ otp.id # 0 /\ otp.tries < OtpMaxAttempts /\ otp' = [otp EXCEPT !.tries = @ + 1]
        /\ wrong' = IF right THEN wrong ELSE [wrong EXCEPT !["signup"] = @ + 1]
        /\ crossed' = crossed
    BY <1>3 DEF CheckTries, MayTry
  <2>2. otp'.tries = otp.tries + 1 /\ wrong'["signup"] <= wrong["signup"] + 1
        /\ wrong'["signup"] \in Nat
    BY <1>0, <2>1 DEF PastOK, Kinds
  <2> QED BY <1>0, <2>1, <2>2
<1>4. ASSUME NEW k \in Slots, CheckPasses(k) PROVE SignupLimited'
  <2> DEFINE h == running[k]
  <2>1. /\ otp' = IF h.id = otp.id THEN [otp EXCEPT !.tries = 0] ELSE otp
        /\ crossed' = [crossed EXCEPT !["signup"] = @ \/ (h.id = otp.id /\ h.code # otp.code)]
        /\ wrong' = IF h.id = otp.id /\ h.code = otp.code THEN [wrong EXCEPT !["signup"] = 0]
                                                          ELSE wrong
    BY <1>4 DEF CheckPasses, Crosses
  <2>2. CASE h.id # otp.id
    BY <1>0, <1>1, <2>1, <2>2 DEF PastOK, Kinds
  <2>3. CASE h.id = otp.id /\ h.code # otp.code
    BY <1>0, <2>1, <2>3 DEF PastOK, Kinds
  <2>4. CASE h.id = otp.id /\ h.code = otp.code
    <3>1. wrong'["signup"] = 0 /\ otp'.tries = 0
      BY <1>0, <2>1, <2>4 DEF PastOK, Kinds
    <3> QED BY <1>0, <3>1
  <2> QED BY <2>2, <2>3, <2>4
<1>5. ASSUME NEW k \in Slots, CheckFails(k) PROVE SignupLimited'
  <2>1. /\ wrong' = wrong
        /\ otp' = otp \/ otp' = NoOtp
        /\ crossed' = [crossed EXCEPT !["signup"] = @ \/ (running[k].id = otp.id
                                                          /\ running[k].code # otp.code)]
    BY <1>5 DEF CheckFails, Crosses
  <2>2. crossed["signup"] => crossed'["signup"]
    BY <1>0, <2>1 DEF PastOK, Kinds
  <2> QED BY <1>1, <2>1, <2>2 DEF NoOtp
<1>6. ASSUME NEW k \in Slots, ForgotSaves(k) PROVE SignupLimited'
  <2>1. wrong'["signup"] = wrong["signup"] /\ crossed'["signup"] = crossed["signup"] /\ otp' = otp
    BY <1>0, <1>6 DEF ForgotSaves, NewCode, PastOK, Kinds, codesHistory
  <2> QED BY <1>1, <2>1
<1>7. ASSUME NEW k \in Slots,
             \/ SendReads(k) \/ SignUpRefused(k) \/ SignUpSaves(k)
             \/ LoginCompares(k) \/ IssuesSession(k) \/ ForgotReads(k)
             \/ \E right \in BOOLEAN : ResetTries(k, right)
             \/ ResetFails(k) \/ ResetSaves(k) \/ ResetPurges(k)
             \/ DeleteCompares(k) \/ DeleteClears(k) \/ DeleteRemoves(k)
      PROVE  SignupLimited'
  <2>1. otp' = otp \/ otp' = NoOtp
    BY <1>7 DEF SendReads, SignUpRefused, SignUpSaves, LoginCompares, IssuesSession, ForgotReads,
       ResetTries, ResetFails, ResetSaves, ResetPurges, DeleteCompares, DeleteClears, DeleteRemoves
  <2>2. \/ wrong' = wrong
        \/ wrong' = [wrong EXCEPT !["reset"] = @ + 1]
    BY <1>7 DEF SendReads, SignUpRefused, SignUpSaves, LoginCompares, IssuesSession, ForgotReads,
       ResetTries, ResetFails, ResetSaves, ResetPurges, DeleteCompares, DeleteClears, DeleteRemoves,
       codesHistory
  <2>3. crossed' = crossed \/ Touches(running[k])
    BY <1>7 DEF SendReads, SignUpRefused, SignUpSaves, LoginCompares, IssuesSession, ForgotReads,
       ResetTries, ResetFails, ResetSaves, ResetPurges, DeleteCompares, DeleteClears, DeleteRemoves,
       codesHistory
  <2>4. wrong'["signup"] = wrong["signup"] /\ (crossed["signup"] => crossed'["signup"])
    BY <1>0, <2>2, <2>3 DEF Touches, PastOK, Kinds
  <2> QED BY <1>1, <2>1, <2>4 DEF NoOtp
<1>8. ASSUME \/ CoolsDown \/ SignupCodeAges \/ ResetCodeAges \/ \E s \in sessions : SessionEnds(s)
             \/ UNCHANGED codesVars
      PROVE  SignupLimited'
  <2>1. /\ UNCHANGED <<wrong, crossed>>
        /\ \/ otp' = otp \/ otp' = NoOtp \/ otp' = [otp EXCEPT !.cool = FALSE]
           \/ otp' = [otp EXCEPT !.old = TRUE]
    BY <1>8 DEF CoolsDown, SignupCodeAges, ResetCodeAges, SessionEnds, codesHistory, codesVars
  <2>2. otp'.id # 0 => otp'.id = otp.id /\ otp'.tries = otp.tries
    BY <1>0, <2>1 DEF NoOtp
  <2> QED BY <1>1, <2>1, <2>2
<1> HIDE DEF SignupLimited
<1> QED BY <1>2, <1>3, <1>4, <1>5, <1>6, <1>7, <1>8 DEF CodesNext

LEMMA ResetLimitedStep == CodesShapes /\ ResetLimited /\ [CodesNext]_codesVars => ResetLimited'
<1> SUFFICES ASSUME CodesShapes, ResetLimited, [CodesNext]_codesVars PROVE ResetLimited'
  OBVIOUS
<1> USE DEF ResetLimited
<1>0. /\ RunsOK /\ PastOK /\ wrong["reset"] \in Nat /\ OtpMaxAttempts \in Nat
      /\ account \in [id : 0..MaxAccounts, pw : 0..MaxPw, code : 0..MaxCodes,
                      tries : 0..OtpMaxAttempts, old : BOOLEAN, cool : BOOLEAN]
  BY CodesBounds DEF CodesShapes, PastOK, AccountOK, Kinds
<1>1. CASE /\ wrong'["reset"] = wrong["reset"]
           /\ account'.code # 0 => account'.code = account.code /\ account'.tries = account.tries
  BY <1>0, <1>1
<1>2. ASSUME NEW k \in Slots, ForgotSaves(k) PROVE ResetLimited'
  <2>1. CASE UNCHANGED <<account, codesHistory>>
    BY <1>1, <2>1 DEF codesHistory
  <2>2. CASE NewCode("reset")
    <3>1. wrong'["reset"] = 0 /\ account'.tries \in Nat
      BY <1>0, <1>2, <2>2, CodesShapesStep, CodesBounds
         DEF NewCode, PastOK, Kinds, CodesShapes, AccountOK
    <3> QED BY <1>0, <3>1
  <2> QED BY <1>2, <2>1, <2>2 DEF ForgotSaves
<1>3. ASSUME NEW k \in Slots, NEW right, ResetTries(k, right) PROVE ResetLimited'
  <2>1. /\ account.code # 0 /\ account.tries < OtpMaxAttempts
        /\ account' = [account EXCEPT !.tries = @ + 1]
        /\ wrong' = IF right THEN wrong ELSE [wrong EXCEPT !["reset"] = @ + 1]
    BY <1>3 DEF ResetTries, MayTry
  <2>2. account'.tries = account.tries + 1 /\ wrong'["reset"] <= wrong["reset"] + 1
        /\ wrong'["reset"] \in Nat
    BY <1>0, <2>1 DEF PastOK, Kinds
  <2> QED BY <1>0, <2>1, <2>2
<1>4. ASSUME NEW k \in Slots, ResetFails(k) \/ ResetSaves(k) PROVE ResetLimited'
  <2>1. /\ wrong' = wrong
        /\ \/ account' = account \/ account' = [account EXCEPT !.code = 0]
           \/ account' = [account EXCEPT !.pw = @ + 1, !.code = 0, !.tries = 0]
    BY <1>4 DEF ResetFails, ResetSaves
  <2> QED BY <1>0, <1>1, <2>1
<1>5. ASSUME NEW k \in Slots,
             \/ SendReads(k) \/ SignUpRefused(k) \/ SignUpSaves(k) \/ SendWrites(k)
             \/ \E for \in {"verify", "signup"}, right \in BOOLEAN : CheckTries(k, for, right)
             \/ CheckPasses(k) \/ CheckFails(k)
             \/ LoginCompares(k) \/ IssuesSession(k) \/ ForgotReads(k) \/ ResetPurges(k)
             \/ DeleteCompares(k) \/ DeleteClears(k) \/ DeleteRemoves(k)
      PROVE  ResetLimited'
  <2>1. \/ account' = account \/ account' = NoAccount
        \/ account' = [NoAccount EXCEPT !.id = born + 1, !.pw = 1]
    BY <1>5 DEF SendReads, SignUpRefused, SignUpSaves, SendWrites, CheckTries, CheckPasses,
       CheckFails, LoginCompares, IssuesSession, ForgotReads, ResetPurges, DeleteCompares,
       DeleteClears, DeleteRemoves
  <2>2. \/ wrong' = wrong \/ wrong' = [wrong EXCEPT !["signup"] = 0]
        \/ wrong' = [wrong EXCEPT !["signup"] = @ + 1]
    BY <1>5 DEF SendReads, SignUpRefused, SignUpSaves, SendWrites, CheckTries, CheckPasses,
       CheckFails, LoginCompares, IssuesSession, ForgotReads, ResetPurges, DeleteCompares,
       DeleteClears, DeleteRemoves, NewCode, codesHistory
  <2>3. wrong'["reset"] = wrong["reset"]
    BY <1>0, <2>2 DEF PastOK, Kinds
  <2> DEFINE newAcc == [NoAccount EXCEPT !.id = born + 1, !.pw = 1]
  <2>4. NoAccount.code = 0
    BY DEF NoAccount
  <2>5. newAcc.code = NoAccount.code
    BY DEF NoAccount
  <2> HIDE DEF newAcc
  <2>6. account' # account => account'.code = 0
    BY <2>1, <2>4, <2>5 DEF newAcc
  <2>7. CASE account' = account
    BY <1>1, <2>3, <2>7
  <2>8. CASE account'.code = 0
    BY <1>1, <2>3, <2>8
  <2> QED BY <2>6, <2>7, <2>8
<1>6. ASSUME \/ CoolsDown \/ SignupCodeAges \/ ResetCodeAges \/ \E s \in sessions : SessionEnds(s)
             \/ UNCHANGED codesVars
      PROVE  ResetLimited'
  <2>1. /\ wrong' = wrong
        /\ \/ account' = account \/ account' = [account EXCEPT !.cool = FALSE]
           \/ account' = [account EXCEPT !.old = TRUE]
    BY <1>6 DEF CoolsDown, SignupCodeAges, ResetCodeAges, SessionEnds, codesHistory, codesVars
  <2>2. account'.code = account.code /\ account'.tries = account.tries
    BY <1>0, <2>1
  <2> QED BY <1>1, <2>1, <2>2
<1> HIDE DEF ResetLimited
<1> QED BY <1>2, <1>3, <1>4, <1>5, <1>6 DEF CodesNext

(***************************************************************************)
(* A code is never compared with more wrong guesses than allowed, however  *)
(* many handlers run at once (GuessesAreLimited): each has used up an      *)
(* attempt before it compares.                                             *)
(***************************************************************************)
THEOREM CodesGuessesAreLimited == CodesSpec => []GuessesAreLimited
<1>1. CodesInit => SignupLimited /\ ResetLimited
  BY CodesBounds DEF CodesInit, SignupLimited, ResetLimited, NoOtp, NoAccount, Kinds
<1>2. SignupLimited /\ ResetLimited => GuessesAreLimited
  BY DEF SignupLimited, ResetLimited, GuessesAreLimited
<1> QED BY <1>1, <1>2, SignupLimitedStep, ResetLimitedStep, CodesShapesAlways, PTL DEF CodesSpec

-----------------------------------------------------------------------------
(* Sessions *)

\* A session that should be left is of the account, not older than the last reset,
\* and the account is not being removed.
Standing(s) ==
    /\ s.acc = account.id /\ s.pw >= purged
    /\ \A k \in Slots : At(k, "remove") => running[k].acc # s.acc
SessionsStand == \A s \in sessions : s.raced \/ Standing(s)

LEMMA SessionsStandStep == CodesShapes /\ SessionsStand /\ [CodesNext]_codesVars => SessionsStand'
<1> SUFFICES ASSUME CodesShapes, SessionsStand, [CodesNext]_codesVars PROVE SessionsStand'
  OBVIOUS
<1> USE DEF SessionsStand
<1>0. /\ RunsOK /\ account.id \in 0..MaxAccounts /\ 0 \notin 1..MaxAccounts
      /\ purged \in Nat
      /\ \A s \in sessions : s.acc \in 1..MaxAccounts /\ s.pw \in Nat
  BY Zeros, CodesBounds DEF CodesShapes, AccountOK, SessionsOK, PastOK
\* No handler gets to removing an account.
<1>1. ASSUME \A k \in Slots : /\ At(k, "remove")' => At(k, "remove")
                              /\ At(k, "remove")' => running'[k].acc = running[k].acc,
             account'.id = account.id, purged' = purged, sessions' \subseteq sessions
      PROVE  SessionsStand'
  BY <1>1 DEF Standing
<1>2. ASSUME NEW k \in Slots, NEW h, h.op # "remove", Starts(k, h) \/ Goes(k, h) \/ Ends(k)
      PROVE  \A j \in Slots : /\ At(j, "remove")' => At(j, "remove")
                              /\ At(j, "remove")' => running'[j].acc = running[j].acc
  BY <1>0, <1>2 DEF Starts, Goes, Ends, At, RunsOK, Idle
<1>3. ASSUME NEW k \in Slots, IssuesSession(k) PROVE SessionsStand'
  <2> DEFINE n == [acc |-> running[k].acc, pw |-> running[k].pw,
                   raced |-> \/ running[k].acc # account.id \/ running[k].pw < purged
                             \/ \E j \in Slots : At(j, "remove") /\ running[j].acc = running[k].acc]
  <2>1. sessions' = sessions \cup {n} /\ Ends(k) /\ UNCHANGED <<account, purged>>
    BY <1>3 DEF IssuesSession
  <2>2. \A j \in Slots : /\ At(j, "remove")' => At(j, "remove")
                         /\ At(j, "remove")' => running'[j].acc = running[j].acc
    BY <1>0, <2>1 DEF Ends, At, RunsOK, Idle
  <2>3. running[k].pw \in Nat
    BY <1>0, <1>3, KnownHandlers DEF IssuesSession, LoggingIn
  <2>4. n.acc = running[k].acc /\ n.pw = running[k].pw
        /\ (n.raced \/ (/\ n.acc = account.id /\ n.pw >= purged
                        /\ \A j \in Slots : At(j, "remove") => running[j].acc # n.acc))
    BY <1>0, <2>3
  <2> HIDE DEF n
  <2>5. \A s \in sessions' : s.raced \/ (/\ s.acc = account.id /\ s.pw >= purged
                         /\ \A j \in Slots : At(j, "remove") => running[j].acc # s.acc)
    BY <2>1, <2>4 DEF Standing
  <2> QED BY <2>1, <2>2, <2>5 DEF Standing
<1>4. ASSUME NEW k \in Slots, ResetPurges(k) PROVE SessionsStand'
  <2> DEFINE h == running[k]
  <2>1. /\ sessions' = {s \in sessions : s.acc # h.acc} /\ Ends(k) /\ UNCHANGED account
        /\ purged' = IF h.acc = account.id /\ h.pw > purged THEN h.pw ELSE purged
    BY <1>4 DEF ResetPurges
  <2>2. \A j \in Slots : /\ At(j, "remove")' => At(j, "remove")
                         /\ At(j, "remove")' => running'[j].acc = running[j].acc
    BY <1>0, <2>1 DEF Ends, At, RunsOK, Idle
  <2>3. CASE h.acc = account.id
    BY <2>1, <2>3 DEF Standing
  <2>4. CASE h.acc # account.id
    BY <1>1, <2>1, <2>2, <2>4
  <2> QED BY <2>3, <2>4
<1>5. ASSUME NEW k \in Slots, SignUpSaves(k) PROVE SessionsStand'
  BY <1>0, <1>5 DEF SignUpSaves, Standing
<1>6. ASSUME NEW k \in Slots, DeleteClears(k) PROVE SessionsStand'
  <2>1. /\ sessions' = {s \in sessions : s.acc # running[k].acc} /\ UNCHANGED <<account, purged>>
        /\ running' = [running EXCEPT ![k] = [op |-> "remove", acc |-> running[k].acc]]
    BY <1>6 DEF DeleteClears, Goes
  <2>2. /\ running'[k].acc = running[k].acc
        /\ \A j \in Slots \ {k} : running'[j] = running[j]
    BY <1>0, <2>1 DEF RunsOK
  <2> QED BY <2>1, <2>2 DEF Standing, At
<1>7. ASSUME NEW k \in Slots, DeleteRemoves(k) PROVE SessionsStand'
  <2>1. /\ At(k, "remove") /\ UNCHANGED <<sessions, purged>> /\ Ends(k)
        /\ account' = account \/ running[k].acc = account.id
    BY <1>7 DEF DeleteRemoves
  <2>2. CASE account' = account
    BY <1>1, <1>2, <2>1, <2>2 DEF Ends, At, RunsOK, Idle
  <2>3. CASE running[k].acc = account.id
    BY <2>1, <2>3 DEF Standing
  <2> QED BY <2>1, <2>2, <2>3
<1>8. ASSUME NEW k \in Slots,
             \/ SendReads(k) \/ SendWrites(k) \/ CheckPasses(k) \/ CheckFails(k)
             \/ \E for \in {"verify", "signup"}, right \in BOOLEAN : CheckTries(k, for, right)
             \/ SignUpRefused(k) \/ LoginCompares(k)
             \/ ForgotReads(k) \/ ForgotSaves(k) \/ \E right \in BOOLEAN : ResetTries(k, right)
             \/ ResetFails(k) \/ ResetSaves(k) \/ DeleteCompares(k)
      PROVE  SessionsStand'
  <2>1. PICK h : h.op # "remove" /\ (Starts(k, h) \/ Goes(k, h) \/ Ends(k))
    <3>1. \/ \E h : h.op # "remove" /\ (Starts(k, h) \/ Goes(k, h))
          \/ Ends(k) /\ Idle.op # "remove"
      BY <1>8 DEF SendReads, SendWrites, CheckPasses, CheckFails, CheckTries, SignUpRefused,
         LoginCompares, ForgotReads, ForgotSaves, ResetTries, ResetFails, ResetSaves,
         DeleteCompares, Idle
    <3> QED BY <3>1
  <2>2. sessions' = sessions /\ purged' = purged
    BY <1>8 DEF SendReads, SendWrites, CheckPasses, CheckFails, CheckTries, SignUpRefused,
       LoginCompares, ForgotReads, ForgotSaves, ResetTries, ResetFails, ResetSaves,
       DeleteCompares, NewCode, codesHistory
  <2>3. account'.id = account.id
    <3>1. \/ account' = account \/ account' = [account EXCEPT !.tries = @ + 1]
          \/ account' = [account EXCEPT !.code = 0]
          \/ account' = [account EXCEPT !.pw = @ + 1, !.code = 0, !.tries = 0]
          \/ account' = [account EXCEPT !.code = codes + 1, !.tries = 0, !.old = FALSE,
                                        !.cool = TRUE]
      BY <1>8 DEF SendReads, SendWrites, CheckPasses, CheckFails, CheckTries, SignUpRefused,
         LoginCompares, ForgotReads, ForgotSaves, ResetTries, ResetFails, ResetSaves, DeleteCompares
    <3> QED BY <3>1 DEF CodesShapes, AccountOK
  <2> QED BY <1>1, <1>2, <2>1, <2>2, <2>3
<1>9. ASSUME \/ CoolsDown \/ SignupCodeAges \/ ResetCodeAges \/ \E s \in sessions : SessionEnds(s)
             \/ UNCHANGED codesVars
      PROVE  SessionsStand'
  <2>1. /\ UNCHANGED <<running, purged>> /\ sessions' \subseteq sessions
        /\ \/ account' = account \/ account' = [account EXCEPT !.cool = FALSE]
           \/ account' = [account EXCEPT !.old = TRUE]
    BY <1>9 DEF CoolsDown, SignupCodeAges, ResetCodeAges, SessionEnds, codesHistory, codesVars
  <2>2. account'.id = account.id
    BY <2>1 DEF CodesShapes, AccountOK
  <2> QED BY <1>1, <2>1, <2>2 DEF At
<1> HIDE DEF SessionsStand
<1> QED BY <1>3, <1>4, <1>5, <1>6, <1>7, <1>8, <1>9 DEF CodesNext

(***************************************************************************)
(* "Whoever had the old password loses access": no session opened with an  *)
(* older password, or for a deleted account, is left, except where a login *)
(* was between its comparison and its session                              *)
(* (NoSessionOutlivesItsPassword).                                         *)
(***************************************************************************)
THEOREM CodesNoSessionOutlives == CodesSpec => []NoSessionOutlivesItsPassword
<1>1. CodesInit => SessionsStand
  BY DEF CodesInit, SessionsStand
<1>2. CodesShapes /\ SessionsStand => NoSessionOutlivesItsPassword
  <2> SUFFICES ASSUME CodesShapes, SessionsStand, NEW s \in sessions,
                      s.acc # account.id \/ s.pw < purged
               PROVE  s.raced
    BY DEF NoSessionOutlivesItsPassword
  <2>1. s.pw \in Nat /\ purged \in Nat
    BY CodesBounds DEF CodesShapes, SessionsOK, PastOK
  <2> QED BY <2>1 DEF SessionsStand, Standing
<1> QED BY <1>1, <1>2, SessionsStandStep, CodesShapesAlways, PTL DEF CodesSpec

-----------------------------------------------------------------------------
(* The newest code *)

\* The checks that have used up an attempt on the present code for a right guess.
Counting ==
    {k \in Slots : /\ At(k, "check") /\ running[k].right
                   /\ running[k].id = otp.id /\ running[k].code = otp.code}

SignupStands ==
    last["signup"] # 0 =>
      \/ crossed["signup"]
      \/ otp.code = last["signup"] /\ otp.tries <= wrong["signup"] + Cardinality(Counting)
ResetStands ==
    /\ account.id = 0 => last["reset"] = 0
    /\ last["reset"] # 0 => account.code = last["reset"] \/ crossed["reset"]

LEMMA CountingFinite == IsFiniteSet(Counting) /\ Cardinality(Counting) \in Nat
<1>1. Counting \subseteq Slots
  BY DEF Counting
<1> QED BY <1>1, CodesBounds, FS_Subset, FS_CardinalityType

\* A step that leaves the code, its attempts and the checks on it alone.
LEMMA SignupUntouched ==
    ASSUME SignupStands,
           last'["signup"] # 0 => last'["signup"] = last["signup"],
           crossed["signup"] => crossed'["signup"], wrong'["signup"] = wrong["signup"],
           otp'.code = otp.code, otp'.tries = otp.tries,
           Counting' = Counting
    PROVE  SignupStands'
BY DEF SignupStands

\* The steps of the handlers that are not at a check.
LEMMA CountingKept ==
    ASSUME RunsOK, NEW k \in Slots, ~At(k, "check"), NEW h, h.op # "check",
           Starts(k, h) \/ Goes(k, h) \/ Ends(k),
           otp'.id = otp.id, otp'.code = otp.code
    PROVE  Counting' = Counting
<1>1. ~At(k, "check")'
  BY DEF RunsOK, Starts, Goes, Ends, At, Idle
<1>2. \A j \in Slots \ {k} : running'[j] = running[j]
  BY DEF RunsOK, Starts, Goes, Ends
<1> QED BY <1>1, <1>2 DEF Counting, At

LEMMA SignupStandsStep == CodesShapes /\ SignupStands /\ [CodesNext]_codesVars => SignupStands'
<1> SUFFICES ASSUME CodesShapes, SignupStands, [CodesNext]_codesVars PROVE SignupStands'
  OBVIOUS
<1>0. /\ RunsOK /\ PastOK /\ wrong["signup"] \in Nat /\ last["signup"] \in Nat
      /\ otp \in [id : 0..MaxCodes, code : 0..MaxCodes, tries : 0..OtpMaxAttempts,
                  old : BOOLEAN, cool : BOOLEAN]
      /\ otp.tries \in Nat /\ Cardinality(Counting) \in Nat /\ IsFiniteSet(Counting)
  BY CodesBounds, CountingFinite DEF CodesShapes, PastOK, OtpOK, Kinds
<1>1. Cardinality(Counting)' \in Nat
  <2>1. Counting' \subseteq Slots
    BY DEF Counting
  <2> QED BY <2>1, CodesBounds, FS_Subset, FS_CardinalityType
<1>2. ASSUME NEW k \in Slots, SendWrites(k) PROVE SignupStands'
  <2>1. otp'.code = codes + 1 /\ otp'.tries = 0 /\ wrong'["signup"] = 0
        /\ last'["signup"] = codes + 1
    BY <1>0, <1>2 DEF SendWrites, NewCode, PastOK, Kinds
  <2> QED BY <1>1, <2>1 DEF SignupStands
<1>3. ASSUME NEW k \in Slots, NEW for, NEW right \in BOOLEAN, CheckTries(k, for, right)
      PROVE  SignupStands'
  <2> DEFINE h == [op |-> "check", for |-> for, right |-> right, id |-> otp.id,
                   code |-> otp.code, old |-> otp.old, tries |-> otp.tries + 1]
  <2>1. /\ otp' = [otp EXCEPT !.tries = @ + 1] /\ running[k] = Idle
        /\ running' = [running EXCEPT ![k] = h]
        /\ wrong' = IF right THEN wrong ELSE [wrong EXCEPT !["signup"] = @ + 1]
        /\ UNCHANGED <<last, crossed>>
    BY <1>3 DEF CheckTries, Starts
  <2>2. otp'.tries = otp.tries + 1 /\ otp'.id = otp.id /\ otp'.code = otp.code
    BY <1>0, <2>1
  <2>3. /\ running'[k] = h /\ ~At(k, "check")
        /\ \A j \in Slots \ {k} : running'[j] = running[j]
    BY <1>0, <2>1 DEF RunsOK, At, Idle
  <2>4. CASE right
    <3>1. k \notin Counting /\ Counting' = Counting \cup {k}
      BY <2>2, <2>3, <2>4 DEF Counting, At
    <3>2. Cardinality(Counting)' = Cardinality(Counting) + 1
      BY <1>0, <3>1, FS_AddElement
    <3> QED BY <1>0, <2>1, <2>2, <2>4, <3>2 DEF SignupStands
  <2>5. CASE ~right
    <3>1. Counting' = Counting
      BY <2>2, <2>3, <2>5 DEF Counting, At
    <3>2. wrong'["signup"] = wrong["signup"] + 1
      BY <1>0, <2>1, <2>5 DEF PastOK, Kinds
    <3> QED BY <1>0, <2>1, <2>2, <3>1, <3>2 DEF SignupStands
  <2> QED BY <2>4, <2>5
<1>4. ASSUME NEW k \in Slots, CheckPasses(k) PROVE SignupStands'
  <2> DEFINE h == running[k]
  <2>1. /\ At(k, "check")
        /\ otp' = IF h.id = otp.id THEN [otp EXCEPT !.tries = 0] ELSE otp
        /\ crossed' = [crossed EXCEPT !["signup"] = @ \/ (h.id = otp.id /\ h.code # otp.code)]
        /\ wrong' = IF h.id = otp.id /\ h.code = otp.code THEN [wrong EXCEPT !["signup"] = 0]
                                                          ELSE wrong
        /\ last' = last /\ (Goes(k, [op |-> "create"]) \/ Ends(k))
    BY <1>4 DEF CheckPasses, Crosses
  <2>2. crossed["signup"] => crossed'["signup"]
    BY <1>0, <2>1 DEF PastOK, Kinds
  <2>3. CASE h.id # otp.id
    <3>1. otp' = otp /\ wrong' = wrong /\ k \notin Counting
      BY <2>1, <2>3 DEF Counting
    <3>2. ~At(k, "check")' /\ \A j \in Slots \ {k} : running'[j] = running[j]
      BY <1>0, <2>1 DEF RunsOK, Goes, Ends, At, Idle
    <3>3. Counting' = Counting
      BY <3>1, <3>2 DEF Counting, At
    <3> QED BY <2>1, <2>2, <3>1, <3>3, SignupUntouched
  <2>4. CASE h.id = otp.id /\ h.code # otp.code
    <3>1. crossed'["signup"]
      BY <1>0, <2>1, <2>4 DEF PastOK, Kinds
    <3> QED BY <3>1 DEF SignupStands
  <2>5. CASE h.id = otp.id /\ h.code = otp.code
    <3>1. otp'.tries = 0 /\ otp'.code = otp.code /\ wrong'["signup"] = 0
      BY <1>0, <2>1, <2>5 DEF PastOK, Kinds
    <3> QED BY <1>1, <2>1, <2>2, <3>1 DEF SignupStands
  <2> QED BY <2>3, <2>4, <2>5
<1>5. ASSUME NEW k \in Slots, CheckFails(k) PROVE SignupStands'
  <2> DEFINE h == running[k]
             delete == (h.old \/ (~h.right /\ h.tries >= OtpMaxAttempts)) /\ h.id = otp.id
  <2>1. /\ h.old \/ ~h.right
        /\ otp' = IF delete THEN NoOtp ELSE otp
        /\ crossed' = [crossed EXCEPT !["signup"] = @ \/ (h.id = otp.id /\ h.code # otp.code)]
        /\ last' = IF delete /\ h.code = otp.code THEN [last EXCEPT !["signup"] = 0] ELSE last
        /\ wrong' = wrong /\ Ends(k)
    BY <1>5 DEF CheckFails, Crosses
  <2>2. crossed["signup"] => crossed'["signup"]
    BY <1>0, <2>1 DEF PastOK, Kinds
  <2>3. CASE delete /\ h.code = otp.code
    <3>1. last'["signup"] = 0
      BY <1>0, <2>1, <2>3 DEF PastOK, Kinds
    <3> QED BY <3>1 DEF SignupStands
  <2>4. CASE h.id = otp.id /\ h.code # otp.code
    <3>1. crossed'["signup"]
      BY <1>0, <2>1, <2>4 DEF PastOK, Kinds
    <3> QED BY <3>1 DEF SignupStands
  <2>5. CASE ~delete
    <3>1. otp' = otp /\ last' = last /\ k \notin Counting
      BY <2>1, <2>5 DEF Counting
    <3>2. ~At(k, "check")' /\ \A j \in Slots \ {k} : running'[j] = running[j]
      BY <1>0, <2>1 DEF RunsOK, Ends, At, Idle
    <3>3. Counting' = Counting
      BY <3>1, <3>2 DEF Counting, At
    <3> QED BY <2>1, <2>2, <3>1, <3>3, SignupUntouched
  <2> QED BY <2>3, <2>4, <2>5
\* The steps that use the code up.
<1>6. ASSUME last' = [last EXCEPT !["signup"] = 0] PROVE SignupStands'
  BY <1>0, <1>6 DEF SignupStands, PastOK, Kinds
<1>7. ASSUME NEW k \in Slots, ~At(k, "check"), NEW h, h.op # "check",
             Starts(k, h) \/ Goes(k, h) \/ Ends(k), otp' = otp,
             last'["signup"] = last["signup"], crossed'["signup"] = crossed["signup"],
             wrong'["signup"] = wrong["signup"]
      PROVE  SignupStands'
  <2>1. Counting' = Counting
    BY <1>0, <1>7, CountingKept
  <2> QED BY <1>7, <2>1, SignupUntouched
<1>8. ASSUME NEW k \in Slots, IssuesSession(k) PROVE SignupStands'
  <2>1. CASE last' = [last EXCEPT !["signup"] = 0]
    BY <1>6, <2>1
  <2>2. CASE otp' = otp /\ last' = last
    <3>1. Idle.op # "check" /\ ~At(k, "check") /\ Ends(k) /\ UNCHANGED <<wrong, crossed>>
      BY <1>8 DEF IssuesSession, At, Idle
    <3> QED BY <1>7, <2>2, <3>1
  <2> QED BY <1>8, <2>1, <2>2 DEF IssuesSession
<1>9. ASSUME NEW k \in Slots, DeleteClears(k) PROVE SignupStands'
  BY <1>6, <1>9 DEF DeleteClears
<1>10. ASSUME NEW k \in Slots,
              \/ SendReads(k) \/ SignUpRefused(k) \/ SignUpSaves(k)
              \/ LoginCompares(k) \/ ForgotReads(k) \/ ForgotSaves(k)
              \/ \E right \in BOOLEAN : ResetTries(k, right)
              \/ ResetFails(k) \/ ResetSaves(k) \/ ResetPurges(k)
              \/ DeleteCompares(k) \/ DeleteRemoves(k)
       PROVE  SignupStands'
  <2>1. otp' = otp /\ ~At(k, "check")
    BY <1>10 DEF SendReads, SignUpRefused, SignUpSaves, LoginCompares, ForgotReads, ForgotSaves,
       ResetTries, ResetFails, ResetSaves, ResetPurges, DeleteCompares, DeleteRemoves, At, Idle,
       Starts
  <2>2. \E h : h.op # "check" /\ (Starts(k, h) \/ Goes(k, h) \/ Ends(k))
    <3>1. \/ \E h : h.op # "check" /\ (Starts(k, h) \/ Goes(k, h))
          \/ Ends(k) /\ Idle.op # "check"
      BY <1>10 DEF SendReads, SignUpRefused, SignUpSaves, LoginCompares, ForgotReads, ForgotSaves,
         ResetTries, ResetFails, ResetSaves, ResetPurges, DeleteCompares, DeleteRemoves, Idle
    <3> QED BY <3>1
  <2>3. CASE ForgotSaves(k)
    <3>1. last'["signup"] = last["signup"] /\ crossed'["signup"] = crossed["signup"]
          /\ wrong'["signup"] = wrong["signup"]
      BY <1>0, <2>3 DEF ForgotSaves, NewCode, PastOK, Kinds, codesHistory
    <3> QED BY <1>7, <2>1, <2>2, <3>1
  <2>4. CASE ~ForgotSaves(k)
    <3>1. /\ wrong' = wrong \/ wrong' = [wrong EXCEPT !["reset"] = @ + 1]
          /\ last' = last \/ last' = [last EXCEPT !["reset"] = 0]
          /\ crossed' = crossed \/ Touches(running[k])
      BY <1>10, <2>4 DEF SendReads, SignUpRefused, SignUpSaves, LoginCompares, ForgotReads,
         ResetTries, ResetFails, ResetSaves, ResetPurges, DeleteCompares, DeleteRemoves, Uses,
         codesHistory
    <3>2. last'["signup"] = last["signup"] /\ crossed'["signup"] = crossed["signup"]
          /\ wrong'["signup"] = wrong["signup"]
      BY <1>0, <3>1 DEF Touches, PastOK, Kinds
    <3> QED BY <1>7, <2>1, <2>2, <3>2
  <2> QED BY <2>3, <2>4
<1>11. ASSUME \/ CoolsDown \/ SignupCodeAges \/ ResetCodeAges \/ \E s \in sessions : SessionEnds(s)
              \/ UNCHANGED codesVars
       PROVE  SignupStands'
  <2>1. CASE SignupCodeAges
    BY <1>6, <2>1 DEF SignupCodeAges
  <2>2. CASE ~SignupCodeAges
    <3>1. /\ UNCHANGED <<running, wrong, crossed>>
          /\ otp' = otp \/ otp' = [otp EXCEPT !.cool = FALSE]
          /\ last' = last \/ last' = [last EXCEPT !["reset"] = 0]
      BY <1>11, <2>2 DEF CoolsDown, ResetCodeAges, SessionEnds, codesHistory, codesVars
    <3>2. otp'.id = otp.id /\ otp'.code = otp.code /\ otp'.tries = otp.tries
          /\ last'["signup"] = last["signup"]
      BY <1>0, <3>1 DEF PastOK, Kinds
    <3>3. Counting' = Counting
      BY <3>1, <3>2 DEF Counting, At
    <3> QED BY <3>1, <3>2, <3>3, SignupUntouched
  <2> QED BY <2>1, <2>2
<1> QED BY <1>2, <1>3, <1>4, <1>5, <1>8, <1>9, <1>10, <1>11 DEF CodesNext

LEMMA ResetStandsStep == CodesShapes /\ ResetStands /\ [CodesNext]_codesVars => ResetStands'
<1> SUFFICES ASSUME CodesShapes, ResetStands, [CodesNext]_codesVars PROVE ResetStands'
  OBVIOUS
<1>0. /\ RunsOK /\ PastOK /\ born \in Nat
      /\ account \in [id : 0..MaxAccounts, pw : 0..MaxPw, code : 0..MaxCodes,
                      tries : 0..OtpMaxAttempts, old : BOOLEAN, cool : BOOLEAN]
  BY CodesBounds DEF CodesShapes, PastOK, AccountOK, CountsOK
\* Steps that leave the code where it is, and steps that use it up.
<1>1. ASSUME account'.id = account.id, account'.code = account.code,
             last'["reset"] = last["reset"], crossed'["reset"] = crossed["reset"]
      PROVE  ResetStands'
  BY <1>1 DEF ResetStands
<1>2. ASSUME last' = [last EXCEPT !["reset"] = 0] PROVE ResetStands'
  BY <1>0, <1>2 DEF ResetStands, PastOK, Kinds
<1>3. ASSUME NEW k \in Slots, ForgotSaves(k) PROVE ResetStands'
  <2>1. CASE UNCHANGED <<account, codesHistory>>
    BY <1>1, <2>1 DEF codesHistory
  <2>2. CASE ~UNCHANGED <<account, codesHistory>>
    <3>1. /\ account' = [account EXCEPT !.code = codes + 1, !.tries = 0, !.old = FALSE,
                                        !.cool = TRUE]
          /\ last' = [last EXCEPT !["reset"] = codes + 1]
          /\ running[k].acc = account.id /\ running[k] \in OnAccount
      BY <1>0, <1>3, <2>2, KnownHandlers DEF ForgotSaves, NewCode
    <3>2. account'.id # 0
      BY <1>0, <3>1, Zeros DEF OnAccount
    <3>3. account'.code = codes + 1 /\ last'["reset"] = codes + 1
      BY <1>0, <3>1 DEF PastOK, Kinds
    <3> QED BY <3>2, <3>3 DEF ResetStands
  <2> QED BY <2>1, <2>2
<1>4. ASSUME NEW k \in Slots, ResetFails(k) \/ ResetSaves(k) PROVE ResetStands'
  <2>1. CASE UNCHANGED <<account, crossed, last>>
    BY <1>1, <2>1
  <2>2. CASE ~UNCHANGED <<account, crossed, last>>
    <3>1. /\ Touches(running[k]) /\ Uses(running[k])
          /\ \/ account' = [account EXCEPT !.code = 0]
             \/ account' = [account EXCEPT !.pw = @ + 1, !.code = 0, !.tries = 0]
      BY <1>4, <2>2 DEF ResetFails, ResetSaves
    <3>2. CASE running[k].code = account.code
      BY <1>2, <3>1, <3>2 DEF Uses
    <3>3. CASE running[k].code # account.code
      <4>1. crossed'["reset"] /\ last' = last /\ account'.id = account.id
        BY <1>0, <3>1, <3>3 DEF Touches, Uses, PastOK, Kinds
      <4> QED BY <4>1 DEF ResetStands
    <3> QED BY <3>2, <3>3
  <2> QED BY <2>1, <2>2
<1>5. ASSUME NEW k \in Slots, SignUpSaves(k) PROVE ResetStands'
  <2>1. account.id = 0 /\ account' = [NoAccount EXCEPT !.id = born + 1, !.pw = 1] /\ last' = last
    BY <1>5 DEF SignUpSaves
  <2>2. last["reset"] = 0
    BY <2>1 DEF ResetStands
  <2> QED BY <2>1, <2>2 DEF ResetStands
<1>6. ASSUME NEW k \in Slots, DeleteRemoves(k) PROVE ResetStands'
  <2>1. \/ last' = [last EXCEPT !["reset"] = 0]
        \/ UNCHANGED <<account, last, crossed>>
    BY <1>6 DEF DeleteRemoves
  <2> QED BY <1>1, <1>2, <2>1
<1>7. ASSUME NEW k \in Slots,
             \/ SendReads(k) \/ SendWrites(k) \/ CheckPasses(k) \/ CheckFails(k)
             \/ SignUpRefused(k) \/ LoginCompares(k) \/ IssuesSession(k) \/ ForgotReads(k)
             \/ \E right \in BOOLEAN : ResetTries(k, right)
             \/ ResetPurges(k) \/ DeleteCompares(k) \/ DeleteClears(k)
             \/ \E for \in {"verify", "signup"}, right \in BOOLEAN : CheckTries(k, for, right)
      PROVE  ResetStands'
  <2>1. account' = account \/ account' = [account EXCEPT !.tries = @ + 1]
    BY <1>7 DEF SendReads, SendWrites, CheckPasses, CheckFails, SignUpRefused, LoginCompares,
       IssuesSession, ForgotReads, ResetTries, ResetPurges, DeleteCompares, DeleteClears, CheckTries
  <2>2. /\ \/ last' = last \/ last' = [last EXCEPT !["signup"] = 0]
           \/ last' = [last EXCEPT !["signup"] = codes + 1]
        /\ \/ crossed' = crossed \/ Crosses(running[k])
           \/ crossed' = [crossed EXCEPT !["signup"] = FALSE]
    BY <1>7 DEF SendReads, SendWrites, CheckPasses, CheckFails, SignUpRefused, LoginCompares,
       IssuesSession, ForgotReads, ResetTries, ResetPurges, DeleteCompares, DeleteClears,
       CheckTries, NewCode, codesHistory
  <2>3. account'.id = account.id /\ account'.code = account.code
    BY <1>0, <2>1
  <2>4. last'["reset"] = last["reset"] /\ crossed'["reset"] = crossed["reset"]
    BY <1>0, <2>2 DEF Crosses, PastOK, Kinds
  <2> QED BY <1>1, <2>3, <2>4
<1>8. ASSUME \/ CoolsDown \/ SignupCodeAges \/ \E s \in sessions : SessionEnds(s)
             \/ UNCHANGED codesVars
      PROVE  ResetStands'
  <2>1. /\ crossed' = crossed
        /\ last' = last \/ last' = [last EXCEPT !["signup"] = 0]
        /\ account' = account \/ account' = [account EXCEPT !.cool = FALSE]
    BY <1>8 DEF CoolsDown, SignupCodeAges, SessionEnds, codesHistory, codesVars
  <2>2. account'.id = account.id /\ account'.code = account.code /\ last'["reset"] = last["reset"]
    BY <1>0, <2>1 DEF PastOK, Kinds
  <2> QED BY <1>1, <2>1, <2>2
<1>9. CASE ResetCodeAges
  BY <1>2, <1>9 DEF ResetCodeAges
<1> HIDE DEF ResetStands
<1> QED BY <1>3, <1>4, <1>5, <1>6, <1>7, <1>8, <1>9 DEF CodesNext

(***************************************************************************)
(* The newest code stays the one that is checked, with all its attempts    *)
(* but those made on it, until it expires or is used up; unless a handler  *)
(* that began with the code before it changed it (NewestCodeStands).       *)
(***************************************************************************)
THEOREM CodesNewestCodeStands == CodesSpec => []NewestCodeStands
<1>1. CodesInit => SignupStands /\ ResetStands
  BY DEF CodesInit, SignupStands, ResetStands, Kinds
<1>2. CodesShapes /\ SignupStands /\ ResetStands => NewestCodeStands
  <2> SUFFICES ASSUME CodesShapes, SignupStands, ResetStands PROVE NewestCodeStands
    OBVIOUS
  <2> DEFINE Right == {k \in Slots : At(k, "check") /\ running[k].right}
  <2>1. Counting \subseteq Right /\ Right \subseteq Slots
    BY DEF Counting
  <2>2. IsFiniteSet(Right) /\ Cardinality(Counting) <= Cardinality(Right)
        /\ Cardinality(Right) \in Nat /\ Cardinality(Counting) \in Nat
    BY <2>1, CodesBounds, FS_Subset, FS_CardinalityType
  <2>3. wrong["signup"] \in Nat /\ otp.tries \in Nat
    BY CodesBounds DEF CodesShapes, PastOK, OtpOK, Kinds
  <2> HIDE DEF Right
  <2>4. otp.tries <= wrong["signup"] + Cardinality(Counting) =>
          otp.tries <= wrong["signup"] + Cardinality(Right)
    BY <2>2, <2>3
  <2> QED BY <2>4 DEF SignupStands, ResetStands, NewestCodeStands, Right
<1> QED BY <1>1, <1>2, SignupStandsStep, ResetStandsStep, CodesShapesAlways, PTL DEF CodesSpec

-----------------------------------------------------------------------------
(* Images *)

\* Updates are of accounts that exist or did; every image was given an id before
\* it is named anywhere.
MediaShapes ==
    /\ MediaTypeOK
    /\ holder \in {"none", "new"} => NoUpdates
    /\ holder \in {"none", "gone"} => pic = NoImage
    /\ pic \in made \cup {NoImage}
    /\ \A u \in Updates :
        /\ ups[u].stage = "none" => ups[u] = NoUpdate
        /\ {ups[u].image, ups[u].before} \subseteq made \cup {NoImage}
        /\ ups[u].fresh => ups[u].image # NoImage

\* The image an update brings is its own, and nobody knows it before it is set:
\* no profile shows it and no request will delete it.
NewImages ==
    /\ \A u, v \in Updates : ups[u].fresh /\ ups[v].fresh /\ ups[u].image = ups[v].image => u = v
    /\ \A u \in Updates :
        ups[u].fresh /\ ups[u].stage \in {"checked", "read", "stored"} /\ ~stale =>
            /\ pic # ups[u].image
            /\ \A v \in Updates : ups[v].before # ups[u].image
            /\ ups[u].stage = "stored" /\ holder = "member" => ups[u].image \in media

\* What an update deletes is never set again.
OldImages ==
    \A u \in Updates :
        /\ ups[u].stage = "set" /\ ~stale
        /\ ups[u].before \notin {ups[u].image, NoImage}
        => pic # ups[u].before

ShownImage == holder \in {"new", "member"} /\ pic # NoImage /\ ~stale => pic \in media

\* While no two updates overlap and none has failed, what is stored is what the
\* profile shows and what the one update under way will set or delete.
Tidy ==
    ~messy =>
        /\ \A u, v \in Updates : ups[u] # NoUpdate /\ ups[v] # NoUpdate => u = v
        /\ holder # "member" => NoUpdates
        /\ holder \in {"leaving", "gone"} => media = {}
        /\ NoUpdates => media \subseteq {pic}
        /\ \A u \in Updates :
            /\ ups[u].stage \in {"checked", "read"} => media \subseteq {pic}
            /\ ups[u].stage \in {"read", "stored"} => ups[u].before = pic
            /\ ups[u].stage = "stored" => media \subseteq {pic, ups[u].image}
            /\ ups[u].stage = "set" =>
                pic = ups[u].image /\ media \subseteq {ups[u].before, ups[u].image}

AnyUpdate == [stage : {"none", "checked", "read", "stored", "set"},
              image : Images \cup {NoImage}, fresh : BOOLEAN, before : Images \cup {NoImage}]

\* After a step of request u it is x; the others are as they were.
Becomes(u, x) ==
    /\ ups' \in [Updates -> AnyUpdate] /\ ups'[u] = x
    /\ \A v \in Updates : v # u => ups'[v] = ups[v]

LEMMA UpdateBecomes ==
    ASSUME ups \in [Updates -> AnyUpdate], NEW u \in Updates, NEW x \in AnyUpdate,
           ups' = [ups EXCEPT ![u] = x]
    PROVE  Becomes(u, x)
BY DEF Becomes

LEMMA UpdateFields ==
    ASSUME ups \in [Updates -> AnyUpdate], NEW u \in Updates
    PROVE  /\ NoUpdate \in AnyUpdate /\ NoUpdate.stage = "none" /\ NoUpdate.image = NoImage
           /\ ~NoUpdate.fresh /\ NoUpdate.before = NoImage
           /\ ups[u] \in AnyUpdate
           /\ ups[u] = [stage |-> ups[u].stage, image |-> ups[u].image, fresh |-> ups[u].fresh,
                        before |-> ups[u].before]
BY DEF AnyUpdate, NoUpdate

LEMMA UpdateMovesOn ==
    ASSUME ups \in [Updates -> AnyUpdate], NEW u \in Updates, NEW s \in {"stored", "set"},
           UpdateMoves(u, s)
    PROVE  \E x \in AnyUpdate :
             /\ Becomes(u, x)
             /\ x.stage = s /\ x.image = ups[u].image /\ x.fresh = ups[u].fresh
             /\ x.before = ups[u].before
<1> DEFINE x == [ups[u] EXCEPT !.stage = s]
<1>1. ups[u] \in AnyUpdate
  OBVIOUS
<1>2. x \in AnyUpdate /\ x.stage = s /\ x.image = ups[u].image /\ x.fresh = ups[u].fresh
      /\ x.before = ups[u].before
  BY <1>1 DEF AnyUpdate
<1>3. ups' = [ups EXCEPT ![u] = x]
  BY DEF UpdateMoves
<1> HIDE DEF x
<1>4. Becomes(u, x)
  BY <1>2, <1>3, UpdateBecomes
<1> QED BY <1>2, <1>4

LEMMA CheckedBecomes ==
    ASSUME ups \in [Updates -> AnyUpdate], made \subseteq Images, media \subseteq made,
           NEW u \in Updates, UpdateChecks(u)
    PROVE  \E x \in AnyUpdate :
             /\ Becomes(u, x)
             /\ x.stage = "checked" /\ x.before = NoImage
             /\ \/ /\ x.fresh /\ x.image \in Images \ made
                   /\ made' = made \cup {x.image}
                \/ /\ ~x.fresh /\ x.image \in media \cup {NoImage}
                   /\ made' = made
<1>1. ups[u] = NoUpdate
  BY DEF UpdateChecks
<1>2. ASSUME NEW image \in Images \ made, made' = made \cup {image},
             ups' = [ups EXCEPT ![u] = [@ EXCEPT !.stage = "checked", !.image = image,
                                                 !.fresh = TRUE]]
      PROVE  \E x \in AnyUpdate :
               /\ Becomes(u, x) /\ x.stage = "checked" /\ x.before = NoImage
               /\ x.fresh /\ x.image \in Images \ made /\ made' = made \cup {x.image}
  <2> DEFINE x == [ups[u] EXCEPT !.stage = "checked", !.image = image, !.fresh = TRUE]
  <2>1. ups' = [ups EXCEPT ![u] = x]
    BY <1>2
  <2>2. /\ x \in AnyUpdate /\ x.stage = "checked" /\ x.image = image
        /\ x.fresh = TRUE /\ x.before = NoImage
    <3>1. image \in Images \cup {NoImage} /\ ups[u] \in AnyUpdate
      OBVIOUS
    <3>2. ~ups[u].fresh /\ ups[u].fresh \in BOOLEAN /\ ups[u].before = NoImage
      BY <1>1 DEF NoUpdate
    <3> QED BY <3>1, <3>2 DEF AnyUpdate
  <2> HIDE DEF x
  <2>3. Becomes(u, x)
    BY <2>1, <2>2, UpdateBecomes
  <2> QED BY <1>2, <2>2, <2>3
<1>3. ASSUME NEW image \in media \cup {NoImage}, made' = made,
             ups' = [ups EXCEPT ![u] = [@ EXCEPT !.stage = "checked", !.image = image]]
      PROVE  \E x \in AnyUpdate :
               /\ Becomes(u, x) /\ x.stage = "checked" /\ x.before = NoImage
               /\ ~x.fresh /\ x.image \in media \cup {NoImage} /\ made' = made
  <2> DEFINE x == [ups[u] EXCEPT !.stage = "checked", !.image = image]
  <2>1. ups' = [ups EXCEPT ![u] = x]
    BY <1>3
  <2>2. /\ x \in AnyUpdate /\ x.stage = "checked" /\ x.image = image
        /\ x.fresh = FALSE /\ x.before = NoImage
    <3>1. image \in Images \cup {NoImage} /\ ups[u] \in AnyUpdate
      OBVIOUS
    <3>2. ~ups[u].fresh /\ ups[u].fresh \in BOOLEAN /\ ups[u].before = NoImage
      BY <1>1 DEF NoUpdate
    <3> QED BY <3>1, <3>2 DEF AnyUpdate
  <2> HIDE DEF x
  <2>3. Becomes(u, x)
    BY <2>1, <2>2, UpdateBecomes
  <2> QED BY <1>3, <2>2, <2>3
<1>4. \/ \E image \in Images \ made :
           /\ ups' = [ups EXCEPT ![u] = [@ EXCEPT !.stage = "checked", !.image = image,
                                                  !.fresh = TRUE]]
           /\ made' = made \cup {image}
      \/ \E image \in media \cup {NoImage} :
           /\ ups' = [ups EXCEPT ![u] = [@ EXCEPT !.stage = "checked", !.image = image]]
           /\ made' = made
  BY DEF UpdateChecks
<1>5. CASE \E image \in Images \ made :
           /\ ups' = [ups EXCEPT ![u] = [@ EXCEPT !.stage = "checked", !.image = image,
                                                  !.fresh = TRUE]]
           /\ made' = made \cup {image}
  <2>1. PICK x \in AnyUpdate :
               /\ Becomes(u, x) /\ x.stage = "checked" /\ x.before = NoImage
               /\ x.fresh /\ x.image \in Images \ made /\ made' = made \cup {x.image}
    BY <1>2, <1>5
  <2> QED BY <2>1
<1>6. CASE \E image \in media \cup {NoImage} :
           /\ ups' = [ups EXCEPT ![u] = [@ EXCEPT !.stage = "checked", !.image = image]]
           /\ made' = made
  <2>1. PICK x \in AnyUpdate :
               /\ Becomes(u, x) /\ x.stage = "checked" /\ x.before = NoImage
               /\ ~x.fresh /\ x.image \in media \cup {NoImage} /\ made' = made
    BY <1>3, <1>6
  <2> QED BY <2>1
<1> QED BY <1>4, <1>5, <1>6

LEMMA ReadBecomes ==
    ASSUME ups \in [Updates -> AnyUpdate], pic \in Images \cup {NoImage},
           NEW u \in Updates, UpdateReads(u)
    PROVE  \/ holder = "gone" /\ Becomes(u, NoUpdate)
           \/ \E x \in AnyUpdate :
                /\ Becomes(u, x)
                /\ x.stage = "read" /\ x.image = ups[u].image /\ x.fresh = ups[u].fresh
                /\ x.before = pic
<1>1. CASE holder = "gone"
  <2>1. ups' = [ups EXCEPT ![u] = NoUpdate]
    BY <1>1 DEF UpdateReads
  <2> QED BY <1>1, <2>1, UpdateBecomes, UpdateFields
<1>2. CASE holder # "gone"
  <2> DEFINE x == [ups[u] EXCEPT !.stage = "read", !.before = pic]
  <2>1. ups[u] \in AnyUpdate
    OBVIOUS
  <2>2. x \in AnyUpdate /\ x.stage = "read" /\ x.image = ups[u].image
        /\ x.fresh = ups[u].fresh /\ x.before = pic
    BY <2>1 DEF AnyUpdate
  <2>3. ups' = [ups EXCEPT ![u] = x]
    BY <1>2 DEF UpdateReads
  <2> HIDE DEF x
  <2>4. Becomes(u, x)
    BY <2>2, <2>3, UpdateBecomes
  <2> QED BY <2>2, <2>4
<1> QED BY <1>1, <1>2

\* What a step of request u does, in terms of the fields of ups[u].
LEMMA UpdateSteps ==
    ASSUME MediaShapes, NEW u \in Updates
    PROVE  /\ UpdateStores(u) \/ (UpdateSets(u) /\ holder # "gone") =>
                \E x \in AnyUpdate :
                  /\ Becomes(u, x) /\ x.image = ups[u].image /\ x.fresh = ups[u].fresh
                  /\ x.before = ups[u].before
                  /\ x.stage = IF UpdateStores(u) THEN "stored" ELSE "set"
           /\ UpdateSets(u) /\ holder = "gone" => Becomes(u, NoUpdate)
           /\ UpdateDeletes(u) \/ UpdateFails(u) => Becomes(u, NoUpdate)
<1>0. ups \in [Updates -> AnyUpdate]
  BY DEF MediaShapes, MediaTypeOK, AnyUpdate
<1>1. ASSUME UpdateStores(u)
      PROVE  \E x \in AnyUpdate :
               /\ Becomes(u, x) /\ x.image = ups[u].image /\ x.fresh = ups[u].fresh
               /\ x.before = ups[u].before /\ x.stage = "stored"
  BY <1>0, <1>1, UpdateMovesOn DEF UpdateStores
<1>2. ASSUME UpdateSets(u), holder # "gone"
      PROVE  /\ ~UpdateStores(u)
             /\ \E x \in AnyUpdate :
                  /\ Becomes(u, x) /\ x.image = ups[u].image /\ x.fresh = ups[u].fresh
                  /\ x.before = ups[u].before /\ x.stage = "set"
  <2>1. UpdateMoves(u, "set") /\ ups[u].stage = "stored"
    BY <1>2 DEF UpdateSets
  <2>2. ~UpdateStores(u)
    BY <2>1 DEF UpdateStores
  <2> QED BY <1>0, <2>1, <2>2, UpdateMovesOn
<1>3. ASSUME \/ UpdateSets(u) /\ holder = "gone"
             \/ UpdateDeletes(u) \/ UpdateFails(u)
      PROVE  Becomes(u, NoUpdate)
  <2>1. ups' = [ups EXCEPT ![u] = NoUpdate]
    BY <1>3 DEF UpdateSets, UpdateDeletes, UpdateFails
  <2> QED BY <1>0, <2>1, UpdateBecomes, UpdateFields
<1> QED BY <1>1, <1>2, <1>3

LEMMA ImagesInit == MediaInit => MediaShapes /\ NewImages /\ OldImages /\ ShownImage /\ Tidy
<1> SUFFICES ASSUME MediaInit PROVE MediaShapes /\ NewImages /\ OldImages /\ ShownImage /\ Tidy
  OBVIOUS
<1>1. /\ holder = "none" /\ pic = NoImage /\ media = {} /\ made = {}
      /\ messy = FALSE /\ stale = FALSE
      /\ \A u \in Updates : ups[u] = NoUpdate
      /\ ups \in [Updates -> {NoUpdate}]
  BY DEF MediaInit
<1>2. /\ NoUpdate.stage = "none" /\ NoUpdate.image = NoImage
      /\ NoUpdate.fresh = FALSE /\ NoUpdate.before = NoImage
      /\ NoUpdate \in AnyUpdate
  BY DEF NoUpdate, AnyUpdate
<1>3. MediaShapes
  BY <1>1, <1>2 DEF MediaShapes, MediaTypeOK, NoUpdates, AnyUpdate
<1>4. NewImages /\ OldImages /\ ShownImage
  BY <1>1, <1>2 DEF NewImages, OldImages, ShownImage
<1>5. Tidy
  <2>1. \A u, v \in Updates : ~(ups[u] # NoUpdate /\ ups[v] # NoUpdate)
    BY <1>1
  <2>2. \A u \in Updates : ups[u].stage = "none"
    BY <1>1, <1>2
  <2>3. NoUpdates
    BY <1>1 DEF NoUpdates
  <2> QED BY <1>1, <2>1, <2>2, <2>3 DEF Tidy
<1> QED BY <1>3, <1>4, <1>5

LEMMA MediaShapesStep == MediaShapes /\ [MediaNext]_mediaVars => MediaShapes'
<1> SUFFICES ASSUME MediaShapes, [MediaNext]_mediaVars PROVE MediaShapes'
  OBVIOUS
<1>0. ups \in [Updates -> AnyUpdate] /\ NoImage \notin Images
  BY MediaAssumption DEF MediaShapes, MediaTypeOK, AnyUpdate
<1>1. ASSUME UNCHANGED ups, NoUpdates, made \subseteq made',
             holder' \in {"none", "new", "member", "leaving", "gone"},
             pic' \in made' \cup {NoImage}, media' \subseteq made', made' \subseteq Images,
             holder' \in {"none", "gone"} => pic' = NoImage,
             messy' \in BOOLEAN, stale' \in BOOLEAN
      PROVE  MediaShapes'
  BY <1>1 DEF MediaShapes, MediaTypeOK, NoUpdates, NoUpdate
<1>2. CASE PictureStored \/ PictureSaved \/ PictureRefused
  <2>0. holder \in {"none", "new"} => NoUpdates
    BY DEF MediaShapes
  <2>1. CASE PictureStored
    <3>1. PICK image \in (Images \ made) \cup {NoImage} :
            /\ pic' = image
            /\ made' = made \cup ({image} \ {NoImage})
            /\ media' = media \cup ({image} \ {NoImage})
      BY <2>1 DEF PictureStored
    <3>2. /\ holder' = "new" /\ NoUpdates /\ UNCHANGED <<ups, messy, stale>>
      BY <2>0, <2>1 DEF PictureStored
    <3>3. /\ pic' \in made' \cup {NoImage} /\ media' \subseteq made' /\ made' \subseteq Images
          /\ made \subseteq made'
      BY <1>0, <3>1 DEF MediaShapes, MediaTypeOK
    <3> QED BY <1>1, <3>2, <3>3 DEF MediaShapes, MediaTypeOK
  <2>2. CASE PictureSaved
    <3>1. /\ holder' = "member" /\ NoUpdates /\ UNCHANGED <<pic, media, made, ups, messy, stale>>
      BY <2>0, <2>2 DEF PictureSaved
    <3> QED BY <1>1, <3>1 DEF MediaShapes, MediaTypeOK
  <2>3. CASE PictureRefused
    <3>1. /\ holder' = "none" /\ NoUpdates /\ UNCHANGED <<made, ups, messy, stale>>
          /\ pic' = NoImage /\ media' \subseteq media
      BY <2>0, <2>3 DEF PictureRefused, Replaced
    <3> QED BY <1>1, <3>1 DEF MediaShapes, MediaTypeOK
  <2> QED BY <1>2, <2>1, <2>2, <2>3
<1>3. CASE AccountWipes \/ AccountGone
  <2>1. /\ holder' \in {"leaving", "gone"} /\ (holder' = "gone" => pic' = NoImage)
        /\ pic' \in {pic, NoImage} /\ media' \subseteq media /\ UNCHANGED <<made, ups, stale>>
    BY <1>3 DEF AccountWipes, AccountGone
  <2>2. messy' \in BOOLEAN
    <3>1. messy' = messy \/ messy' = (messy \/ ~NoUpdates)
      BY <1>3 DEF AccountWipes, AccountGone
    <3>2. messy \in BOOLEAN
      BY DEF MediaShapes, MediaTypeOK
    <3> QED BY <3>1, <3>2
  <2> QED BY <2>1, <2>2 DEF MediaShapes, MediaTypeOK
<1>4. CASE UNCHANGED mediaVars
  BY <1>4 DEF MediaShapes, MediaTypeOK, mediaVars, NoUpdates
<1>5. ASSUME NEW u \in Updates, NEW x \in AnyUpdate, Becomes(u, x), holder' = holder,
             holder \notin {"none", "new"}, made \subseteq made', made' \subseteq Images,
             media' \subseteq made', messy' \in BOOLEAN, stale' \in BOOLEAN,
             pic' \in made \cup {NoImage}, holder = "gone" => pic' = NoImage,
             {x.image, x.before} \subseteq made' \cup {NoImage},
             x.stage = "none" => x = NoUpdate, x.fresh => x.image # NoImage
      PROVE  MediaShapes'
  <2>1. MediaTypeOK'
    BY <1>5 DEF MediaShapes, MediaTypeOK, Becomes, AnyUpdate
  <2>2. \A v \in Updates :
          /\ ups'[v].stage = "none" => ups'[v] = NoUpdate
          /\ {ups'[v].image, ups'[v].before} \subseteq made' \cup {NoImage}
          /\ ups'[v].fresh => ups'[v].image # NoImage
    BY <1>5 DEF MediaShapes, Becomes
  <2> QED BY <1>5, <2>1, <2>2 DEF MediaShapes
<1>6. ASSUME NEW u \in Updates, ups[u] # NoUpdate PROVE holder \notin {"none", "new"}
  BY <1>6 DEF MediaShapes, NoUpdates
<1>7. ASSUME NEW u \in Updates, Becomes(u, NoUpdate), holder' = holder, pic' = pic,
             made' = made, media' \subseteq media, ups[u] # NoUpdate,
             messy' \in BOOLEAN, stale' \in BOOLEAN
      PROVE  MediaShapes'
  <2>1. /\ NoUpdate \in AnyUpdate /\ {NoUpdate.image, NoUpdate.before} \subseteq {NoImage}
        /\ ~NoUpdate.fresh
    BY <1>0, <1>7, UpdateFields
  <2>2. holder \notin {"none", "new"}
    BY <1>6, <1>7
  <2> QED BY <1>5, <1>7, <2>1, <2>2 DEF MediaShapes, MediaTypeOK
<1>8. ASSUME NEW u \in Updates, UpdateChecks(u) PROVE MediaShapes'
  <2>1. made \subseteq Images /\ media \subseteq made
    BY DEF MediaShapes, MediaTypeOK
  <2>2. PICK x \in AnyUpdate :
             /\ Becomes(u, x)
             /\ x.stage = "checked" /\ x.before = NoImage
             /\ \/ /\ x.fresh /\ x.image \in Images \ made
                   /\ made' = made \cup {x.image}
                \/ /\ ~x.fresh /\ x.image \in media \cup {NoImage}
                   /\ made' = made
    BY <1>0, <1>8, <2>1, CheckedBecomes
  <2>3. /\ holder' = holder /\ holder \in {"member", "leaving"} /\ pic' = pic
        /\ media' = media /\ stale' = stale /\ messy' \in BOOLEAN
    BY <1>8 DEF UpdateChecks, MediaShapes, MediaTypeOK
  <2>4. /\ made \subseteq made' /\ made' \subseteq Images /\ media' \subseteq made'
        /\ x.image \in made' \cup {NoImage} /\ (x.fresh => x.image # NoImage)
    BY <1>0, <2>1, <2>2, <2>3
  <2> QED BY <1>5, <2>2, <2>3, <2>4 DEF MediaShapes, MediaTypeOK
<1>9. ASSUME NEW u \in Updates, UpdateReads(u) PROVE MediaShapes'
  <2>1. /\ UNCHANGED <<holder, pic, media, made, messy, stale>> /\ ups[u].stage = "checked"
    BY <1>9 DEF UpdateReads
  <2>2. ups[u] # NoUpdate
    BY <2>1 DEF NoUpdate
  <2>3. CASE holder = "gone" /\ Becomes(u, NoUpdate)
    BY <1>7, <2>1, <2>2, <2>3 DEF MediaShapes, MediaTypeOK
  <2>4. CASE \E x \in AnyUpdate :
                /\ Becomes(u, x)
                /\ x.stage = "read" /\ x.image = ups[u].image /\ x.fresh = ups[u].fresh
                /\ x.before = pic
    <3>1. PICK x \in AnyUpdate :
                /\ Becomes(u, x)
                /\ x.stage = "read" /\ x.image = ups[u].image /\ x.fresh = ups[u].fresh
                /\ x.before = pic
      BY <2>4
    <3>2. holder \notin {"none", "new"}
      BY <1>6, <2>2
    <3> QED BY <1>5, <2>1, <3>1, <3>2 DEF MediaShapes, MediaTypeOK
  <2>5. pic \in Images \cup {NoImage}
    BY DEF MediaShapes, MediaTypeOK
  <2> QED BY <1>0, <1>9, <2>3, <2>4, <2>5, ReadBecomes
<1>10. ASSUME NEW u \in Updates, UpdateStores(u) \/ (UpdateSets(u) /\ holder # "gone")
       PROVE  MediaShapes'
  <2>1. /\ holder' = holder /\ made' = made /\ messy' = messy /\ stale' \in BOOLEAN
        /\ pic' \in {pic, ups[u].image} /\ ups[u].stage \in {"read", "stored"}
        /\ media' \subseteq media \cup {ups[u].image}
        /\ (ups[u].fresh \/ media' = media)
        /\ (holder = "gone" => pic' = pic)
    BY <1>10 DEF UpdateStores, UpdateSets, MediaShapes, MediaTypeOK
  <2>2. ups[u] # NoUpdate
    BY <2>1 DEF NoUpdate
  <2>3. PICK x \in AnyUpdate :
                  /\ Becomes(u, x) /\ x.image = ups[u].image /\ x.fresh = ups[u].fresh
                  /\ x.before = ups[u].before
                  /\ x.stage = IF UpdateStores(u) THEN "stored" ELSE "set"
    BY <1>10, UpdateSteps
  <2>4. x.stage # "none" /\ holder \notin {"none", "new"}
    BY <1>6, <2>2, <2>3
  <2>5. media' \subseteq made /\ pic' \in made \cup {NoImage}
    BY <2>1 DEF MediaShapes, MediaTypeOK
  <2> QED BY <1>5, <2>1, <2>3, <2>4, <2>5 DEF MediaShapes, MediaTypeOK
<1>11. ASSUME NEW u \in Updates,
              (UpdateSets(u) /\ holder = "gone") \/ UpdateDeletes(u) \/ UpdateFails(u)
       PROVE  MediaShapes'
  <2>1. Becomes(u, NoUpdate)
    BY <1>11, UpdateSteps
  <2>2. /\ holder' = holder /\ pic' = pic /\ made' = made /\ media' \subseteq media
        /\ ups[u] # NoUpdate /\ messy' \in {messy, TRUE} /\ stale' = stale
    <3>1. NoUpdate.stage = "none"
      BY DEF NoUpdate
    <3>2. CASE UpdateSets(u) /\ holder = "gone"
      BY <3>1, <3>2 DEF UpdateSets
    <3>3. CASE UpdateDeletes(u)
      BY <3>1, <3>3 DEF UpdateDeletes, Replaced
    <3>4. CASE UpdateFails(u)
      BY <3>4 DEF UpdateFails
    <3> QED BY <1>11, <3>2, <3>3, <3>4
  <2> QED BY <1>7, <2>1, <2>2 DEF MediaShapes, MediaTypeOK
<1> QED BY <1>2, <1>3, <1>4, <1>8, <1>9, <1>10, <1>11 DEF MediaNext

(***************************************************************************)
(* Every reachable state of Media has the right types, for any images and  *)
(* any number of updates at once; in particular an image is stored only    *)
(* under an id it was given before.                                        *)
(***************************************************************************)
THEOREM MediaTypeCorrect == MediaSpec => []MediaTypeOK
<1>1. MediaInit => MediaShapes
  BY ImagesInit
<1>2. MediaShapes /\ [MediaNext]_mediaVars => MediaShapes'
  BY MediaShapesStep
<1>3. MediaShapes => MediaTypeOK
  BY DEF MediaShapes
<1> QED BY <1>1, <1>2, <1>3, PTL DEF MediaSpec

\* The three invariants about what is shown, and what they say of one request.
Shown == NewImages /\ OldImages /\ ShownImage

LEMMA ShownStep == MediaShapes /\ Shown /\ [MediaNext]_mediaVars => Shown'
<1> SUFFICES ASSUME MediaShapes, NewImages, OldImages, ShownImage, [MediaNext]_mediaVars
             PROVE  NewImages' /\ OldImages' /\ ShownImage'
  BY DEF Shown
<1>0. ups \in [Updates -> AnyUpdate] /\ NoImage \notin Images
  BY MediaAssumption DEF MediaShapes, MediaTypeOK, AnyUpdate
<1>1. /\ NoUpdate.stage = "none" /\ NoUpdate.image = NoImage /\ ~NoUpdate.fresh
      /\ NoUpdate.before = NoImage
  BY DEF NoUpdate
<1>2. CASE PictureStored \/ PictureSaved \/ PictureRefused
  <2>1. \A u \in Updates : ups[u] = NoUpdate /\ ups'[u] = NoUpdate
    BY <1>2 DEF PictureStored, PictureSaved, PictureRefused, MediaShapes, NoUpdates
  <2>2. NewImages' /\ OldImages'
    BY <1>1, <2>1 DEF NewImages, OldImages
  <2>3. ShownImage'
    <3>1. CASE PictureStored
      BY <3>1 DEF PictureStored, ShownImage
    <3>2. CASE PictureSaved
      BY <3>2 DEF PictureSaved, ShownImage
    <3>3. CASE PictureRefused
      BY <3>3 DEF PictureRefused, ShownImage
    <3> QED BY <1>2, <3>1, <3>2, <3>3
  <2> QED BY <2>2, <2>3
<1>3. CASE AccountWipes \/ AccountGone
  <2>1. /\ holder' \in {"leaving", "gone"} /\ pic' \in {pic, NoImage} /\ ups' = ups
        /\ stale' = stale
    BY <1>3 DEF AccountWipes, AccountGone
  <2>2. NewImages'
    BY <2>1 DEF NewImages, MediaShapes
  <2>3. OldImages'
    BY <2>1 DEF OldImages
  <2> QED BY <2>1, <2>2, <2>3 DEF ShownImage
<1>4. CASE UNCHANGED mediaVars
  BY <1>4 DEF mediaVars, NewImages, OldImages, ShownImage
\* A request that ends, when it deletes nothing that is shown or about to be.
<1>5. ASSUME NEW u \in Updates, Becomes(u, NoUpdate), UNCHANGED <<holder, pic, stale>>,
             ~stale => \A i \in media \ media' :
                         /\ i # pic
                         /\ \A v \in Updates : ups[v].fresh /\ ups[v].stage = "stored"
                                               => ups[v].image # i
      PROVE  NewImages' /\ OldImages' /\ ShownImage'
  <2>1. \A v \in Updates : ups'[v] = ups[v] \/ ups'[v] = NoUpdate
    BY <1>5 DEF Becomes
  <2>2. ShownImage'
    BY <1>5 DEF ShownImage
  <2>3. OldImages'
    BY <1>1, <1>5, <2>1 DEF OldImages
  <2>4. \A v, w \in Updates :
          ups'[v].fresh /\ ups'[w].fresh /\ ups'[v].image = ups'[w].image => v = w
    BY <1>1, <2>1 DEF NewImages
  <2>5. ASSUME NEW v \in Updates, ups'[v].fresh,
               ups'[v].stage \in {"checked", "read", "stored"}, ~stale'
        PROVE  /\ pic' # ups'[v].image
               /\ \A w \in Updates : ups'[w].before # ups'[v].image
               /\ ups'[v].stage = "stored" /\ holder' = "member" => ups'[v].image \in media'
    <3>1. ups'[v] = ups[v] /\ ~stale
      BY <1>1, <1>5, <2>1, <2>5
    <3>2. ups[v].image # NoImage
      BY <2>5, <3>1 DEF MediaShapes
    <3>3. /\ pic # ups[v].image
          /\ \A w \in Updates : ups[w].before # ups[v].image
          /\ ups[v].stage = "stored" /\ holder = "member" => ups[v].image \in media
      BY <2>5, <3>1 DEF NewImages
    <3>4. \A w \in Updates : ups'[w].before # ups'[v].image
      BY <1>1, <2>1, <3>1, <3>2, <3>3
    <3> QED BY <1>5, <2>5, <3>1, <3>3, <3>4
  <2> QED BY <2>2, <2>3, <2>4, <2>5 DEF NewImages
<1>6. ASSUME NEW u \in Updates, UpdateChecks(u) PROVE NewImages' /\ OldImages' /\ ShownImage'
  <2>1. made \subseteq Images /\ media \subseteq made
    BY DEF MediaShapes, MediaTypeOK
  <2>2. PICK x \in AnyUpdate :
             /\ Becomes(u, x)
             /\ x.stage = "checked" /\ x.before = NoImage
             /\ \/ /\ x.fresh /\ x.image \in Images \ made
                   /\ made' = made \cup {x.image}
                \/ /\ ~x.fresh /\ x.image \in media \cup {NoImage}
                   /\ made' = made
    BY <1>0, <1>6, <2>1, CheckedBecomes
  <2>3. UNCHANGED <<holder, pic, media, stale>>
    BY <1>6 DEF UpdateChecks
  <2>4. /\ pic \in made \cup {NoImage}
        /\ \A v \in Updates : /\ {ups[v].image, ups[v].before} \subseteq made \cup {NoImage}
                              /\ ups[v].fresh => ups[v].image # NoImage
    BY DEF MediaShapes
  <2>5. ups'[u] = x /\ \A v \in Updates : v # u => ups'[v] = ups[v]
    BY <2>2 DEF Becomes
  <2>6. ShownImage' /\ OldImages'
    BY <2>2, <2>3, <2>5 DEF ShownImage, OldImages
  <2>7. \A v, w \in Updates :
          ups'[v].fresh /\ ups'[w].fresh /\ ups'[v].image = ups'[w].image => v = w
    BY <1>0, <2>2, <2>4, <2>5 DEF NewImages
  <2>8. ASSUME NEW v \in Updates, ups'[v].fresh,
               ups'[v].stage \in {"checked", "read", "stored"}, ~stale'
        PROVE  /\ pic' # ups'[v].image
               /\ \A w \in Updates : ups'[w].before # ups'[v].image
               /\ ups'[v].stage = "stored" /\ holder' = "member" => ups'[v].image \in media'
    <3>1. CASE v = u
      <4>1. x.image \in Images \ made
        BY <2>2, <2>5, <2>8, <3>1
      <4> QED BY <1>0, <2>2, <2>3, <2>4, <2>5, <3>1, <4>1
    <3>2. CASE v # u
      <4>1. ups'[v] = ups[v] /\ ~stale /\ ups[v].image # NoImage
        BY <2>3, <2>4, <2>5, <2>8, <3>2
      <4>2. /\ pic # ups[v].image
            /\ \A w \in Updates : ups[w].before # ups[v].image
            /\ ups[v].stage = "stored" /\ holder = "member" => ups[v].image \in media
        BY <2>8, <4>1 DEF NewImages
      <4> QED BY <2>2, <2>3, <2>5, <4>1, <4>2
    <3> QED BY <3>1, <3>2
  <2> QED BY <2>6, <2>7, <2>8 DEF NewImages
<1>7. ASSUME NEW u \in Updates, UpdateReads(u) PROVE NewImages' /\ OldImages' /\ ShownImage'
  <2>1. UNCHANGED <<holder, pic, media, made, messy, stale>> /\ ups[u].stage = "checked"
    BY <1>7 DEF UpdateReads
  <2>2. pic \in Images \cup {NoImage}
    BY DEF MediaShapes, MediaTypeOK
  <2>3. CASE holder = "gone" /\ Becomes(u, NoUpdate)
    BY <1>5, <2>1, <2>3
  <2>4. CASE \E x \in AnyUpdate :
                /\ Becomes(u, x)
                /\ x.stage = "read" /\ x.image = ups[u].image /\ x.fresh = ups[u].fresh
                /\ x.before = pic
    <3>1. PICK x \in AnyUpdate :
                /\ Becomes(u, x)
                /\ x.stage = "read" /\ x.image = ups[u].image /\ x.fresh = ups[u].fresh
                /\ x.before = pic
      BY <2>4
    <3>2. ups'[u] = x /\ \A v \in Updates : v # u => ups'[v] = ups[v]
      BY <3>1 DEF Becomes
    <3>3. ShownImage' /\ OldImages'
      BY <2>1, <3>1, <3>2 DEF ShownImage, OldImages
    <3>4. NewImages'
      BY <2>1, <3>1, <3>2 DEF NewImages
    <3> QED BY <3>3, <3>4
  <2> QED BY <1>0, <1>7, <2>2, <2>3, <2>4, ReadBecomes
<1>8. ASSUME NEW u \in Updates, UpdateStores(u) PROVE NewImages' /\ OldImages' /\ ShownImage'
  <2>1. /\ UNCHANGED <<holder, pic, made, messy, stale>> /\ ups[u].stage = "read"
        /\ media' = IF ups[u].fresh THEN media \cup {ups[u].image} ELSE media
    BY <1>8 DEF UpdateStores
  <2>2. PICK x \in AnyUpdate :
                  /\ Becomes(u, x) /\ x.image = ups[u].image /\ x.fresh = ups[u].fresh
                  /\ x.before = ups[u].before /\ x.stage = "stored"
    BY <1>8, UpdateSteps
  <2>3. ups'[u] = x /\ \A v \in Updates : v # u => ups'[v] = ups[v]
    BY <2>2 DEF Becomes
  <2>4. ShownImage' /\ OldImages'
    BY <2>1, <2>2, <2>3 DEF ShownImage, OldImages
  <2>5. NewImages'
    BY <2>1, <2>2, <2>3 DEF NewImages
  <2> QED BY <2>4, <2>5
<1>9. ASSUME NEW u \in Updates, UpdateSets(u) PROVE NewImages' /\ OldImages' /\ ShownImage'
  <2>1. CASE holder = "gone"
    <3>1. Becomes(u, NoUpdate) /\ UNCHANGED <<holder, pic, media, stale>>
      BY <1>9, <2>1, UpdateSteps DEF UpdateSets
    <3> QED BY <1>5, <3>1
  <2>2. CASE holder # "gone"
    <3>1. /\ UNCHANGED <<holder, media>> /\ ups[u].stage = "stored" /\ pic' = ups[u].image
          /\ stale' = (stale \/ (~ups[u].fresh /\ ups[u].image \notin {pic, NoImage}))
      BY <1>9, <2>2 DEF UpdateSets
    <3>2. ~UpdateStores(u)
      BY <3>1 DEF UpdateStores
    <3>3. PICK x \in AnyUpdate :
                    /\ Becomes(u, x) /\ x.image = ups[u].image /\ x.fresh = ups[u].fresh
                    /\ x.before = ups[u].before /\ x.stage = "set"
      BY <1>9, <2>2, <3>2, UpdateSteps
    <3>4. ups'[u] = x /\ \A v \in Updates : v # u => ups'[v] = ups[v]
      BY <3>3 DEF Becomes
    <3>5. ~stale' => ~stale /\ (ups[u].fresh \/ ups[u].image \in {pic, NoImage})
      BY <3>1
    <3>6. \A v \in Updates : ups[v].fresh => ups[v].image # NoImage
      BY DEF MediaShapes
    <3>7. ShownImage'
      <4> SUFFICES ASSUME holder \in {"new", "member"}, ups[u].image # NoImage, ~stale'
                   PROVE  ups[u].image \in media
        BY <3>1 DEF ShownImage
      <4>1. CASE ups[u].fresh
        <5>1. holder = "member"
          BY <1>1, <3>1 DEF MediaShapes, NoUpdates
        <5> QED BY <3>1, <3>5, <4>1, <5>1 DEF NewImages
      <4>2. CASE ups[u].image = pic
        BY <3>5, <4>2 DEF ShownImage
      <4> QED BY <3>5, <4>1, <4>2
    <3>8. OldImages'
      <4> SUFFICES ASSUME NEW v \in Updates, ups'[v].stage = "set", ~stale',
                          ups'[v].before \notin {ups'[v].image, NoImage}
                   PROVE  ups[u].image # ups'[v].before
        BY <3>1 DEF OldImages
      <4>1. CASE v = u
        BY <3>3, <3>4, <4>1
      <4>2. CASE v # u
        <5>1. ups'[v] = ups[v]
          BY <3>4, <4>2
        <5>2. CASE ups[u].fresh
          BY <3>1, <3>5, <5>1, <5>2 DEF NewImages
        <5>3. CASE ups[u].image \in {pic, NoImage}
          BY <3>5, <5>1, <5>3 DEF OldImages
        <5> QED BY <3>5, <5>2, <5>3
      <4> QED BY <4>1, <4>2
    <3>9. \A v, w \in Updates :
            ups'[v].fresh /\ ups'[w].fresh /\ ups'[v].image = ups'[w].image => v = w
      BY <3>3, <3>4 DEF NewImages
    <3>10. ASSUME NEW v \in Updates, ups'[v].fresh,
                  ups'[v].stage \in {"checked", "read", "stored"}, ~stale'
           PROVE  /\ pic' # ups'[v].image
                  /\ \A w \in Updates : ups'[w].before # ups'[v].image
                  /\ ups'[v].stage = "stored" /\ holder' = "member" => ups'[v].image \in media'
      <4>1. v # u /\ ups'[v] = ups[v] /\ ~stale
        BY <3>3, <3>4, <3>5, <3>10
      <4>2. /\ pic # ups[v].image
            /\ \A w \in Updates : ups[w].before # ups[v].image
            /\ ups[v].stage = "stored" /\ holder = "member" => ups[v].image \in media
        BY <3>10, <4>1 DEF NewImages
      <4>3. \A w \in Updates : ups'[w].before # ups'[v].image
        BY <3>3, <3>4, <4>1, <4>2
      <4>4. ups[u].image # ups[v].image
        <5>1. CASE ups[u].fresh
          BY <3>10, <4>1, <5>1 DEF NewImages
        <5>2. CASE ups[u].image \in {pic, NoImage}
          BY <3>6, <3>10, <4>1, <4>2, <5>2
        <5> QED BY <3>5, <3>10, <5>1, <5>2
      <4> QED BY <3>1, <4>1, <4>2, <4>3, <4>4
    <3> QED BY <3>7, <3>8, <3>9, <3>10 DEF NewImages
  <2> QED BY <2>1, <2>2
<1>10. ASSUME NEW u \in Updates, UpdateDeletes(u) PROVE NewImages' /\ OldImages' /\ ShownImage'
  <2>1. /\ UNCHANGED <<holder, pic, stale>> /\ ups[u].stage = "set"
        /\ media' = IF ups[u].before = ups[u].image THEN media ELSE media \ {ups[u].before}
    BY <1>10 DEF UpdateDeletes, Replaced
  <2>2. Becomes(u, NoUpdate)
    BY <1>10, UpdateSteps
  <2>3. ASSUME ~stale, NEW i \in media \ media'
        PROVE  /\ i # pic
               /\ \A v \in Updates : ups[v].fresh /\ ups[v].stage = "stored" => ups[v].image # i
    <3>1. i = ups[u].before /\ i # ups[u].image /\ i # NoImage
      <4>1. media \subseteq Images
        BY DEF MediaShapes, MediaTypeOK
      <4> QED BY <1>0, <2>1, <2>3, <4>1
    <3> QED BY <2>1, <2>3, <3>1 DEF OldImages, NewImages
  <2> QED BY <1>5, <2>1, <2>2, <2>3
<1>11. ASSUME NEW u \in Updates, UpdateFails(u) PROVE NewImages' /\ OldImages' /\ ShownImage'
  <2>1. Becomes(u, NoUpdate) /\ UNCHANGED <<holder, pic, media, stale>>
    BY <1>11, UpdateSteps DEF UpdateFails
  <2> QED BY <1>5, <2>1
<1> QED BY <1>2, <1>3, <1>4, <1>6, <1>7, <1>8, <1>9, <1>10, <1>11 DEF MediaNext

\* What Tidy says of one request.
TidyAbout(u) ==
    /\ ups[u].stage \in {"checked", "read"} => media \subseteq {pic}
    /\ ups[u].stage \in {"read", "stored"} => ups[u].before = pic
    /\ ups[u].stage = "stored" => media \subseteq {pic, ups[u].image}
    /\ ups[u].stage = "set" => pic = ups[u].image /\ media \subseteq {ups[u].before, ups[u].image}

LEMMA TidyStep == MediaShapes /\ Tidy /\ [MediaNext]_mediaVars => Tidy'
<1> SUFFICES ASSUME MediaShapes, Tidy, [MediaNext]_mediaVars PROVE Tidy'
  OBVIOUS
<1>0. ups \in [Updates -> AnyUpdate] /\ NoImage \notin Images
  BY MediaAssumption DEF MediaShapes, MediaTypeOK, AnyUpdate
<1>1. NoUpdate.stage = "none"
  BY DEF NoUpdate
\* No request is under way before the account is there.
<1>2. ASSUME \A u \in Updates : ups'[u] = NoUpdate,
             ~messy' /\ holder' \in {"leaving", "gone"} => media' = {},
             ~messy' => media' \subseteq {pic'}
      PROVE  Tidy'
  BY <1>1, <1>2 DEF Tidy, NoUpdates
<1>3. CASE PictureStored \/ PictureSaved \/ PictureRefused
  <2>1. \A u \in Updates : ups'[u] = NoUpdate
    BY <1>3 DEF PictureStored, PictureSaved, PictureRefused, MediaShapes, NoUpdates
  <2>2. /\ NoUpdates /\ (holder = "none" => pic = NoImage) /\ NoImage \notin media
    BY <1>0, <1>3 DEF PictureStored, PictureSaved, PictureRefused, MediaShapes, MediaTypeOK
  <2>3. ~messy => media \subseteq {pic}
    BY <2>2 DEF Tidy
  <2>4. CASE PictureStored
    BY <1>2, <2>1, <2>2, <2>3, <2>4 DEF PictureStored
  <2>5. CASE PictureSaved
    BY <1>2, <2>1, <2>3, <2>5 DEF PictureSaved
  <2>6. CASE PictureRefused
    <3>1. ~messy => media' = {}
      BY <2>2, <2>3, <2>6 DEF PictureRefused, Replaced
    <3>2. messy' = messy /\ holder' = "none"
      BY <2>6 DEF PictureRefused
    <3>3. ~messy' => media' \subseteq {pic'}
      BY <3>1, <3>2
    <3> QED BY <1>2, <2>1, <3>2, <3>3
  <2> QED BY <1>3, <2>4, <2>5, <2>6
<1>4. CASE AccountWipes \/ AccountGone
  <2>1. ~messy' => ~messy /\ NoUpdates /\ media' = {}
    <3>1. CASE AccountWipes
      BY <3>1 DEF AccountWipes
    <3>2. CASE AccountGone
      BY <3>2 DEF AccountGone, Tidy
    <3> QED BY <1>4, <3>1, <3>2
  <2>2. ups' = ups
    BY <1>4 DEF AccountWipes, AccountGone
  <2> QED BY <1>1, <2>1, <2>2 DEF Tidy, NoUpdates
<1>5. CASE UNCHANGED mediaVars
  BY <1>5 DEF mediaVars, Tidy, NoUpdates
\* A request goes on, and is the only one.
<1>6. ASSUME NEW u \in Updates, NEW x \in AnyUpdate, Becomes(u, x), x.stage # "none",
             ~messy' => ~messy /\ holder' = "member"
                        /\ \A v \in Updates : ups[v] # NoUpdate => v = u,
             ~messy' => TidyAbout(u)'
      PROVE  Tidy'
  <2> SUFFICES ASSUME ~messy' PROVE Tidy'
    BY DEF Tidy
  <2>1. /\ ups'[u] = x /\ x # NoUpdate
        /\ \A v \in Updates : v # u => ups'[v] = NoUpdate
    BY <1>1, <1>6 DEF Becomes
  <2>2. \A v, w \in Updates : ups'[v] # NoUpdate /\ ups'[w] # NoUpdate => v = w
    BY <2>1
  <2>3. ~NoUpdates' /\ holder' = "member"
    BY <1>6, <2>1 DEF NoUpdates
  <2>4. \A v \in Updates : TidyAbout(v)'
    BY <1>1, <1>6, <2>1 DEF TidyAbout
  <2> QED BY <2>2, <2>3, <2>4 DEF Tidy, TidyAbout
\* The only request ends.
<1>7. ASSUME NEW u \in Updates, Becomes(u, NoUpdate), ups[u] # NoUpdate, holder' = holder,
             ~messy' => ~messy /\ media' \subseteq {pic'}
      PROVE  Tidy'
  <2> SUFFICES ASSUME ~messy' PROVE Tidy'
    BY DEF Tidy
  <2>1. holder = "member" /\ \A v \in Updates : ups[v] # NoUpdate => v = u
    BY <1>7 DEF Tidy, NoUpdates
  <2>2. \A v \in Updates : ups'[v] = NoUpdate
    BY <1>7, <2>1 DEF Becomes
  <2> QED BY <1>2, <1>7, <2>1, <2>2
\* What Tidy says before a step of a request that is under way.
<1>8. ASSUME NEW u \in Updates, ups[u] # NoUpdate, ~messy
      PROVE  /\ holder = "member" /\ TidyAbout(u)
             /\ \A v \in Updates : ups[v] # NoUpdate => v = u
  BY <1>8 DEF Tidy, TidyAbout, NoUpdates
<1>9. ASSUME NEW u \in Updates, UpdateChecks(u) PROVE Tidy'
  <2>1. made \subseteq Images /\ media \subseteq made
    BY DEF MediaShapes, MediaTypeOK
  <2>2. PICK x \in AnyUpdate : Becomes(u, x) /\ x.stage = "checked"
    BY <1>0, <1>9, <2>1, CheckedBecomes
  <2>3. /\ UNCHANGED <<holder, pic, media>> /\ holder \in {"member", "leaving"}
        /\ messy' = (messy \/ ~NoUpdates \/ holder = "leaving")
    BY <1>9 DEF UpdateChecks
  <2>4. ~messy' => ~messy /\ NoUpdates /\ holder' = "member"
    BY <2>3
  <2>5. ~messy' => media' \subseteq {pic'}
    BY <2>3, <2>4 DEF Tidy
  <2>6. ~messy' => TidyAbout(u)'
    BY <2>2, <2>5 DEF TidyAbout, Becomes
  <2>7. ~messy' => \A v \in Updates : ups[v] # NoUpdate => v = u
    BY <2>4 DEF NoUpdates
  <2> QED BY <1>6, <2>2, <2>4, <2>6, <2>7
<1>10. ASSUME NEW u \in Updates, UpdateReads(u) PROVE Tidy'
  <2>1. UNCHANGED <<holder, pic, media, messy>> /\ ups[u].stage = "checked"
    BY <1>10 DEF UpdateReads
  <2>2. ups[u] # NoUpdate /\ pic \in Images \cup {NoImage}
    BY <1>1, <2>1 DEF MediaShapes, MediaTypeOK
  <2>3. CASE holder = "gone" /\ Becomes(u, NoUpdate)
    <3>1. ~messy' => FALSE
      BY <1>8, <2>1, <2>2, <2>3
    <3> QED BY <3>1 DEF Tidy
  <2>4. CASE \E x \in AnyUpdate :
                /\ Becomes(u, x)
                /\ x.stage = "read" /\ x.image = ups[u].image /\ x.fresh = ups[u].fresh
                /\ x.before = pic
    <3>1. PICK x \in AnyUpdate : Becomes(u, x) /\ x.stage = "read" /\ x.before = pic
      BY <2>4
    <3>2. ~messy' => TidyAbout(u)'
      BY <1>8, <2>1, <2>2, <3>1 DEF TidyAbout, Becomes
    <3> QED BY <1>6, <1>8, <2>1, <2>2, <3>1, <3>2
  <2> QED BY <1>0, <1>10, <2>2, <2>3, <2>4, ReadBecomes
<1>11. ASSUME NEW u \in Updates, UpdateStores(u) PROVE Tidy'
  <2>1. /\ UNCHANGED <<holder, pic, messy>> /\ ups[u].stage = "read"
        /\ media' \subseteq media \cup {ups[u].image}
    BY <1>11 DEF UpdateStores
  <2>2. ups[u] # NoUpdate
    BY <1>1, <2>1
  <2>3. PICK x \in AnyUpdate :
                  /\ Becomes(u, x) /\ x.image = ups[u].image
                  /\ x.before = ups[u].before /\ x.stage = "stored"
    BY <1>11, UpdateSteps
  <2>4. ~messy' => TidyAbout(u)'
    BY <1>8, <2>1, <2>2, <2>3 DEF TidyAbout, Becomes
  <2> QED BY <1>6, <1>8, <2>1, <2>2, <2>3, <2>4
<1>12. ASSUME NEW u \in Updates, UpdateSets(u) PROVE Tidy'
  <2>1. UNCHANGED <<holder, media, messy>> /\ ups[u].stage = "stored"
    BY <1>12 DEF UpdateSets
  <2>2. ups[u] # NoUpdate
    BY <1>1, <2>1
  <2>3. CASE holder = "gone"
    <3>1. ~messy' => FALSE
      BY <1>8, <2>1, <2>2, <2>3
    <3> QED BY <3>1 DEF Tidy
  <2>4. CASE holder # "gone"
    <3>1. pic' = ups[u].image /\ ~UpdateStores(u)
      BY <1>12, <2>1, <2>4 DEF UpdateSets, UpdateStores
    <3>2. PICK x \in AnyUpdate :
                    /\ Becomes(u, x) /\ x.image = ups[u].image
                    /\ x.before = ups[u].before /\ x.stage = "set"
      BY <1>12, <2>4, <3>1, UpdateSteps
    <3>3. ~messy' => TidyAbout(u)'
      BY <1>8, <2>1, <2>2, <3>1, <3>2 DEF TidyAbout, Becomes
    <3> QED BY <1>6, <1>8, <2>1, <2>2, <3>2, <3>3
  <2> QED BY <2>3, <2>4
<1>13. ASSUME NEW u \in Updates, UpdateDeletes(u) PROVE Tidy'
  <2>1. /\ UNCHANGED <<holder, pic, messy>> /\ ups[u].stage = "set"
        /\ media' = IF ups[u].before = ups[u].image THEN media ELSE media \ {ups[u].before}
    BY <1>13 DEF UpdateDeletes, Replaced
  <2>2. ups[u] # NoUpdate /\ Becomes(u, NoUpdate)
    BY <1>1, <1>13, <2>1, UpdateSteps
  <2>3. ~messy => media' \subseteq {pic}
    BY <1>8, <2>1, <2>2 DEF TidyAbout
  <2> QED BY <1>7, <2>1, <2>2, <2>3
<1>14. ASSUME NEW u \in Updates, UpdateFails(u) PROVE Tidy'
  BY <1>14 DEF UpdateFails, Tidy
<1> QED BY <1>3, <1>4, <1>5, <1>9, <1>10, <1>11, <1>12, <1>13, <1>14 DEF MediaNext

(***************************************************************************)
(* However many updates of a profile overlap and wherever they fail, the   *)
(* image it shows is stored, unless a URL was set again that another       *)
(* update had replaced; and updates that neither overlap nor fail leave    *)
(* nothing else behind (updateProfile and deleteReplacedImage).            *)
(***************************************************************************)
THEOREM MediaMatches == MediaSpec => []MediaMatchesProfile
<1> DEFINE IInv == MediaShapes /\ Shown /\ Tidy
<1>1. MediaInit => IInv
  BY ImagesInit DEF Shown
<1>2. IInv /\ [MediaNext]_mediaVars => IInv'
  BY MediaShapesStep, ShownStep, TidyStep
<1>3. IInv => MediaMatchesProfile
  BY DEF Shown, ShownImage, Tidy, MediaMatchesProfile
<1> QED BY <1>1, <1>2, <1>3, PTL DEF MediaSpec

-----------------------------------------------------------------------------
(* The parts together *)

LEMMA AccountsKeepSessions == Spec => AuthSpec
<1>1. Init => AuthInit
  BY DEF Init
<1>2. [Next]_vars => [AuthNext]_authVars
  BY DEF Next, vars, accountVars
<1> QED BY <1>1, <1>2, PTL DEF Spec, AuthSpec

LEMMA AccountsKeepCodes == Spec => CodesSpec
<1>1. Init => CodesInit
  BY DEF Init
<1>2. [Next]_vars => [CodesNext]_codesVars
  BY DEF Next, vars, accountVars
<1> QED BY <1>1, <1>2, PTL DEF Spec, CodesSpec

LEMMA AccountsKeepMedia == Spec => MediaSpec
<1>1. Init => MediaInit
  BY DEF Init
<1>2. [Next]_vars => [MediaNext]_mediaVars
  BY DEF Next, vars, accountVars
<1> QED BY <1>1, <1>2, PTL DEF Spec, MediaSpec

LEMMA AccountsKeepRatchet == Spec => RatchetSpec
<1>1. Init => RatchetInit
  BY DEF Init
<1>2. [Next]_vars => [RatchetNext]_ratchetVars
  BY DEF Next, vars, talkVars
<1> QED BY <1>1, <1>2, PTL DEF Spec, RatchetSpec

LEMMA AccountsKeepLock == Spec => MutexSpec
<1>1. Init => MutexInit
  BY DEF Init
<1>2. [Next]_vars => [MutexNext]_mutexVars
  BY DEF Next, vars, talkVars
<1> QED BY <1>1, <1>2, PTL DEF Spec, MutexSpec

LEMMA AccountsKeepRepair == Spec => RepairSpec
<1>1. Init => RepairInit
  BY DEF Init
<1>2. [Next]_vars => [RepairNext]_repairVars
  BY DEF Next, vars, talkVars
<1> QED BY <1>1, <1>2, PTL DEF Spec, RepairSpec

\* Whichever part of an account runs, its state has its types and bounds (MC_Accounts).
THEOREM AccountTypesCorrect == Spec => []Types
<1>1. /\ AuthTypeOK /\ CodesTypeOK /\ MediaTypeOK
      /\ RatchetTypeOK /\ MutexTypeOK /\ RepairTypeOK
      => Types
  BY DEF Types
<1> QED BY <1>1, AccountsKeepSessions, AccountsKeepCodes, AccountsKeepMedia, AccountsKeepRatchet,
           AccountsKeepLock, AccountsKeepRepair, AuthTypeCorrect, CodesTypeCorrect,
           MediaTypeCorrect, RatchetTypeCorrect, MutexTypeCorrect, RepairTypeCorrect, PTL

=============================================================================

---------------------------- MODULE AccountCodes ----------------------------
(***************************************************************************)
(* One email address: its signup code (the Otp record), its account with   *)
(* the password-reset code (user.js), the sessions issued for it, and the  *)
(* handlers of AuthController.js that use them. Each handler awaits the    *)
(* database between its steps, so the steps of several interleave.         *)
(***************************************************************************)
EXTENDS Naturals, FiniteSets

CONSTANTS
    OtpMaxAttempts, \* OTP_MAX_ATTEMPTS (5)
    Slots,          \* the handlers that can run at once
    MaxCodes,       \* bound: codes issued, of either kind
    MaxAccounts,    \* bound: accounts created for the address, one after the other
    MaxPw           \* bound: passwords

ASSUME CodesAssumption ==
    /\ {OtpMaxAttempts, MaxPw} \subseteq Nat \ {0}
    /\ {MaxCodes, MaxAccounts} \subseteq Nat
    /\ IsFiniteSet(Slots)

VARIABLES
    otp,      \* the Otp record (id 0: none); an upsert keeps its id
    account,  \* the User document (id 0: none) with its reset code
    sessions, \* the sessions alive
    running,  \* the handlers under way
    codes,    \* codes issued
    ids,      \* Otp records made
    born,     \* accounts created
    mailed,   \* kinds whose newest code was mailed
    \* history
    wrong,    \* wrong guesses compared with each present code
    last,     \* the newest code of each kind that should still work (0: none)
    crossed,  \* a handler that began with an older code changed the newer one
    purged    \* the newest password whose reset has ended the sessions

codesVars == <<otp, account, sessions, running, codes, ids, born, mailed, wrong, last, crossed,
               purged>>

Kinds == {"signup", "reset"}
NoOtp == [id |-> 0, code |-> 0, tries |-> 0, old |-> FALSE, cool |-> FALSE]
NoAccount == [id |-> 0, pw |-> 0, code |-> 0, tries |-> 0, old |-> FALSE, cool |-> FALSE]
Idle == [op |-> "idle"]

CodesTypeOK ==
    /\ otp \in [id : 0..MaxCodes, code : 0..MaxCodes, tries : 0..OtpMaxAttempts,
                old : BOOLEAN, cool : BOOLEAN]
    /\ account \in [id : 0..MaxAccounts, pw : 0..MaxPw, code : 0..MaxCodes,
                    tries : 0..OtpMaxAttempts, old : BOOLEAN, cool : BOOLEAN]
    /\ sessions \subseteq [acc : 1..MaxAccounts, pw : 1..MaxPw, raced : BOOLEAN]
    /\ DOMAIN running = Slots
    /\ codes \in 0..MaxCodes /\ ids \in 0..MaxCodes /\ born \in 0..MaxAccounts
    /\ mailed \subseteq Kinds
    /\ wrong \in [Kinds -> Nat] /\ last \in [Kinds -> 0..MaxCodes]
    /\ crossed \in [Kinds -> BOOLEAN]
    /\ purged \in 0..MaxPw

\* The address is new, or has an account that nobody is signed in to.
CodesInit ==
    /\ born \in 0..1 /\ born <= MaxAccounts
    /\ account = IF born = 0 THEN NoAccount ELSE [NoAccount EXCEPT !.id = born, !.pw = 1]
    /\ otp = NoOtp /\ sessions = {}
    /\ running = [k \in Slots |-> Idle]
    /\ codes = 0 /\ ids = 0 /\ mailed = {}
    /\ wrong = [x \in Kinds |-> 0] /\ last = [x \in Kinds |-> 0]
    /\ crossed = [x \in Kinds |-> FALSE] /\ purged = 0

-----------------------------------------------------------------------------
(* Handlers *)

Starts(k, h) == running[k] = Idle /\ running' = [running EXCEPT ![k] = h]
Goes(k, h) == running' = [running EXCEPT ![k] = h]
Ends(k) == running' = [running EXCEPT ![k] = Idle]
At(k, op) == running[k].op = op

counters == <<codes, ids, born, mailed>>
codesHistory == <<wrong, last, crossed, purged>>

NotMailed(x) == mailed' = mailed \ {x}

\* A code is mailed, or the provider fails (502), with the code stored.
Mails(x) == mailed' = mailed \cup {x} \/ NotMailed(x)

NewCode(x) ==
    /\ codes' = codes + 1
    /\ wrong' = [wrong EXCEPT ![x] = 0]
    /\ last' = [last EXCEPT ![x] = codes + 1]
    /\ crossed' = [crossed EXCEPT ![x] = FALSE]
    /\ UNCHANGED purged

-----------------------------------------------------------------------------
(* sendSignupOtp *)

\* The cooldown and whether the address is registered are read ...
SendReads(k) ==
    /\ ~otp.cool
    /\ Starts(k, [op |-> "send", known |-> account.id # 0])
    /\ UNCHANGED <<otp, account, sessions, counters, codesHistory>>

\* Mutant: a record that is there is not written over.
SendWritesOnce(k) ==
    /\ At(k, "send") /\ codes < MaxCodes
    /\ NewCode("signup")
    /\ ids' = IF otp.id = 0 THEN ids + 1 ELSE ids
    /\ otp' = IF otp.id = 0 THEN [NoOtp EXCEPT !.id = ids + 1, !.code = codes + 1] ELSE otp
    /\ IF running[k].known THEN NotMailed("signup") ELSE Mails("signup")
    /\ Ends(k)
    /\ UNCHANGED <<account, sessions, born>>

\* ... then the record is written over or made, and the code or a notice mailed.
SendWrites(k) ==
    /\ At(k, "send") /\ codes < MaxCodes
    /\ NewCode("signup")
    /\ ids' = IF otp.id = 0 THEN ids + 1 ELSE ids
    /\ otp' = [id |-> IF otp.id = 0 THEN ids + 1 ELSE otp.id, code |-> codes + 1, tries |-> 0,
               old |-> FALSE, cool |-> TRUE]
    /\ IF running[k].known THEN NotMailed("signup") ELSE Mails("signup")
    /\ Ends(k)
    /\ UNCHANGED <<account, sessions, born>>

-----------------------------------------------------------------------------
(* checkSignupOtp, for verifySignupOtp and for signUp *)

\* Mutant: one attempt too many.
MayTryOnceMore(tries) == tries <= OtpMaxAttempts

\* attempts: { $lt: OTP_MAX_ATTEMPTS }
MayTry(tries) == tries < OtpMaxAttempts

\* Mutant: the attempt is not counted.
CheckTriesUncounted(k, for, right) ==
    /\ otp.id # 0 /\ MayTry(otp.tries)
    /\ right => "signup" \in mailed
    /\ Starts(k, [op |-> "check", for |-> for, right |-> right, id |-> otp.id,
                  code |-> otp.code, old |-> otp.old, tries |-> otp.tries + 1])
    /\ wrong["signup"] <= OtpMaxAttempts
    /\ wrong' = IF right THEN wrong ELSE [wrong EXCEPT !["signup"] = @ + 1]
    /\ UNCHANGED <<otp, account, sessions, counters, last, crossed, purged>>

\* findOneAndUpdate: an attempt is used up, and the record as it was then compared
\* with the guess. A right guess needs the mail.
CheckTries(k, for, right) ==
    /\ otp.id # 0 /\ MayTry(otp.tries)
    /\ right => "signup" \in mailed
    /\ otp' = [otp EXCEPT !.tries = @ + 1]
    /\ Starts(k, [op |-> "check", for |-> for, right |-> right, id |-> otp.id,
                  code |-> otp.code, old |-> otp.old, tries |-> otp.tries + 1])
    /\ wrong' = IF right THEN wrong ELSE [wrong EXCEPT !["signup"] = @ + 1]
    /\ UNCHANGED <<account, sessions, counters, last, crossed, purged>>

\* The record is changed by its id: a newer code may be in it by now.
Crosses(h) == crossed' = [crossed EXCEPT !["signup"] = @ \/ (h.id = otp.id /\ h.code # otp.code)]

\* A right code: the attempts are reset.
CheckPasses(k) ==
    /\ At(k, "check") /\ running[k].right /\ ~running[k].old
    /\ LET h == running[k] IN
        /\ otp' = IF h.id = otp.id THEN [otp EXCEPT !.tries = 0] ELSE otp
        /\ Crosses(h)
        /\ wrong' = IF h.id = otp.id /\ h.code = otp.code THEN [wrong EXCEPT !["signup"] = 0]
                                                          ELSE wrong
        /\ IF h.for = "signup" THEN Goes(k, [op |-> "create"]) ELSE Ends(k)
    /\ UNCHANGED <<account, sessions, counters, last, purged>>

\* An expired code, and one guessed wrong too often, is deleted.
CheckFails(k) ==
    /\ At(k, "check")
    /\ LET h == running[k]
           delete == (h.old \/ (~h.right /\ h.tries >= OtpMaxAttempts)) /\ h.id = otp.id IN
        /\ h.old \/ ~h.right
        /\ otp' = IF delete THEN NoOtp ELSE otp
        /\ Crosses(h)
        /\ last' = IF delete /\ h.code = otp.code THEN [last EXCEPT !["signup"] = 0] ELSE last
    /\ Ends(k)
    /\ UNCHANGED <<account, sessions, counters, wrong, purged>>

-----------------------------------------------------------------------------
(* signUp after the check, and login *)

\* The address is taken (found out, or refused by the unique index).
SignUpRefused(k) ==
    /\ At(k, "create") /\ account.id # 0
    /\ Ends(k)
    /\ UNCHANGED <<otp, account, sessions, counters, codesHistory>>

SignUpSaves(k) ==
    /\ At(k, "create") /\ account.id = 0 /\ born < MaxAccounts
    /\ born' = born + 1
    /\ account' = [NoAccount EXCEPT !.id = born + 1, !.pw = 1]
    /\ purged' = 0
    /\ Goes(k, [op |-> "login", acc |-> born + 1, pw |-> 1, signup |-> TRUE])
    /\ UNCHANGED <<otp, sessions, codes, ids, mailed, wrong, last, crossed>>

\* login: the password is compared with the document read ...
LoginCompares(k) ==
    /\ account.id # 0
    /\ Starts(k, [op |-> "login", acc |-> account.id, pw |-> account.pw, signup |-> FALSE])
    /\ UNCHANGED <<otp, account, sessions, counters, codesHistory>>

\* ... and issueSession makes the row. (signUp deletes its code first.)
IssuesSession(k) ==
    /\ At(k, "login")
    /\ LET h == running[k] IN
        /\ sessions' = sessions \cup
             {[acc |-> h.acc, pw |-> h.pw,
               raced |-> \/ h.acc # account.id \/ h.pw < purged
                         \/ \E j \in Slots : At(j, "remove") /\ running[j].acc = h.acc]}
        /\ otp' = IF h.signup THEN NoOtp ELSE otp
        /\ last' = IF h.signup THEN [last EXCEPT !["signup"] = 0] ELSE last
    /\ Ends(k)
    /\ UNCHANGED <<account, counters, wrong, crossed, purged>>

\* logout, a reused token, or thirty days
SessionEnds(s) ==
    /\ sessions' = sessions \ {s}
    /\ UNCHANGED <<otp, account, running, counters, codesHistory>>

-----------------------------------------------------------------------------
(* forgotPassword and resetPassword *)

ForgotReads(k) ==
    /\ account.id # 0 /\ ~account.cool
    /\ Starts(k, [op |-> "forgot", acc |-> account.id])
    /\ UNCHANGED <<otp, account, sessions, counters, codesHistory>>

\* Only the changed paths are saved, and nothing when the account has gone.
ForgotSaves(k) ==
    /\ At(k, "forgot") /\ codes < MaxCodes
    /\ IF running[k].acc = account.id
       THEN /\ NewCode("reset")
            /\ account' = [account EXCEPT !.code = codes + 1, !.tries = 0, !.old = FALSE,
                                          !.cool = TRUE]
            /\ Mails("reset")
       ELSE UNCHANGED <<account, codes, mailed, codesHistory>>
    /\ Ends(k)
    /\ UNCHANGED <<otp, sessions, ids, born>>

ResetTries(k, right) ==
    /\ account.code # 0 /\ ~account.old /\ MayTry(account.tries)
    /\ right => "reset" \in mailed
    /\ account' = [account EXCEPT !.tries = @ + 1]
    /\ Starts(k, [op |-> "reset", right |-> right, acc |-> account.id, code |-> account.code,
                  tries |-> account.tries + 1])
    /\ wrong' = IF right THEN wrong ELSE [wrong EXCEPT !["reset"] = @ + 1]
    /\ UNCHANGED <<otp, sessions, counters, last, crossed, purged>>

Touches(h) == crossed' = [crossed EXCEPT !["reset"] = @ \/ (h.code # account.code)]
Uses(h) == last' = IF h.code = account.code THEN [last EXCEPT !["reset"] = 0] ELSE last

\* A wrong guess, the last one: the code goes, or a newer one in its place.
ResetFails(k) ==
    /\ At(k, "reset") /\ ~running[k].right
    /\ LET h == running[k] IN
       IF h.tries >= OtpMaxAttempts /\ h.acc = account.id
       THEN account' = [account EXCEPT !.code = 0] /\ Touches(h) /\ Uses(h)
       ELSE UNCHANGED <<account, crossed, last>>
    /\ Ends(k)
    /\ UNCHANGED <<otp, sessions, counters, wrong, purged>>

\* Mutant: the sessions are left alone.
ResetSavesOnly(k) ==
    /\ At(k, "reset") /\ running[k].right /\ account.pw < MaxPw
    /\ LET h == running[k] IN
        /\ IF h.acc = account.id
           THEN /\ account' = [account EXCEPT !.pw = @ + 1, !.code = 0, !.tries = 0]
                /\ purged' = account.pw + 1
                /\ Touches(h) /\ Uses(h)
           ELSE UNCHANGED <<account, crossed, last, purged>>
        /\ Ends(k)
    /\ UNCHANGED <<otp, sessions, counters, wrong>>

\* A right one: the password is saved, the code removed ...
ResetSaves(k) ==
    /\ At(k, "reset") /\ running[k].right /\ account.pw < MaxPw
    /\ LET h == running[k] IN
       IF h.acc = account.id
       THEN /\ account' = [account EXCEPT !.pw = @ + 1, !.code = 0, !.tries = 0]
            /\ Touches(h) /\ Uses(h)
            /\ Goes(k, [op |-> "purge", acc |-> h.acc, pw |-> account.pw + 1])
       ELSE UNCHANGED <<account, crossed, last>> /\ Ends(k)
    /\ UNCHANGED <<otp, sessions, counters, wrong, purged>>

\* ... and every session of the account ended.
ResetPurges(k) ==
    /\ At(k, "purge")
    /\ LET h == running[k] IN
        /\ sessions' = {s \in sessions : s.acc # h.acc}
        /\ purged' = IF h.acc = account.id /\ h.pw > purged THEN h.pw ELSE purged
    /\ Ends(k)
    /\ UNCHANGED <<otp, account, counters, wrong, last, crossed>>

-----------------------------------------------------------------------------
(* deleteAccount *)

\* With a live session and the right password ...
DeleteCompares(k) ==
    /\ account.id # 0 /\ \E s \in sessions : s.acc = account.id
    /\ Starts(k, [op |-> "delete", acc |-> account.id])
    /\ UNCHANGED <<otp, account, sessions, counters, codesHistory>>

\* ... what belongs to the account goes, its sessions ...
DeleteClears(k) ==
    /\ At(k, "delete")
    /\ otp' = NoOtp /\ last' = [last EXCEPT !["signup"] = 0]
    /\ sessions' = {s \in sessions : s.acc # running[k].acc}
    /\ Goes(k, [op |-> "remove", acc |-> running[k].acc])
    /\ UNCHANGED <<account, counters, wrong, crossed, purged>>

\* ... and last the account itself. A login may have come in between.
DeleteRemoves(k) ==
    /\ At(k, "remove")
    /\ IF running[k].acc = account.id
       THEN /\ account' = NoAccount
            /\ last' = [last EXCEPT !["reset"] = 0]
       ELSE UNCHANGED <<account, last>>
    /\ Ends(k)
    /\ UNCHANGED <<otp, sessions, counters, wrong, crossed, purged>>

-----------------------------------------------------------------------------
(* Time *)

\* A minute: another code may be asked for.
CoolsDown ==
    /\ otp' = [otp EXCEPT !.cool = FALSE] /\ account' = [account EXCEPT !.cool = FALSE]
    /\ <<otp, account>>' # <<otp, account>>
    /\ UNCHANGED <<sessions, running, counters, codesHistory>>

\* Ten minutes: the signup code has expired, and is removed (TTL index) some time later.
SignupCodeAges ==
    /\ otp.id # 0 /\ ~otp.cool
    /\ otp' = IF otp.old THEN NoOtp ELSE [otp EXCEPT !.old = TRUE]
    /\ last' = [last EXCEPT !["signup"] = 0]
    /\ UNCHANGED <<account, sessions, running, counters, wrong, crossed, purged>>

ResetCodeAges ==
    /\ account.code # 0 /\ ~account.cool /\ ~account.old
    /\ account' = [account EXCEPT !.old = TRUE]
    /\ last' = [last EXCEPT !["reset"] = 0]
    /\ UNCHANGED <<otp, sessions, running, counters, wrong, crossed, purged>>

-----------------------------------------------------------------------------
CodesNext ==
    \/ \E k \in Slots :
        \/ SendReads(k) \/ SendWrites(k)
        \/ \E for \in {"verify", "signup"}, right \in BOOLEAN : CheckTries(k, for, right)
        \/ CheckPasses(k) \/ CheckFails(k)
        \/ SignUpRefused(k) \/ SignUpSaves(k)
        \/ LoginCompares(k) \/ IssuesSession(k)
        \/ ForgotReads(k) \/ ForgotSaves(k)
        \/ \E right \in BOOLEAN : ResetTries(k, right)
        \/ ResetFails(k) \/ ResetSaves(k) \/ ResetPurges(k)
        \/ DeleteCompares(k) \/ DeleteClears(k) \/ DeleteRemoves(k)
    \/ \E s \in sessions : SessionEnds(s)
    \/ CoolsDown \/ SignupCodeAges \/ ResetCodeAges

CodesSpec == CodesInit /\ [][CodesNext]_codesVars

-----------------------------------------------------------------------------
(* Properties *)

(***************************************************************************)
(* "Parallel guesses cannot get past the limit": a code is never compared  *)
(* with more wrong guesses than allowed, however many requests run at once *)
(* and whatever the newer ones replace (unless the attempts of a newer     *)
(* signup code were reset by a check of the one it replaced).              *)
(***************************************************************************)
GuessesAreLimited ==
    /\ wrong["signup"] <= OtpMaxAttempts \/ crossed["signup"]
    /\ wrong["reset"] <= OtpMaxAttempts

(***************************************************************************)
(* What the mail says works: the newest code stays the one that is checked *)
(* until it expires, is used or was guessed wrong too often, and has all   *)
(* its attempts but those made on it; unless a handler that began with the *)
(* code before it removed it or reset its attempts.                        *)
(***************************************************************************)
NewestCodeStands ==
    /\ last["signup"] # 0 =>
         \/ crossed["signup"]
         \/ /\ otp.code = last["signup"]
            /\ otp.tries <= wrong["signup"] +
                 Cardinality({k \in Slots : At(k, "check") /\ running[k].right})
    /\ last["reset"] # 0 => account.code = last["reset"] \/ crossed["reset"]

(***************************************************************************)
(* resetPassword: "whoever had the old password loses access". No session  *)
(* opened with an older password, or for a deleted account, is left,       *)
(* except where a login had compared the password before and made its      *)
(* session after.                                                          *)
(***************************************************************************)
NoSessionOutlivesItsPassword ==
    \A s \in sessions : s.acc # account.id \/ s.pw < purged => s.raced
=============================================================================

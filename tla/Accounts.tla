---------------------------- MODULE Accounts ----------------------------
(***************************************************************************)
(* One account and its one-time codes (apps/users/services.py): codes are  *)
(* issued, sent again, guessed, confirmed and exchanged for a new password *)
(* by requests that interleave between their statements.  No view calls    *)
(* these services today, so the requests are those their signatures and    *)
(* docstrings describe.                                                    *)
(*                                                                         *)
(* Code i is the i-th row of UserOTPVerifications; that two random codes   *)
(* of six digits are equal is left out.  Time is counted in ticks.         *)
(***************************************************************************)
EXTENDS Integers, Sequences

CONSTANTS
    Client,                                        \* requests in flight at once
    OTP_CODE_TTL, OTP_RESEND_COOLDOWN, OTP_MAX_ATTEMPTS, MAX_RESENDS,
    LOCKOUT, RESET_WINDOW,
    MaxClock, MaxCodes, MaxTokens                  \* bounds of the instance

ASSUME AccountsAssumption ==
    /\ {OTP_CODE_TTL, OTP_RESEND_COOLDOWN, MAX_RESENDS, LOCKOUT, RESET_WINDOW,
        MaxClock, MaxCodes, MaxTokens} \subseteq Nat
    /\ OTP_MAX_ATTEMPTS \in Nat \ {0}

VARIABLES
    clock,
    codes,       \* the rows, oldest first
    call,        \* per client the request under way
    password,    \* how often it was reset
    tokens,      \* refresh tokens [by: password they were obtained with, raced, revoked]
    guesses,     \* per verification code the wrong guesses answered
    confirmed,   \* per code when verify_reset_code last confirmed it, or Never
    resets       \* the passwords set: [code, at]

accountVars == <<clock, codes, call, password, tokens, guesses, confirmed, resets>>

Purpose == {"verify", "reset"}
Never == -1
NoCall == [pc |-> "free"]
Free(r) == call[r].pc = "free"
In(r, pc) == call[r].pc = pc
Continue(r, next) == call' = [call EXCEPT ![r] = next]
Done(r) == Continue(r, NoCall)

\* UserOTPVerifications after generate_code
NewCode(purpose) ==
    [purpose |-> purpose, created |-> clock, expires |-> clock + OTP_CODE_TTL,
     locked |-> clock, wrong |-> 0, resends |-> 0, used |-> FALSE, verified |-> FALSE]

Unused(purpose) == {i \in DOMAIN codes : codes[i].purpose = purpose /\ ~codes[i].used}
Newest(rows) == IF rows = {} THEN 0 ELSE CHOOSE i \in rows : \A j \in rows : j <= i
\* Rows a transaction has locked: those an UPDATE or a SELECT FOR UPDATE met.
Holds(r) == IF call[r].pc \in {"issuing", "judging", "resetting", "revoking"}
            THEN call[r].rows ELSE {}
Held(rows) == \E r \in Client : Holds(r) \cap rows # {}

-----------------------------------------------------------------------------
(* Issuing.                                                                *)

\* resend_code: what it reads before it issues.
ResendRead(r, purpose) ==
    LET current == Newest(Unused(purpose))
        last == codes[current]
    IN  /\ Free(r)
        /\ current # 0 => /\ last.locked <= clock
                          /\ last.created + OTP_RESEND_COOLDOWN <= clock
        /\ Continue(r, [pc |-> IF current # 0 /\ last.resends >= MAX_RESENDS
                               THEN "locking" ELSE "issue",
                        purpose |-> purpose, after |-> current, at |-> clock,
                        resends |-> IF current = 0 THEN 0 ELSE last.resends + 1])
        /\ UNCHANGED <<clock, codes, password, tokens, guesses, confirmed, resets>>

\* Too many resends: the lockout is written to the code and the code withdrawn.
ResendLock(r) ==
    LET row == call[r].after IN
    /\ In(r, "locking") /\ ~Held({row})
    /\ codes' = [codes EXCEPT ![row].locked = call[r].at + LOCKOUT, ![row].used = TRUE]
    /\ Done(r)
    /\ UNCHANGED <<clock, password, tokens, guesses, confirmed, resets>>

\* begin_password_reset, and register_user for a new account.
BeginCode(r, purpose) ==
    /\ Free(r) /\ (purpose = "verify" => codes = <<>>)
    /\ Continue(r, [pc |-> "issue", purpose |-> purpose, after |-> 0, at |-> clock,
                    resends |-> 0])
    /\ UNCHANGED <<clock, codes, password, tokens, guesses, confirmed, resets>>

\* issue_code withdraws the codes its UPDATE sees ...
IssueWithdraw(r) ==
    LET rows == Unused(call[r].purpose) IN
    /\ In(r, "issue") /\ Len(codes) < MaxCodes /\ ~Held(rows)
    /\ Continue(r, [purpose |-> call[r].purpose, after |-> call[r].after,
                    resends |-> call[r].resends, pc |-> "issuing", rows |-> rows])
    /\ UNCHANGED <<clock, codes, password, tokens, guesses, confirmed, resets>>

\* ... and mints another.  Codes of a transaction that began earlier are seen
\* by the commit only.
Withdrawn(rows) ==
    [i \in DOMAIN codes |-> [codes[i] EXCEPT !.used = @ \/ i \in rows]]
IssueCommit(r) ==
    /\ In(r, "issuing") /\ Len(codes) < MaxCodes
    /\ codes' = Append(Withdrawn(call[r].rows), NewCode(call[r].purpose))
    /\ guesses' = Append(guesses, 0) /\ confirmed' = Append(confirmed, Never)
    /\ Continue(r, IF call[r].after = 0 THEN NoCall
                   ELSE [pc |-> "mailed", row |-> Len(codes'), resends |-> call[r].resends])
    /\ UNCHANGED <<clock, password, tokens, resets>>

\* The mail went out, or is left to Celery: the resends are carried over.
ResendCount(r) ==
    /\ In(r, "mailed") /\ ~Held({call[r].row})
    /\ codes' = [codes EXCEPT ![call[r].row].resends = call[r].resends]
    /\ Done(r)
    /\ UNCHANGED <<clock, password, tokens, guesses, confirmed, resets>>

\* The broker is down and the inline send fails, or the process dies: an open
\* transaction is rolled back, a committed code stays without its count.
Fails(r) ==
    /\ ~Free(r) /\ Done(r)
    /\ UNCHANGED <<clock, codes, password, tokens, guesses, confirmed, resets>>

-----------------------------------------------------------------------------
(* Judging: verify_code, verify_reset_code and reset_password.             *)

\* The SELECT FOR UPDATE takes its snapshot; code 0 is one never sent.
Ask(r, purpose, code, next) ==
    /\ Free(r)
    /\ Continue(r, [pc |-> next, purpose |-> purpose, code |-> code, at |-> clock,
                    seen |-> {i \in Unused(purpose) : next = "reset" => codes[i].verified}])
    /\ UNCHANGED <<clock, codes, password, tokens, guesses, confirmed, resets>>

\* It waits for the newest row it saw, and takes the newest that still matches.
Candidate_asSeen(r) == Newest(call[r].seen)
Candidate(r) ==
    Newest({i \in call[r].seen : ~codes[i].used /\ (In(r, "reset") => codes[i].verified)})
Locks_nothing(r) == TRUE
Locks(r) == ~Held({Candidate(r)})
TakeCode(r) ==
    LET row == Candidate(r) IN
    /\ In(r, "verify") /\ Locks(r)
    /\ IF row # 0 /\ codes[row].locked <= call[r].at /\ codes[row].expires >= call[r].at
       THEN Continue(r, [pc |-> "judging", rows |-> {row}, code |-> call[r].code,
                         at |-> call[r].at, wrong |-> codes[row].wrong,
                         purpose |-> call[r].purpose])
       ELSE Done(r)
    /\ UNCHANGED <<clock, codes, password, tokens, guesses, confirmed, resets>>

\* A wrong code.  The count is committed, unless verify_reset_code has opened
\* the transaction: the error then rolls it back.
Counted(row, wrong, at) ==
    LET tries == wrong + 1 IN
    IF tries >= OTP_MAX_ATTEMPTS
    THEN [row EXCEPT !.wrong = tries, !.locked = at + LOCKOUT, !.used = TRUE]
    ELSE [row EXCEPT !.wrong = tries]
Wrong(r) == \E i \in Holds(r) :
    /\ In(r, "judging") /\ call[r].code # i
    /\ IF call[r].purpose = "reset" THEN UNCHANGED <<codes, guesses>>
       ELSE /\ codes' = [codes EXCEPT ![i] = Counted(@, call[r].wrong, call[r].at)]
            /\ guesses' = [guesses EXCEPT ![i] = @ + 1]
    /\ Done(r)
    /\ UNCHANGED <<clock, password, tokens, confirmed, resets>>

\* The right one is consumed, or opens the window for the new password.
Verified(r) == \E i \in Holds(r) :
    /\ In(r, "judging") /\ call[r].code = i /\ call[r].purpose = "verify"
    /\ codes' = [codes EXCEPT ![i].used = TRUE]
    /\ Done(r)
    /\ UNCHANGED <<clock, password, tokens, guesses, confirmed, resets>>
Confirmed(r) == \E i \in Holds(r) :
    /\ In(r, "judging") /\ call[r].code = i /\ call[r].purpose = "reset"
    /\ codes' = [codes EXCEPT ![i].verified = TRUE, ![i].expires = clock + RESET_WINDOW]
    /\ confirmed' = [confirmed EXCEPT ![i] = clock]
    /\ Done(r)
    /\ UNCHANGED <<clock, password, tokens, guesses, resets>>

\* reset_password
ResetTake(r) ==
    LET row == Candidate(r) IN
    /\ In(r, "reset") /\ Locks(r)
    /\ IF row # 0 /\ row = call[r].code /\ codes[row].expires >= clock
       THEN Continue(r, [pc |-> "resetting", rows |-> {row}, at |-> clock])
       ELSE Done(r)
    /\ UNCHANGED <<clock, codes, password, tokens, guesses, confirmed, resets>>
\* The password is written, which locks the account's row, and then
\* revoke_all_refresh_tokens goes through the tokens it sees.
Revokes_none(r) == {}
Revokes(r) == DOMAIN tokens
ResetRevoke(r) ==
    /\ In(r, "resetting") /\ \A s \in Client : ~In(s, "revoking")
    /\ Continue(r, [pc |-> "revoking", rows |-> call[r].rows, at |-> call[r].at,
                    tokens |-> Revokes(r)])
    /\ UNCHANGED <<clock, codes, password, tokens, guesses, confirmed, resets>>
ResetCommit(r) == \E i \in Holds(r) :
    /\ In(r, "revoking")
    /\ password' = password + 1
    /\ codes' = [codes EXCEPT ![i].used = TRUE, ![i].verified = FALSE]
    /\ tokens' = [t \in DOMAIN tokens |->
                    [tokens[t] EXCEPT !.revoked = @ \/ t \in call[r].tokens]]
    /\ resets' = Append(resets, [code |-> i, at |-> call[r].at])
    /\ Done(r)
    /\ UNCHANGED <<clock, guesses, confirmed>>

\* A login: the password is compared, then issue_tokens.
Login(r) ==
    /\ Free(r) /\ Continue(r, [pc |-> "tokens", by |-> password])
    /\ UNCHANGED <<clock, codes, password, tokens, guesses, confirmed, resets>>
IssueTokens(r) ==
    /\ In(r, "tokens") /\ Len(tokens) < MaxTokens
    /\ tokens' = Append(tokens, [by |-> call[r].by, revoked |-> FALSE,
          raced |-> call[r].by # password \/ \E s \in Client : In(s, "revoking")])
    /\ Done(r)
    /\ UNCHANGED <<clock, codes, password, guesses, confirmed, resets>>

Tick ==
    /\ clock < MaxClock /\ clock' = clock + 1
    /\ UNCHANGED <<codes, call, password, tokens, guesses, confirmed, resets>>

AccountsInit ==
    /\ clock = 0 /\ codes = <<>> /\ call = [r \in Client |-> NoCall] /\ password = 0
    /\ tokens = <<>> /\ guesses = <<>> /\ confirmed = <<>> /\ resets = <<>>
Issuing(r, purpose) ==
    \/ BeginCode(r, purpose) \/ ResendRead(r, purpose)
    \/ ResendLock(r) \/ IssueWithdraw(r) \/ IssueCommit(r) \/ ResendCount(r)
Judging(r, purpose) ==
    \/ \E code \in 0 .. Len(codes) : Ask(r, purpose, code, "verify")
    \/ TakeCode(r) \/ Wrong(r) \/ Verified(r) \/ Confirmed(r)
Resetting(r) ==
    \/ \E code \in 0 .. Len(codes) : Ask(r, "reset", code, "reset")
    \/ ResetTake(r) \/ ResetRevoke(r) \/ ResetCommit(r)
\* What is done with the codes of one purpose; the two purposes share no row.
Flow(purpose) == Tick \/ \E r \in Client :
    \/ Issuing(r, purpose) \/ Judging(r, purpose) \/ Fails(r)
    \/ purpose = "reset" /\ (Resetting(r) \/ Login(r) \/ IssueTokens(r))
AccountsNext == \E purpose \in Purpose : Flow(purpose)
AccountsSpec == AccountsInit /\ [][AccountsNext]_accountVars

-----------------------------------------------------------------------------
(* Properties.                                                             *)

\* However guesses interleave, every wrong guess at a verification code is
\* counted, the last one the limit allows withdraws the code, and no code is
\* guessed at more often (verify_code's promise that raising the error does
\* not undo the count).
GuessesCount == \A i \in DOMAIN codes : codes[i].purpose = "verify" =>
    /\ codes[i].wrong = guesses[i] /\ guesses[i] <= OTP_MAX_ATTEMPTS
    /\ guesses[i] = OTP_MAX_ATTEMPTS => codes[i].used

\* Every change of the password spends a code of its own, confirmed no longer
\* than RESET_WINDOW before, whoever else presents or replaces that code.
OneResetPerCode ==
    /\ Len(resets) = password
    /\ \A k \in DOMAIN resets :
         /\ codes[resets[k].code].used
         /\ confirmed[resets[k].code] \in resets[k].at - RESET_WINDOW .. resets[k].at
         /\ \A l \in DOMAIN resets : resets[k].code = resets[l].code => k = l

\* A refresh token outlives the reset of the password it was obtained with
\* only if its login and the reset overlapped.
OnlyRacedTokensSurvive == \A t \in DOMAIN tokens :
    ~tokens[t].revoked /\ tokens[t].by # password => tokens[t].raced
=============================================================================

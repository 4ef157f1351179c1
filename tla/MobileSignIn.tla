-------------------------- MODULE MobileSignIn --------------------------
(***************************************************************************)
(* Signing up and in by a code sent to a mobile number (app/accounts/otp,  *)
(* app/api/account_routes). A challenge is saved over the version that was *)
(* read, or not at all.                                                    *)
(***************************************************************************)
EXTENDS Integers, FiniteSets

CONSTANTS
    Mobiles, Requests,
    CODE_LIFETIME, RESEND_AFTER, DAY, SIGNUP_FORM_TIME,   \* times
    CODES_PER_DAY, TRIES_PER_CODE,
    MaxClock         \* bound

VARIABLES
    clock,
    challenge,       \* challenge[m]: the newest version of its record
    accounts,        \* numbers with an account, its tenant and its trial
    at, number, now, copy, signingUp, details,   \* what each request holds
    paid,            \* [m, moment]: codes sent by SMS
    compared, opened    \* [m, code]: comparisons made, sign-ins let through

request == <<at, number, now, copy, signingUp, details>>
history == <<paid, compared, opened>>
vars == <<clock, challenge, accounts, request, history>>
------------------------------------------------------------------------
Code == 0..MaxClock + 1      \* a challenge's code, by the challenges before it
Moment == 0..MaxClock

Challenge == [code : Code, expires : Nat, tries : Nat, used : BOOLEAN,
              sent : SUBSET Moment, version : Nat]

NoChallenge == [code |-> 0, expires |-> 0, tries |-> 0, used |-> FALSE,
                sent |-> {}, version |-> 0]

Places == {"idle", "limit", "saveCode", "sms", "read", "count", "compare", "keep", "signUp", "open"}

Init ==
    /\ clock = 0
    /\ challenge = [m \in Mobiles |-> NoChallenge]
    /\ accounts \in SUBSET Mobiles
    /\ at = [r \in Requests |-> "idle"]
    /\ number \in [Requests -> Mobiles]
    /\ now = [r \in Requests |-> 0]
    /\ copy = [r \in Requests |-> NoChallenge]
    /\ signingUp = [r \in Requests |-> FALSE] /\ details = [r \in Requests |-> FALSE]
    /\ paid = [m \in Mobiles |-> [t \in Moment |-> 0]]
    /\ compared = [m \in Mobiles |-> [c \in Code |-> 0]]
    /\ opened = [m \in Mobiles |-> [c \in Code |-> 0]]

\* A request that has answered keeps nothing.
Goto(r, place) ==
    /\ at' = [at EXCEPT ![r] = place]
    /\ IF place = "idle"
       THEN /\ now' = [now EXCEPT ![r] = 0]
            /\ copy' = [copy EXCEPT ![r] = NoChallenge]
            /\ signingUp' = [signingUp EXCEPT ![r] = FALSE]
            /\ details' = [details EXCEPT ![r] = FALSE]
       ELSE UNCHANGED <<now, copy, signingUp, details>>

\* Faulty variant: saved whatever has been saved since.
SaveUnchecked(r, written) ==
    challenge' = [challenge EXCEPT ![number[r]] = [written EXCEPT !.version = @ + 1]]

\* _save: over the version that was read, or refused by the store.
Save(r, written) ==
    /\ challenge[number[r]].version = copy[r].version
    /\ challenge' = [challenge EXCEPT ![number[r]] = [written EXCEPT !.version = @ + 1]]

Conflict(r) ==
    /\ challenge[number[r]].version # copy[r].version
    /\ Goto(r, "idle")
    /\ UNCHANGED challenge
------------------------------------------------------------------------
\* send: the moment is taken first.
AskForCode(r, m) ==
    /\ at[r] = "idle"
    /\ at' = [at EXCEPT ![r] = "limit"]
    /\ number' = [number EXCEPT ![r] = m]
    /\ now' = [now EXCEPT ![r] = clock]
    /\ UNCHANGED <<clock, challenge, accounts, copy, signingUp, details, history>>

\* The waits and the day's number of codes, by the challenge read: its moments grow,
\* so the last is the nearest. (The limits per address and per hour, in the process's
\* memory, are left out.)
LimitCodes(r) ==
    LET current == challenge[number[r]]
        sent == {t \in current.sent : now[r] - t < DAY}
    IN
    /\ at[r] = "limit"
    /\ IF \/ \E t \in sent : now[r] - t < RESEND_AFTER
          \/ Cardinality(sent) >= CODES_PER_DAY
       THEN Goto(r, "idle")
       ELSE /\ copy' = [copy EXCEPT ![r] = [current EXCEPT !.sent = sent]]
            /\ at' = [at EXCEPT ![r] = "saveCode"]
            /\ UNCHANGED <<now, signingUp, details>>
    /\ UNCHANGED <<clock, challenge, accounts, number, history>>

\* Saved before it is sent: two requests together cannot both send.
SaveCode(r) ==
    LET fresh == [code |-> copy[r].code + 1, expires |-> now[r] + CODE_LIFETIME,
                  tries |-> 0, used |-> FALSE, sent |-> copy[r].sent \cup {now[r]},
                  version |-> copy[r].version]
    IN
    /\ at[r] = "saveCode"
    /\ Conflict(r) \/ (Save(r, fresh) /\ Goto(r, "sms"))
    /\ UNCHANGED <<clock, accounts, number, history>>

\* The SMS costs its price, whether it arrives or not.
SendSms(r) ==
    /\ at[r] = "sms"
    /\ paid' = [paid EXCEPT ![number[r]][now[r]] = @ + 1]
    /\ Goto(r, "idle")
    /\ UNCHANGED <<clock, challenge, accounts, number, compared, opened>>
------------------------------------------------------------------------
\* verify_code: whether the number is new is looked up before the code is checked.
Verify(r, m, withDetails) ==
    /\ at[r] = "idle"
    /\ at' = [at EXCEPT ![r] = "read"]
    /\ number' = [number EXCEPT ![r] = m]
    /\ signingUp' = [signingUp EXCEPT ![r] = m \notin accounts]
    /\ details' = [details EXCEPT ![r] = withDetails]
    /\ UNCHANGED <<clock, challenge, accounts, now, copy, history>>

Usable(current) ==
    /\ current.version > 0 /\ ~current.used
    /\ clock < current.expires
    /\ current.tries < TRIES_PER_CODE

ReadChallenge(r) ==
    LET current == challenge[number[r]] IN
    /\ at[r] = "read"
    /\ IF Usable(current)
       THEN /\ at' = [at EXCEPT ![r] = "count"]
            /\ copy' = [copy EXCEPT ![r] = current]
            /\ now' = [now EXCEPT ![r] = clock]
            /\ UNCHANGED <<signingUp, details>>
       ELSE Goto(r, "idle")
    /\ UNCHANGED <<clock, challenge, accounts, number, history>>

\* The try is counted before the code is compared.
CountTry(r) ==
    LET counted == [copy[r] EXCEPT !.tries = @ + 1] IN
    /\ at[r] = "count"
    /\ \/ Conflict(r)
       \/ /\ Save(r, counted)
          /\ at' = [at EXCEPT ![r] = "compare"]
          /\ copy' = [copy EXCEPT ![r] = [counted EXCEPT !.version = @ + 1]]
          /\ UNCHANGED <<now, signingUp, details>>
    /\ UNCHANGED <<clock, accounts, number, history>>

\* The code given is right or wrong.
Compare(r) ==
    /\ at[r] = "compare"
    /\ compared' = [compared EXCEPT ![number[r]][copy[r].code] = @ + 1]
    /\ \E place \in {"keep", "idle"} : Goto(r, place)
    /\ UNCHANGED <<clock, challenge, accounts, number, paid, opened>>

\* A right code is used up, or kept for the sign-up form of a new number.
KeepOrUse(r) ==
    LET used == [copy[r] EXCEPT !.used = TRUE]
        formEnds == now[r] + SIGNUP_FORM_TIME
        kept == [copy[r] EXCEPT !.expires = IF @ >= formEnds THEN @ ELSE formEnds]
    IN
    /\ at[r] = "keep"
    /\ \/ Conflict(r)
       \/ ~signingUp[r] /\ Save(r, used) /\ Goto(r, "open")
       \/ signingUp[r] /\ details[r] /\ Save(r, used) /\ Goto(r, "signUp")
       \/ signingUp[r] /\ ~details[r] /\ Save(r, kept) /\ Goto(r, "idle")
    /\ UNCHANGED <<clock, accounts, number, history>>

\* Tenant, account and trial in one transaction; if the number has got an account
\* meanwhile its index refuses, and the person signs in to that one.
SignUp(r) ==
    /\ at[r] = "signUp"
    /\ accounts' = accounts \cup {number[r]}
    /\ Goto(r, "open")
    /\ UNCHANGED <<clock, challenge, number, history>>

\* sign_in_with_mobile
Open(r) ==
    /\ at[r] = "open"
    /\ opened' = [opened EXCEPT ![number[r]][copy[r].code] = @ + 1]
    /\ Goto(r, "idle")
    /\ UNCHANGED <<clock, challenge, accounts, number, paid, compared>>
------------------------------------------------------------------------
Tick ==
    /\ clock < MaxClock
    /\ clock' = clock + 1
    /\ UNCHANGED <<challenge, accounts, request, history>>

Next ==
    \/ \E r \in Requests, m \in Mobiles :
          AskForCode(r, m) \/ \E d \in BOOLEAN : Verify(r, m, d)
    \/ \E r \in Requests :
          \/ LimitCodes(r) \/ SaveCode(r) \/ SendSms(r)
          \/ ReadChallenge(r) \/ CountTry(r) \/ Compare(r) \/ KeepOrUse(r)
          \/ SignUp(r) \/ Open(r)
    \/ Tick

Spec == Init /\ [][Next]_vars
------------------------------------------------------------------------
(* Every variable keeps its type. *)
TypeOK ==
    /\ clock \in 0..MaxClock
    /\ challenge \in [Mobiles -> Challenge] /\ copy \in [Requests -> Challenge]
    /\ accounts \subseteq Mobiles
    /\ at \in [Requests -> Places] /\ number \in [Requests -> Mobiles]
    /\ now \in [Requests -> Moment]
    /\ signingUp \in [Requests -> BOOLEAN] /\ details \in [Requests -> BOOLEAN]
    /\ paid \in [Mobiles -> [Moment -> Nat]]
    /\ compared \in [Mobiles -> [Code -> Nat]] /\ opened \in [Mobiles -> [Code -> Nat]]

(* A code is compared TRIES_PER_CODE times at most and lets one sign-in      *)
(* through, however many requests carry it at once and although a right code *)
(* may be kept for the sign-up form (OtpService.check).                      *)
CodeIsOneTime ==
    \A m \in Mobiles, c \in Code :
        compared[m][c] <= TRIES_PER_CODE /\ opened[m][c] <= 1

(* One number is sent a code at most every RESEND_AFTER, and CODES_PER_DAY   *)
(* in a day, however many requests ask at once (OtpService.send).            *)
SmsBounded ==
    \A m \in Mobiles :
        LET sms == {t \in Moment : paid[m][t] > 0} IN
        /\ \A t \in Moment : paid[m][t] <= 1
        /\ \A t, u \in sms : t < u => u - t >= RESEND_AFTER
        /\ \A d \in Moment : Cardinality({t \in sms : d <= t /\ t < d + DAY}) <= CODES_PER_DAY
========================================================================

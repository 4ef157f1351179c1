---------------------------- MODULE Accounts ----------------------------
(***************************************************************************)
(* Dashboard accounts (app/accounts): sign-ins by password and by Google,  *)
(* the sessions they open, and the operator's commands, all against the    *)
(* same records. A changed copy of an account is written only if nothing   *)
(* changed the account since it was read: every write gives it a new stamp.*)
(***************************************************************************)
EXTENDS Integers, FiniteSets

CONSTANTS
    Account,         \* account ids, of one tenant
    Subjects,        \* Google identities
    SignIns,         \* sign-ins, each of one browser
    BIND_TRIES,      \* AccountStore.bind_google tries this often
    MaxChanges,      \* bound: the operator's commands
    None             \* no account, no Google identity

VARIABLES
    account,         \* account[a]: the newest version of its record
    google,          \* google[g]: the index record of a Google identity
    tenantActive,
    session,         \* session[i]: the session sign-in i has opened
    at, who, proof,  \* where sign-in i is, whose it is, what was proved
    seen,            \* the copy of the account it goes by
    indexSeen, tries,
    command,         \* the operator's command under way: account and copy
    changes

records == <<account, google>>
signIn == <<at, who, proof, seen, indexSeen, tries>>
operator == <<command, changes>>
vars == <<records, tenantActive, session, signIn, operator>>
------------------------------------------------------------------------
AccountStatus == {"active", "disabled"}

\* secret: which password; hash: its salted hash; weak: hashed with old settings.
AccountRecord ==
    [status : AccountStatus, secret : Nat, hash : Nat, weak : BOOLEAN,
     subject : Subjects \cup {None}, allowed : BOOLEAN, generation : Nat, stamp : Nat]

NoSession == [state |-> "none", generation |-> 0]
Session == [state : {"none", "live", "revoked"}, generation : Nat]

LoginMethod == {"password", "google"}
Places == {"start", "rehash", "found", "bind", "commit", "open", "confirm", "touch", "in", "refused"}

NoProof == [method |-> "password", secret |-> 0, hash |-> 0, subject |-> None]

Created == [status |-> "active", secret |-> 1, hash |-> 0, weak |-> TRUE,
            subject |-> None, allowed |-> TRUE, generation |-> 0, stamp |-> 1]

Init ==
    /\ account = [a \in Account |-> Created]
    /\ google = [g \in Subjects |-> [owner |-> None, version |-> 0]]
    /\ tenantActive = TRUE
    /\ session = [i \in SignIns |-> NoSession]
    /\ at = [i \in SignIns |-> "start"]
    /\ who \in [SignIns -> Account]
    /\ proof = [i \in SignIns |-> NoProof]
    /\ seen = [i \in SignIns |-> Created]
    /\ indexSeen = [i \in SignIns |-> 0]
    /\ tries = [i \in SignIns |-> 0]
    /\ command = [of |-> None, copy |-> Created]
    /\ changes = 0

\* The copy is still the newest version.
Fresh(a, copy) == account[a].stamp = copy.stamp

\* AccountStore.update: the copy is written with a stamp of its own.
Stamped(copy) == [copy EXCEPT !.stamp = @ + 1]

Go(i, place) == at' = [at EXCEPT ![i] = place]
Refuse(i) == Go(i, "refused")
------------------------------------------------------------------------
\* sign_in_with_password: the right password, for an account that is active.
CheckPassword(i) ==
    LET a == who[i] IN
    /\ at[i] = "start" /\ account[a].status = "active"
    /\ proof' = [proof EXCEPT ![i] =
          [NoProof EXCEPT !.secret = account[a].secret, !.hash = account[a].hash]]
    /\ seen' = [seen EXCEPT ![i] = account[a]]
    /\ Go(i, IF account[a].weak THEN "rehash" ELSE "open")
    /\ UNCHANGED <<records, tenantActive, session, who, indexSeen, tries, operator>>

\* Its hash is renewed, unless the account has changed: then the old copy serves.
Rehash(i) ==
    /\ at[i] = "rehash"
    /\ LET a == who[i]
           renewed == Stamped([seen[i] EXCEPT !.hash = seen[i].stamp, !.weak = FALSE])
       IN  IF Fresh(a, seen[i])
           THEN /\ account' = [account EXCEPT ![a] = renewed]
                /\ seen' = [seen EXCEPT ![i] = renewed]
                /\ proof' = [proof EXCEPT ![i].hash = renewed.hash]
           ELSE UNCHANGED <<account, seen, proof>>
    /\ Go(i, "open")
    /\ UNCHANGED <<google, tenantActive, session, who, indexSeen, tries, operator>>

\* sign_in_with_google: the identity's index record names an account.
FindByGoogle(i, g) ==
    /\ at[i] = "start" /\ google[g].owner # None
    /\ who' = [who EXCEPT ![i] = google[g].owner]
    /\ proof' = [proof EXCEPT ![i] = [NoProof EXCEPT !.method = "google", !.subject = g]]
    /\ Go(i, "found")
    /\ UNCHANGED <<records, tenantActive, session, seen, indexSeen, tries, operator>>

ReadFound(i) ==
    /\ at[i] = "found"
    /\ seen' = [seen EXCEPT ![i] = account[who[i]]]
    /\ IF account[who[i]].status = "active" THEN Go(i, "open") ELSE Refuse(i)
    /\ UNCHANGED <<records, tenantActive, session, who, proof, indexSeen, tries, operator>>

MayLink(copy, g) ==
    copy.status = "active" /\ copy.allowed /\ copy.subject \in {None, g}

\* It names none: the account with its verified email may take it.
FindByEmail(i, g) ==
    /\ at[i] = "start" /\ google[g].owner = None
    /\ proof' = [proof EXCEPT ![i] = [NoProof EXCEPT !.method = "google", !.subject = g]]
    /\ IF MayLink(account[who[i]], g) /\ tenantActive THEN Go(i, "bind") ELSE Refuse(i)
    /\ UNCHANGED <<records, tenantActive, session, who, seen, indexSeen, tries, operator>>

\* bind_google decides again, on a fresh read inside its transaction.
BindGoogle(i) ==
    LET a == who[i]  g == proof[i].subject IN
    /\ at[i] = "bind"
    /\ seen' = [seen EXCEPT ![i] = account[a]]
    /\ indexSeen' = [indexSeen EXCEPT ![i] = google[g].version]
    /\ IF MayLink(account[a], g) /\ google[g].owner = None THEN Go(i, "commit") ELSE Refuse(i)
    /\ UNCHANGED <<records, tenantActive, session, who, proof, tries, operator>>

\* Index and account land together. A changed account rolls both back, to be tried
\* again; a taken identity ends it.
BindCommit(i) ==
    LET a == who[i]
        g == proof[i].subject
        linked == Stamped([seen[i] EXCEPT !.subject = g])
        claimed == google[g].version = indexSeen[i]
    IN
    /\ at[i] = "commit"
    /\ IF claimed /\ Fresh(a, seen[i])
       THEN /\ account' = [account EXCEPT ![a] = linked]
            /\ google' = [google EXCEPT ![g] = [owner |-> a, version |-> @.version + 1]]
            /\ seen' = [seen EXCEPT ![i] = linked]
            /\ Go(i, "open")
            /\ UNCHANGED tries
       ELSE /\ tries' = [tries EXCEPT ![i] = @ + 1]
            /\ IF claimed /\ tries[i] + 1 < BIND_TRIES THEN Go(i, "bind") ELSE Refuse(i)
            /\ UNCHANGED <<records, seen>>
    /\ UNCHANGED <<tenantActive, session, who, proof, indexSeen, operator>>
------------------------------------------------------------------------
\* _open: the session exists, under the generation of the copy, ...
OpenSession(i) ==
    /\ at[i] = "open"
    /\ IF tenantActive
       THEN /\ session' = [session EXCEPT ![i] =
                  [state |-> "live", generation |-> seen[i].generation]]
            /\ Go(i, "confirm")
       ELSE Refuse(i) /\ UNCHANGED session
    /\ UNCHANGED <<records, tenantActive, who, proof, seen, indexSeen, tries, operator>>

\* Faulty variant: an active account of the same generation is enough.
StillValidAlways(i, current) == TRUE

\* What was proved still holds of the account.
StillValid(i, current) ==
    IF proof[i].method = "password" THEN current.hash = proof[i].hash
    ELSE current.subject = proof[i].subject

\* ... and is confirmed by reading the account again, or revoked at once.
Confirm(i) ==
    LET current == account[who[i]] IN
    /\ at[i] = "confirm"
    /\ IF /\ current.status = "active"
          /\ current.generation = session[i].generation
          /\ StillValid(i, current)
       THEN /\ seen' = [seen EXCEPT ![i] = current]
            /\ Go(i, "touch")
            /\ UNCHANGED session
       ELSE /\ session' = [session EXCEPT ![i].state = "revoked"]
            /\ Refuse(i)
            /\ UNCHANGED seen
    /\ UNCHANGED <<records, tenantActive, who, proof, indexSeen, tries, operator>>

\* last_login_at, never worth overwriting someone else's change.
StampLogin(i) ==
    LET a == who[i] IN
    /\ at[i] = "touch"
    /\ account' = IF Fresh(a, seen[i]) THEN [account EXCEPT ![a] = Stamped(seen[i])] ELSE account
    /\ Go(i, "in")
    /\ UNCHANGED <<google, tenantActive, session, who, proof, seen, indexSeen, tries, operator>>

\* session_for: the session, its account and its tenant all hold.
Counts(i) ==
    /\ session[i].state = "live"
    /\ account[who[i]].status = "active"
    /\ session[i].generation = account[who[i]].generation
    /\ tenantActive

\* sign_out: the session is revoked. (How touches and sign-outs of one session
\* race is in Sessions.)
SignOut(i) ==
    /\ at[i] = "in" /\ session[i].state = "live"
    /\ session' = [session EXCEPT ![i].state = "revoked"]
    /\ UNCHANGED <<records, tenantActive, signIn, operator>>
------------------------------------------------------------------------
\* A command reads the account first; what it writes comes later.
ReadForCommand(a) ==
    /\ command.of = None /\ changes < MaxChanges
    /\ command' = [of |-> a, copy |-> account[a]]
    /\ changes' = changes + 1
    /\ UNCHANGED <<records, tenantActive, session, signIn>>

\* What disable, set-password, revoke-sessions, enable and allow-google write.
Changed(copy) ==
    LET ended == [copy EXCEPT !.generation = @ + 1]
    IN  {ended,
         [ended EXCEPT !.status = "disabled"],
         [ended EXCEPT !.secret = @ + 1, !.hash = copy.stamp, !.weak = FALSE],
         [copy EXCEPT !.status = "active"],
         [copy EXCEPT !.allowed = TRUE]}

\* The command's write is refused when the account has changed meanwhile.
RunCommand ==
    /\ command.of # None
    /\ IF Fresh(command.of, command.copy)
       THEN \E written \in Changed(command.copy) :
               account' = [account EXCEPT ![command.of] = Stamped(written)]
       ELSE UNCHANGED account
    /\ command' = [command EXCEPT !.of = None]
    /\ UNCHANGED <<google, tenantActive, session, signIn, changes>>

\* unlink-google empties the identity's index record in the same transaction.
UnlinkGoogle ==
    LET a == command.of  g == command.copy.subject IN
    /\ a # None
    /\ IF Fresh(a, command.copy)
       THEN /\ account' = [account EXCEPT ![a] = Stamped([command.copy EXCEPT
                  !.subject = None, !.allowed = FALSE, !.generation = @ + 1])]
            /\ google' = IF g # None /\ google[g].owner = a
                         THEN [google EXCEPT ![g] = [owner |-> None, version |-> @.version + 1]]
                         ELSE google
       ELSE UNCHANGED records
    /\ command' = [command EXCEPT !.of = None]
    /\ UNCHANGED <<tenantActive, session, signIn, changes>>

\* The customer is suspended, or let in again.
SetTenant ==
    /\ changes < MaxChanges
    /\ tenantActive' = ~tenantActive
    /\ changes' = changes + 1
    /\ UNCHANGED <<records, session, signIn, command>>

SignInStep(i) ==
    \/ CheckPassword(i) \/ Rehash(i)
    \/ ReadFound(i) \/ BindGoogle(i) \/ BindCommit(i)
    \/ OpenSession(i) \/ Confirm(i) \/ StampLogin(i)
    \/ \E g \in Subjects : FindByGoogle(i, g) \/ FindByEmail(i, g)

OperatorStep ==
    RunCommand \/ UnlinkGoogle \/ SetTenant \/ \E a \in Account : ReadForCommand(a)

Next == (\E i \in SignIns : SignInStep(i) \/ SignOut(i)) \/ OperatorStep

Spec == Init /\ [][Next]_vars
------------------------------------------------------------------------
(* Every variable keeps its type. *)
TypeOK ==
    /\ account \in [Account -> AccountRecord]
    /\ google \in [Subjects -> [owner : Account \cup {None}, version : Nat]]
    /\ tenantActive \in BOOLEAN
    /\ session \in [SignIns -> Session]
    /\ at \in [SignIns -> Places]
    /\ who \in [SignIns -> Account]
    /\ proof \in [SignIns -> [method : LoginMethod, secret : Nat, hash : Nat,
                              subject : Subjects \cup {None}]]
    /\ seen \in [SignIns -> AccountRecord]
    /\ indexSeen \in [SignIns -> Nat] /\ tries \in [SignIns -> Nat]
    /\ command \in [of : Account \cup {None}, copy : AccountRecord]
    /\ changes \in Nat

(* A session in a browser that counts was opened with a password or a Google identity the *)
(* account still has: there is no gap between the operator's change and a    *)
(* sign-in racing it (AuthService._open, session_for).                       *)
SessionHasItsProof ==
    \A i \in SignIns : at[i] \in {"touch", "in"} /\ Counts(i) =>
        LET current == account[who[i]]
        IN  IF proof[i].method = "password" THEN current.secret = proof[i].secret
            ELSE current.subject = proof[i].subject

(* A Google identity's record names exactly the account that has it, so it   *)
(* neither signs in to an account that gave it up nor is refused for good    *)
(* (AccountStore.bind_google, unlink_google).                                *)
IndexMatchesAccount ==
    \A g \in Subjects, a \in Account : google[g].owner = a <=> account[a].subject = g

(* What the operator has changed is never written back by a sign-in that     *)
(* read the account before: a status, a password or the right to link        *)
(* changes only as a command says (AccountStore.update).                     *)
AccountStep ==
    \A a \in Account :
        LET old == account[a]  new == account'[a] IN
        /\ new.generation >= old.generation
        /\ ~OperatorStep =>
              /\ <<new.status, new.secret, new.allowed, new.generation>>
                 = <<old.status, old.secret, old.allowed, old.generation>>
              /\ new.subject # old.subject => MayLink(old, new.subject)

NothingWrittenBack == [][AccountStep]_vars

(* "Never worth refusing a correct password over" (sign_in_with_password):   *)
(* a sign-in with the account's password is refused only if the operator has *)
(* done something since.                                                     *)
RightPasswordSignsIn ==
    \A i \in SignIns :
        at[i] = "refused" /\ proof[i].method = "password" => changes > 0
========================================================================

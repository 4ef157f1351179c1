----------------------------- MODULE Sessions -----------------------------
(***************************************************************************)
(* One browser's session once it is open: the requests that touch it, the  *)
(* sign-out, and the purge that deletes rows under them (session_for and   *)
(* sign_out of app/accounts/service.py, app/runtime/maintenance.py). The   *)
(* purge is one transaction of several statements, each with a snapshot of *)
(* its own; what it deletes is there for everybody else until it commits.  *)
(* A replace over the version that was read is one step.                   *)
(***************************************************************************)
EXTENDS Integers

CONSTANTS
    Requests,
    SESSION_LIFETIME, IDLE_TIMEOUT, TOUCH_EVERY, GRACE,
    MaxClock         \* bound: the time that passes

VARIABLES
    clock,
    rows,            \* the committed versions of the session's record
    at, copy, now,   \* where each request is, what it read, and when
    purge,           \* the purge under way: its cutoff and what it deletes
    lastSeen, signedOut  \* the newest touch that was written; a sign-out was

request == <<at, copy, now>>
history == <<lastSeen, signedOut>>
vars == <<clock, rows, request, purge, history>>
------------------------------------------------------------------------
Never == MaxClock + 1
Opened == [version |-> 1, seen |-> 0, revoked |-> Never]
NoPurge == [at |-> "idle", cutoff |-> 0, doomed |-> {}]

Init ==
    /\ clock = 0 /\ rows = {Opened}
    /\ at = [r \in Requests |-> "idle"]
    /\ copy = [r \in Requests |-> Opened]
    /\ now = [r \in Requests |-> 0]
    /\ purge = NoPurge
    /\ lastSeen = 0 /\ signedOut = FALSE

LatestOf(versions) ==
    CHOOSE row \in versions : \A other \in versions : other.version <= row.version
Latest == LatestOf(rows)

\* Neither revoked, nor expired, nor idle for too long.
Counts(session, time) ==
    session.revoked = Never /\ time < SESSION_LIFETIME /\ time - session.seen < IDLE_TIMEOUT

\* A request keeps the copy and the time it goes by until it is done.
With(r, place, session, time) ==
    /\ at' = [at EXCEPT ![r] = place]
    /\ copy' = [copy EXCEPT ![r] = session]
    /\ now' = [now EXCEPT ![r] = time]
Done(r) == With(r, "idle", Opened, 0)
------------------------------------------------------------------------
\* session_for reads the newest version, and the clock after it.
Find(r) ==
    /\ at[r] = "idle" /\ rows # {}
    /\ With(r, "found", Latest, 0)
    /\ UNCHANGED <<clock, rows, purge, history>>

Recognise(r) ==
    /\ at[r] = "found"
    /\ IF ~Counts(copy[r], clock) THEN Done(r)
       ELSE IF clock - copy[r].seen >= TOUCH_EVERY THEN With(r, "touch", copy[r], clock)
       ELSE With(r, "in", Opened, 0)
    /\ UNCHANGED <<clock, rows, purge, history>>

\* SessionStore.replace: refused unless the version that was read is the newest.
Replaced(r, session) ==
    IF rows # {} /\ Latest.version = copy[r].version
    THEN rows' = rows \cup {[session EXCEPT !.version = @ + 1]}
    ELSE UNCHANGED rows

\* A concurrent request may have touched it first: the session is still good.
Touch(r) ==
    /\ at[r] = "touch"
    /\ Replaced(r, [copy[r] EXCEPT !.seen = now[r]])
    /\ lastSeen' = IF rows' # rows THEN now[r] ELSE lastSeen
    /\ With(r, "in", Opened, 0)
    /\ UNCHANGED <<clock, purge, signedOut>>

Answer(r) ==
    /\ at[r] = "in"
    /\ Done(r)
    /\ UNCHANGED <<clock, rows, purge, history>>

\* sign_out, for a session that was recognised, reads it again ...
FindToLeave(r) ==
    /\ at[r] = "in"
    /\ IF rows = {} \/ Latest.revoked # Never
       THEN Done(r) ELSE With(r, "leave", Latest, clock)
    /\ UNCHANGED <<clock, rows, purge, history>>

\* ... and revokes it, or fails when it was touched meanwhile.
Leave(r) ==
    /\ at[r] = "leave"
    /\ Replaced(r, [copy[r] EXCEPT !.revoked = now[r]])
    /\ signedOut' = (signedOut \/ rows' # rows)
    /\ Done(r)
    /\ UNCHANGED <<clock, purge, lastSeen>>
------------------------------------------------------------------------
\* A round of the purge takes the time once, ...
PurgeBegin ==
    /\ purge.at = "idle"
    /\ purge' = [purge EXCEPT !.at = "dead", !.cutoff = clock - GRACE]
    /\ UNCHANGED <<clock, rows, request, history>>

\* The newest version has been of no use since before the cutoff.
Dead(cutoff) ==
    /\ rows # {}
    /\ \/ SESSION_LIFETIME < cutoff
       \/ Latest.revoked < cutoff
       \/ Latest.seen < cutoff - IDLE_TIMEOUT

\* ... deletes every version of a dead session, ...
DeleteDead ==
    /\ purge.at = "dead"
    /\ purge' = [purge EXCEPT !.at = "superseded",
                              !.doomed = IF Dead(purge.cutoff) THEN rows ELSE {}]
    /\ UNCHANGED <<clock, rows, request, history>>

\* ... and of any other all but the newest one: its own deletions it sees.
DeleteSuperseded ==
    LET left == rows \ purge.doomed IN
    /\ purge.at = "superseded"
    /\ purge' = [purge EXCEPT !.at = "commit",
          !.doomed = @ \cup {row \in left : row.version < LatestOf(left).version}]
    /\ UNCHANGED <<clock, rows, request, history>>

Commit ==
    /\ purge.at = "commit"
    /\ rows' = rows \ purge.doomed
    /\ purge' = NoPurge
    /\ UNCHANGED <<clock, request, history>>

\* The server stops: nothing was deleted.
Abort ==
    /\ purge.at # "idle"
    /\ purge' = NoPurge
    /\ UNCHANGED <<clock, rows, request, history>>

Tick ==
    /\ clock < MaxClock
    /\ clock' = clock + 1
    /\ UNCHANGED <<rows, request, purge, history>>

Next ==
    \/ \E r \in Requests :
          \/ Find(r) \/ Recognise(r) \/ Touch(r) \/ Answer(r)
          \/ FindToLeave(r) \/ Leave(r)
    \/ PurgeBegin \/ DeleteDead \/ DeleteSuperseded \/ Commit \/ Abort \/ Tick

Spec == Init /\ [][Next]_vars
------------------------------------------------------------------------
(* Every variable keeps its type. *)
TypeOK ==
    /\ clock \in 0..MaxClock
    /\ \A row \in rows : row.version \in Nat /\ row.seen \in 0..MaxClock
    /\ at \in [Requests -> {"idle", "found", "touch", "in", "leave"}]
    /\ purge.at \in {"idle", "dead", "superseded", "commit"} /\ purge.doomed \subseteq rows

(* A sign-out that was answered holds: no touch that read the session before *)
(* it, and no purge of rows around it, makes it count again                  *)
(* (AccountService.sign_out, SessionStore.replace).                          *)
SignedOutStaysOut == signedOut => rows = {} \/ Latest.revoked # Never

(* Who is signed in stays signed in: a session that may be used is never     *)
(* among what the purge deletes, although it is judged by a snapshot that a  *)
(* touch may outdate before the purge commits (RecordPurge.run_round).       *)
SessionIsKept ==
    /\ ~signedOut
    /\ clock < SESSION_LIFETIME /\ clock - lastSeen < IDLE_TIMEOUT
    => rows # {} /\ Latest.revoked = Never /\ Latest.seen = lastSeen
========================================================================

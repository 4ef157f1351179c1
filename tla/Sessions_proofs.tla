-------------------------- MODULE Sessions_proofs --------------------------
(***************************************************************************)
(* A sign-out holds and a session in use is kept, for any requests, any    *)
(* times and any rounds of the purge.                                      *)
(*                                                                         *)
(* The argument: every row the purge has marked is older than every row it *)
(* has spared, so that its commit leaves the newest row, or deletes all of *)
(* a session that was dead by then and cannot be revived; and a copy of    *)
(* the newest version is that very row, so that the compare-and-save adds  *)
(* the last touch or the sign-out to what is stored.                       *)
(***************************************************************************)
EXTENDS Sessions, TLAPS

\* The lengths of time are set in the program's configuration.
TimesAreTimes ==
    /\ SESSION_LIFETIME \in Nat /\ IDLE_TIMEOUT \in Nat
    /\ TOUCH_EVERY \in Nat /\ GRACE \in Nat /\ MaxClock \in Nat

Versions == [version : Nat, seen : 0..MaxClock, revoked : 0..Never]
Tasks == [at : {"idle", "dead", "superseded", "commit"}, cutoff : Int,
          doomed : SUBSET Versions]
Types ==
    /\ clock \in 0..MaxClock
    /\ rows \subseteq Versions
    /\ at \in [Requests -> {"idle", "found", "touch", "in", "leave"}]
    /\ copy \in [Requests -> Versions]
    /\ now \in [Requests -> 0..MaxClock]
    /\ purge \in Tasks /\ purge.doomed \subseteq rows
    /\ lastSeen \in 0..MaxClock /\ signedOut \in BOOLEAN

\* The newest of some versions, when there is one.
IsNewest(row, versions) ==
    row \in versions /\ \A other \in versions : other.version <= row.version
OneRowEach == \A row, other \in rows : row.version = other.version => row = other
HasNewest == rows # {} => \E row \in rows : IsNewest(row, rows)

\* The newest version tells what was done last.
NewestTells ==
    \A row \in rows : IsNewest(row, rows) =>
        row.seen = lastSeen /\ (signedOut <=> row.revoked # Never)

\* What a request has read: a version that is no newer than the newest, and
\* the same as the stored one of its number; it writes over an open session.
CopyIsStored ==
    \A r \in Requests : at[r] \in {"found", "touch", "leave"} =>
        /\ at[r] # "found" => copy[r].revoked = Never
        /\ \A row \in rows : IsNewest(row, rows) =>
              /\ copy[r].version <= row.version
              /\ copy[r].version = row.version => copy[r] = row

\* A purge goes by a time that has passed, and spares what is newer than all
\* it has marked, or the session is dead.
Usable == ~signedOut /\ clock < SESSION_LIFETIME /\ clock - lastSeen < IDLE_TIMEOUT
PurgeIsSafe ==
    /\ purge.at # "idle" => purge.cutoff <= clock
    /\ purge.at \in {"idle", "dead"} => purge.doomed = {}
    /\ \A row \in purge.doomed, spared \in rows \ purge.doomed :
          row.version < spared.version
    /\ rows \subseteq purge.doomed => ~Usable

IInv == Types /\ OneRowEach /\ HasNewest /\ NewestTells /\ CopyIsStored /\ PurgeIsSafe
-----------------------------------------------------------------------------
LEMMA LatestIsNewest ==
  ASSUME rows \subseteq Versions, OneRowEach, HasNewest, rows # {}
  PROVE  /\ Latest \in rows /\ IsNewest(Latest, rows)
         /\ \A row \in rows : IsNewest(row, rows) => row = Latest
  <1>1. IsNewest(Latest, rows)
    BY DEF HasNewest, IsNewest, Latest, LatestOf
  <1>2. \A row, other \in rows : row.version \in Nat /\ other.version \in Nat
    BY DEF Versions
  <1> QED
    BY <1>1, <1>2 DEF IsNewest, OneRowEach

\* One more version, after the newest, is the newest.
LEMMA NextVersion ==
  ASSUME rows \subseteq Versions, OneRowEach, HasNewest, rows # {},
         NEW new \in Versions, new.version = Latest.version + 1,
         rows' = rows \cup {new}
  PROVE  /\ new \notin rows /\ OneRowEach' /\ HasNewest'
         /\ \A row \in rows : row.version < new.version
         /\ \A row \in rows' : IsNewest(row, rows') => row = new
  <1>1. \A row \in rows : row.version \in Nat /\ row.version <= Latest.version
    BY LatestIsNewest DEF IsNewest, Versions
  <1>2. Latest.version \in Nat
    BY <1>1, LatestIsNewest
  <1>3. \A row \in rows : row.version < new.version /\ row.version # new.version
    BY <1>1, <1>2
  <1>4. new \notin rows
    BY <1>3
  <1>5. OneRowEach'
    BY <1>3 DEF OneRowEach
  <1>6. IsNewest(new, rows')
    BY <1>1, <1>2, <1>3 DEF IsNewest
  <1>7. \A row \in rows' : IsNewest(row, rows') => row = new
    <2>1. ASSUME NEW row \in rows, IsNewest(row, rows')
          PROVE  FALSE
      <3>1. new.version <= row.version
        BY <2>1 DEF IsNewest
      <3>2. row.version \in Nat /\ new.version \in Nat /\ row.version < new.version
        BY <1>1, <1>3 DEF Versions
      <3> QED
        BY <3>1, <3>2
    <2> QED
      BY <2>1
  <1> QED
    BY <1>3, <1>4, <1>5, <1>6, <1>7 DEF HasNewest

LEMMA InitIInv == TimesAreTimes /\ Init => IInv
  <1> SUFFICES ASSUME TimesAreTimes, Init PROVE IInv
    OBVIOUS
  <1>1. Opened \in Versions
    BY DEF Versions, Opened, Never, TimesAreTimes
  <1>2. Types
    <2>1. purge \in Tasks /\ purge.doomed \subseteq rows
      <3>1. NoPurge \in Tasks /\ NoPurge.doomed = {}
        BY DEF NoPurge, Tasks
      <3> QED
        BY <3>1 DEF Init
    <2>2. clock \in 0..MaxClock /\ lastSeen \in 0..MaxClock /\ 0 \in 0..MaxClock
      BY DEF Init, TimesAreTimes
    <2>3. signedOut \in BOOLEAN
      BY DEF Init
    <2>4. /\ rows \subseteq Versions /\ copy \in [Requests -> Versions]
          /\ now \in [Requests -> 0..MaxClock]
          /\ at \in [Requests -> {"idle", "found", "touch", "in", "leave"}]
      BY <1>1, <2>2 DEF Init
    <2> QED
      BY <2>1, <2>2, <2>3, <2>4 DEF Types
  <1> USE DEF Init, Opened, NoPurge
  <1>3. OneRowEach /\ HasNewest
    BY <1>1 DEF OneRowEach, HasNewest, IsNewest, Versions
  <1>4. NewestTells /\ CopyIsStored
    BY DEF NewestTells, CopyIsStored
  <1>5. PurgeIsSafe
    BY DEF PurgeIsSafe
  <1> QED
    BY <1>2, <1>3, <1>4, <1>5 DEF IInv

\* A request that reads or ends: what is stored and the purge stay.
LEMMA ReadIInv ==
  ASSUME TimesAreTimes, IInv, NEW r \in Requests,
         Find(r) \/ Recognise(r) \/ Answer(r) \/ FindToLeave(r)
  PROVE  IInv'
  <1> USE DEF TimesAreTimes
  <1>1. PICK place \in {"idle", "found", "touch", "in", "leave"}, session \in Versions,
             time \in 0..MaxClock :
          /\ With(r, place, session, time)
          /\ place = "found" => session = Latest /\ rows # {}
          /\ place = "touch" => session = copy[r] /\ at[r] = "found" /\ session.revoked = Never
          /\ place = "leave" => session = Latest /\ rows # {} /\ session.revoked = Never
    <2>1. Opened \in Versions /\ 0 \in 0..MaxClock /\ clock \in 0..MaxClock
      BY DEF Opened, Versions, Never, IInv, Types
    <2>2. rows # {} => Latest \in Versions
      BY LatestIsNewest DEF IInv, Types
    <2>3. copy[r] \in Versions
      BY DEF IInv, Types
    <2>4. CASE Find(r)
      BY <2>1, <2>2, <2>4 DEF Find
    <2>5. CASE Recognise(r)
      BY <2>1, <2>3, <2>5 DEF Recognise, Done, Counts
    <2>6. CASE Answer(r)
      BY <2>1, <2>6 DEF Answer, Done
    <2>7. CASE FindToLeave(r)
      BY <2>1, <2>2, <2>7 DEF FindToLeave, Done
    <2> QED
      BY <2>4, <2>5, <2>6, <2>7
  <1>2. UNCHANGED <<clock, rows, purge, lastSeen, signedOut>>
    BY DEF Find, Recognise, Answer, FindToLeave, history
  <1>3. Types'
    BY <1>1, <1>2 DEF IInv, Types, With
  <1>4. /\ at'[r] = place /\ copy'[r] = session
        /\ \A q \in Requests \ {r} : UNCHANGED <<at[q], copy[q]>>
    BY <1>1 DEF With, IInv, Types
  <1>5. \A row \in rows : IsNewest(row, rows) => row = Latest
    BY LatestIsNewest DEF IInv, Types
  <1>6. rows # {} => Latest.version \in Nat
    BY LatestIsNewest DEF IInv, Types, Versions
  <1>7. CopyIsStored'
    BY <1>1, <1>2, <1>4, <1>5, <1>6 DEF IInv, CopyIsStored
  <1> QED
    BY <1>2, <1>3, <1>7
       DEF IInv, OneRowEach, HasNewest, NewestTells, PurgeIsSafe, Usable

\* A request that writes over the version it has read, if it is the newest.
LEMMA ReplacedIInv ==
  ASSUME TimesAreTimes, IInv, NEW r \in Requests, at[r] \in {"touch", "leave"},
         NEW session \in Versions, session.version = copy[r].version,
         Replaced(r, session),
         NEW place \in {"idle", "in"}, With(r, place, Opened, 0),
         UNCHANGED <<clock, purge>>,
         lastSeen' \in 0..MaxClock, signedOut' \in BOOLEAN,
         rows' = rows => UNCHANGED <<lastSeen, signedOut>>,
         copy[r] = Latest /\ rows' # rows =>
             session.seen = lastSeen' /\ (signedOut' <=> session.revoked # Never)
  PROVE  IInv'
  <1> USE DEF TimesAreTimes
  <1>1. /\ at'[r] = place /\ \A q \in Requests \ {r} : UNCHANGED <<at[q], copy[q]>>
        /\ at' \in [Requests -> {"idle", "found", "touch", "in", "leave"}]
        /\ copy' \in [Requests -> Versions] /\ now' \in [Requests -> 0..MaxClock]
    <2>1. Opened \in Versions
      BY DEF Opened, Versions, Never
    <2> QED
      BY <2>1 DEF With, IInv, Types
  <1>2. CASE rows' = rows
    <2>1. Types'
      BY <1>1, <1>2 DEF IInv, Types
    <2>2. CopyIsStored'
      BY <1>1, <1>2 DEF IInv, CopyIsStored
    <2> QED
      BY <1>2, <2>1, <2>2 DEF IInv, OneRowEach, HasNewest, NewestTells, PurgeIsSafe, Usable
  <1>3. CASE rows' # rows
    <2> DEFINE new == [session EXCEPT !.version = @ + 1]
    <2>1. /\ rows # {} /\ Latest.version = copy[r].version
          /\ rows' = rows \cup {new}
      BY <1>3 DEF Replaced
    <2>2. /\ new \in Versions /\ new.version = Latest.version + 1
          /\ new.seen = session.seen /\ new.revoked = session.revoked
      BY <2>1 DEF Versions
    <2> HIDE DEF new
    <2>3. /\ new \notin rows /\ OneRowEach' /\ HasNewest'
          /\ \A row \in rows : row.version < new.version
          /\ \A row \in rows' : IsNewest(row, rows') => row = new
      BY <2>1, <2>2, NextVersion DEF IInv, Types
    <2>4. Latest \in rows /\ IsNewest(Latest, rows)
      BY <2>1, LatestIsNewest DEF IInv, Types
    <2>5. Latest = copy[r]
      BY <2>1, <2>4 DEF IInv, CopyIsStored
    <2>6. NewestTells'
      BY <1>3, <2>1, <2>2, <2>3, <2>5 DEF NewestTells
    <2>7. CopyIsStored'
      <3>1. ASSUME NEW q \in Requests, at'[q] \in {"found", "touch", "leave"}
            PROVE  /\ UNCHANGED <<at[q], copy[q]>>
                   /\ copy[q].version < new.version /\ copy[q].version # new.version
                   /\ copy[q].version <= new.version
        <4>1. UNCHANGED <<at[q], copy[q]>>
          BY <1>1, <3>1
        <4>2. copy[q].version <= Latest.version
          BY <2>4, <3>1, <4>1 DEF IInv, CopyIsStored
        <4>3. copy[q].version \in Nat /\ Latest.version \in Nat
          BY <2>4 DEF IInv, Types, Versions
        <4> QED
          BY <2>2, <4>1, <4>2, <4>3
      <3> QED
        BY <2>3, <3>1 DEF IInv, CopyIsStored
    <2>8. PurgeIsSafe'
      <3>1. purge.doomed \subseteq rows /\ purge' = purge /\ clock' = clock
        BY DEF IInv, Types
      <3>2. ~(rows' \subseteq purge.doomed)
        BY <2>1, <2>3, <3>1
      <3>3. \A row \in purge.doomed, spared \in rows' \ purge.doomed :
               row.version < spared.version
        BY <2>1, <2>3, <3>1 DEF IInv, PurgeIsSafe
      <3> QED
        BY <3>1, <3>2, <3>3 DEF IInv, PurgeIsSafe
    <2>9. Types'
      BY <1>1, <2>1, <2>2 DEF IInv, Types
    <2> QED
      BY <2>3, <2>6, <2>7, <2>8, <2>9 DEF IInv
  <1> QED
    BY <1>2, <1>3

LEMMA TouchIInv ==
  ASSUME TimesAreTimes, IInv, NEW r \in Requests, Touch(r)
  PROVE  IInv'
  <1> DEFINE session == [copy[r] EXCEPT !.seen = now[r]]
  <1>1. /\ session \in Versions /\ session.version = copy[r].version
        /\ session.seen = now[r] /\ session.revoked = copy[r].revoked
    BY DEF IInv, Types, Versions
  <1>2. /\ at[r] = "touch" /\ Replaced(r, session) /\ With(r, "in", Opened, 0)
        /\ UNCHANGED <<clock, purge, signedOut>>
        /\ lastSeen' = IF rows' # rows THEN now[r] ELSE lastSeen
    BY DEF Touch
  <1> HIDE DEF session
  <1>3. lastSeen' \in 0..MaxClock /\ signedOut' \in BOOLEAN
    BY <1>2 DEF IInv, Types
  <1>4. copy[r].revoked = Never
    BY <1>2 DEF IInv, CopyIsStored
  <1>5. copy[r] = Latest /\ rows' # rows => ~signedOut
    <2>1. rows' # rows => rows # {}
      BY <1>2 DEF Replaced
    <2> QED
      BY <1>4, <2>1, LatestIsNewest DEF IInv, Types, NewestTells
  <1> QED
    BY <1>1, <1>2, <1>3, <1>4, <1>5, ReplacedIInv

LEMMA LeaveIInv ==
  ASSUME TimesAreTimes, IInv, NEW r \in Requests, Leave(r)
  PROVE  IInv'
  <1> DEFINE session == [copy[r] EXCEPT !.revoked = now[r]]
  <1>1. /\ session \in Versions /\ session.version = copy[r].version
        /\ session.seen = copy[r].seen /\ session.revoked = now[r]
        /\ now[r] # Never
    BY DEF IInv, Types, Versions, Never, TimesAreTimes
  <1>2. /\ at[r] = "leave" /\ Replaced(r, session) /\ With(r, "idle", Opened, 0)
        /\ UNCHANGED <<clock, purge, lastSeen>>
        /\ signedOut' = (signedOut \/ rows' # rows)
    BY DEF Leave, Done
  <1> HIDE DEF session
  <1>3. lastSeen' \in 0..MaxClock /\ signedOut' \in BOOLEAN
    BY <1>2 DEF IInv, Types
  <1>4. rows' = rows => signedOut' = signedOut
    BY <1>2 DEF IInv, Types
  <1>5. copy[r] = Latest /\ rows' # rows => session.seen = lastSeen /\ signedOut'
    <2>1. rows' # rows => rows # {}
      BY <1>2 DEF Replaced
    <2> QED
      BY <1>1, <1>2, <2>1, LatestIsNewest DEF IInv, Types, NewestTells
  <1> QED
    BY <1>1, <1>2, <1>3, <1>4, <1>5, ReplacedIInv
-----------------------------------------------------------------------------
\* The purge up to its commit changes nothing for anybody else.
LEMMA MarkIInv ==
  ASSUME TimesAreTimes, IInv, PurgeBegin \/ DeleteDead \/ DeleteSuperseded \/ Abort
  PROVE  IInv'
  <1> USE DEF TimesAreTimes
  <1>1. UNCHANGED <<clock, rows, at, copy, now, lastSeen, signedOut>>
    BY DEF PurgeBegin, DeleteDead, DeleteSuperseded, Abort, request, history
  <1> SUFFICES /\ purge' \in Tasks /\ purge'.doomed \subseteq rows
               /\ PurgeIsSafe'
    BY <1>1 DEF IInv, Types, OneRowEach, HasNewest, NewestTells, CopyIsStored
  <1>2. /\ purge \in Tasks /\ purge.doomed \subseteq rows /\ rows \subseteq Versions
        /\ clock \in 0..MaxClock
    BY DEF IInv, Types
  <1>3. rows = {} => ~Usable
    BY <1>2 DEF IInv, PurgeIsSafe
  <1>4. CASE Abort
    BY <1>1, <1>3, <1>4 DEF Abort, NoPurge, Tasks, PurgeIsSafe, Usable
  <1>5. CASE PurgeBegin
    <2>1. clock - GRACE \in Int /\ clock - GRACE <= clock
      BY <1>2
    <2>2. /\ purge'.at = "dead" /\ purge'.cutoff = clock - GRACE
          /\ purge'.doomed = {} /\ purge' \in Tasks
      BY <1>2, <1>5, <2>1 DEF PurgeBegin, Tasks, IInv, PurgeIsSafe
    <2> QED
      BY <1>1, <1>3, <2>1, <2>2 DEF PurgeIsSafe, Usable
  <1>6. CASE DeleteDead
    <2>1. /\ purge'.at = "superseded" /\ purge'.cutoff = purge.cutoff
          /\ purge'.doomed = IF Dead(purge.cutoff) THEN rows ELSE {}
          /\ purge' \in Tasks /\ purge.at = "dead"
      BY <1>2, <1>6 DEF DeleteDead, Tasks
    <2>2. purge.cutoff <= clock /\ purge.cutoff \in Int
      BY <1>2, <2>1 DEF IInv, PurgeIsSafe, Tasks
    <2>3. Dead(purge.cutoff) => ~Usable
      <3> SUFFICES ASSUME Dead(purge.cutoff), Usable
                   PROVE  FALSE
        OBVIOUS
      <3>1. rows # {} /\ Latest \in Versions /\ Latest.seen = lastSeen /\ Latest.revoked = Never
        BY LatestIsNewest, <1>2 DEF Dead, IInv, NewestTells, Usable
      <3>2. lastSeen \in 0..MaxClock
        BY DEF IInv, Types
      <3> QED
        BY <1>2, <2>2, <3>1, <3>2 DEF Dead, Usable, Never
    <2> QED
      BY <1>1, <1>2, <1>3, <2>1, <2>2, <2>3 DEF PurgeIsSafe, Usable
  <1>7. CASE DeleteSuperseded
    <2> DEFINE left == rows \ purge.doomed
               newest == LatestOf(left)
               old == {row \in left : row.version < newest.version}
    <2>1. /\ purge'.at = "commit" /\ purge'.cutoff = purge.cutoff
          /\ purge'.doomed = purge.doomed \cup old
          /\ purge' \in Tasks /\ purge.at = "superseded"
      BY <1>2, <1>7 DEF DeleteSuperseded, Tasks
    <2>2. purge.cutoff <= clock
      BY <2>1 DEF IInv, PurgeIsSafe
    <2>3. CASE left = {}
      BY <1>1, <1>2, <2>1, <2>2, <2>3 DEF IInv, PurgeIsSafe, Usable
    <2>4. CASE left # {}
      <3>1. Latest \in left /\ IsNewest(Latest, left)
        <4>1. Latest \in rows /\ IsNewest(Latest, rows)
          BY <1>2, <2>4, LatestIsNewest DEF IInv
        <4>2. PICK spared \in left : TRUE
          BY <2>4
        <4>3. spared.version <= Latest.version /\ spared.version \in Nat
              /\ Latest.version \in Nat
          BY <1>2, <4>1 DEF IsNewest, Versions
        <4>4. Latest \notin purge.doomed
          <5>1. Latest \in purge.doomed => Latest.version < spared.version
            BY DEF IInv, PurgeIsSafe
          <5> QED
            BY <4>3, <5>1
        <4> QED
          BY <4>1, <4>4 DEF IsNewest
      <3>2. IsNewest(newest, left)
        BY <3>1 DEF LatestOf, IsNewest
      <3>3. newest \in left /\ newest.version \in Nat
        BY <1>2, <3>2 DEF IsNewest, Versions
      <3>4. newest \notin old
        BY <3>3
      <3>5. \A row \in purge.doomed : row.version < newest.version
        BY <3>3 DEF IInv, PurgeIsSafe
      <3>6. \A row \in old : row.version < newest.version
        OBVIOUS
      <3>7. \A spared \in left \ old : spared.version = newest.version
        <4> TAKE spared \in left \ old
        <4>1. spared.version <= newest.version /\ ~(spared.version < newest.version)
          BY <3>2 DEF IsNewest
        <4>2. spared.version \in Nat
          BY <1>2 DEF Versions
        <4> QED
          BY <3>3, <4>1, <4>2
      <3>8. \A row \in purge'.doomed, spared \in rows \ purge'.doomed :
               row.version < spared.version
        BY <2>1, <3>5, <3>6, <3>7
      <3>9. ~(rows \subseteq purge'.doomed)
        BY <2>1, <3>3, <3>4
      <3> QED
        BY <1>1, <1>2, <2>1, <2>2, <3>8, <3>9 DEF PurgeIsSafe
    <2> QED
      BY <2>3, <2>4
  <1> QED
    BY <1>4, <1>5, <1>6, <1>7

\* The commit leaves the newest row, or nothing of a dead session.
LEMMA CommitIInv ==
  ASSUME TimesAreTimes, IInv, Commit
  PROVE  IInv'
  <1>1. /\ rows' = rows \ purge.doomed /\ purge' = NoPurge
        /\ UNCHANGED <<clock, at, copy, now, lastSeen, signedOut>>
    BY DEF Commit, request, history
  <1>2. Types'
    BY <1>1 DEF IInv, Types, NoPurge, Tasks, TimesAreTimes
  <1>3. OneRowEach'
    BY <1>1 DEF IInv, OneRowEach
  <1>4. CASE rows' = {}
    <2>1. ~Usable'
      BY <1>1, <1>4 DEF IInv, PurgeIsSafe, Usable
    <2> QED
      BY <1>1, <1>2, <1>3, <1>4, <2>1
         DEF IInv, HasNewest, NewestTells, CopyIsStored, PurgeIsSafe, NoPurge
  <1>5. CASE rows' # {}
    <2>1. Latest \in rows /\ IsNewest(Latest, rows) /\ rows \subseteq Versions
      BY <1>1, <1>5, LatestIsNewest DEF IInv, Types
    <2>2. PICK spared \in rows' : TRUE
      BY <1>5
    <2>3. Latest \in rows'
      <3>1. Latest \in purge.doomed => Latest.version < spared.version
        BY <1>1, <2>2 DEF IInv, PurgeIsSafe
      <3>2. /\ spared.version <= Latest.version
            /\ spared.version \in Nat /\ Latest.version \in Nat
        BY <1>1, <2>1, <2>2 DEF IsNewest, Versions
      <3> QED
        BY <1>1, <2>1, <3>1, <3>2
    <2>4. IsNewest(Latest, rows')
      BY <1>1, <2>1, <2>3 DEF IsNewest
    <2>5. \A row \in rows' : IsNewest(row, rows') => IsNewest(row, rows)
      <3> SUFFICES ASSUME NEW row \in rows', IsNewest(row, rows')
                   PROVE  row = Latest
        BY <2>1
      <3>1. Latest.version <= row.version /\ row.version <= Latest.version
        BY <1>1, <2>1, <2>3 DEF IsNewest
      <3>2. row.version \in Nat /\ Latest.version \in Nat /\ row \in rows
        BY <1>1, <2>1 DEF Versions
      <3> QED
        BY <2>1, <3>1, <3>2 DEF IInv, OneRowEach
    <2>6. HasNewest'
      BY <2>3, <2>4 DEF HasNewest
    <2>7. NewestTells' /\ CopyIsStored'
      BY <1>1, <2>5 DEF IInv, NewestTells, CopyIsStored
    <2>8. PurgeIsSafe'
      BY <1>1, <1>5 DEF PurgeIsSafe, NoPurge
    <2> QED
      BY <1>2, <1>3, <2>6, <2>7, <2>8 DEF IInv
  <1> QED
    BY <1>4, <1>5

LEMMA TickIInv ==
  ASSUME TimesAreTimes, IInv, Tick
  PROVE  IInv'
  <1>1. /\ clock' = clock + 1 /\ clock < MaxClock /\ clock \in 0..MaxClock
        /\ UNCHANGED <<rows, at, copy, now, purge, lastSeen, signedOut>>
    BY DEF Tick, request, history, IInv, Types
  <1>2. Types'
    BY <1>1 DEF IInv, Types, TimesAreTimes
  <1>3. Usable' => Usable
    <2>1. lastSeen \in 0..MaxClock
      BY DEF IInv, Types
    <2> QED
      BY <1>1, <2>1 DEF Usable, TimesAreTimes
  <1>4. purge.at # "idle" => purge'.cutoff <= clock'
    <2>1. purge.cutoff \in Int
      BY DEF IInv, Types, Tasks
    <2> QED
      BY <1>1, <2>1 DEF IInv, PurgeIsSafe, TimesAreTimes
  <1>5. PurgeIsSafe'
    BY <1>1, <1>3, <1>4 DEF IInv, PurgeIsSafe
  <1> QED
    BY <1>1, <1>2, <1>5 DEF IInv, OneRowEach, HasNewest, NewestTells, CopyIsStored

LEMMA NextIInv ==
  ASSUME TimesAreTimes, IInv, [Next]_vars
  PROVE  IInv'
  <1>1. CASE UNCHANGED vars
    BY <1>1 DEF vars, request, history, IInv, Types, OneRowEach, HasNewest, NewestTells,
                CopyIsStored, PurgeIsSafe, Usable
  <1>2. CASE Next
    BY <1>2, ReadIInv, TouchIInv, LeaveIInv, MarkIInv, CommitIInv, TickIInv DEF Next
  <1> QED
    BY <1>1, <1>2

LEMMA SpecIInv ==
  ASSUME TimesAreTimes
  PROVE  Spec => []IInv
  <1>1. Init => IInv
    BY InitIInv
  <1>2. IInv /\ [Next]_vars => IInv'
    BY NextIInv
  <1> QED
    BY <1>1, <1>2, PTL DEF Spec
-----------------------------------------------------------------------------
\* A session that was signed out never counts again (AccountService.sign_out).
THEOREM SpecSignedOutStaysOut ==
  ASSUME TimesAreTimes
  PROVE  Spec => []SignedOutStaysOut
  <1>1. IInv => SignedOutStaysOut
    BY LatestIsNewest DEF IInv, Types, NewestTells, SignedOutStaysOut
  <1> QED
    BY <1>1, SpecIInv, PTL

\* A session that may be used is never deleted (RecordPurge.run_round).
THEOREM SpecSessionIsKept ==
  ASSUME TimesAreTimes
  PROVE  Spec => []SessionIsKept
  <1>1. IInv => SessionIsKept
    BY LatestIsNewest DEF IInv, Types, NewestTells, PurgeIsSafe, Usable, SessionIsKept
  <1> QED
    BY <1>1, SpecIInv, PTL
=============================================================================

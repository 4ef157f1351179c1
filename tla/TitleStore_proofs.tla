------------------------- MODULE TitleStore_proofs -------------------------
(***************************************************************************)
(* The plugin's store, for any titles, keys, size of the history, changes  *)
(* and stops, while PHP handles one request of a post at a time.           *)
(*                                                                         *)
(* The argument: the history is the end of the list of all saved changes;  *)
(* the copy a request is about to write is the history still; and while    *)
(* no request was stopped, only the one under way has a title on the site  *)
(* that the history does not tell of. The changes that stand are a stack,  *)
(* and where titles differ the one that shows is its top.                  *)
(***************************************************************************)
EXTENDS TitleStore, SequenceTheorems, WellFoundedInduction, TLAPS

USE BoundsAssumption, OverrideAssumption

\* PHP handles one request of a post at a time.
OneAtATime == \A q, r \in Requests : q = r

\* Requests on their way to writing the history they have read.
Applying == {"setTitle", "saveEntry"}
Undoing == {"restore", "saveUndone"}

\* Every change has an id, and a key, of its own.
Ids ==
    /\ \A n \in DOMAIN history : history[n].id <= changes
    /\ \A m, n \in DOMAIN history : history[m].id = history[n].id => m = n
    /\ \A r \in Requests : req[r].at \in Applying =>
          /\ req[r].entry.id = changes
          /\ \A n \in DOMAIN history : history[n].id < changes
          /\ ~InHistory(history, req[r].entry.key)
    /\ \A r \in Requests : req[r].at \in Undoing =>
          \E n \in DOMAIN history : req[r].entry = history[n]

CopyIsHistory ==
    \A r \in Requests : req[r].at \in Applying \cup Undoing => req[r].copy = history

\* The history is the end of what was saved.
HistoryIsTail ==
    /\ Len(history) <= Len(saved)
    /\ Len(history) = HistorySize \/ Len(history) = Len(saved)
    /\ \A n \in DOMAIN history : history[n].id = saved[n + (Len(saved) - Len(history))].id

\* While every request runs to its end, only the one under way has written a
\* title without its entry, and an entry tells what was there before.
EntriesTell ==
    stops = 0 =>
        /\ \A n \in DOMAIN history : history[n].previous = before[history[n].id]
        /\ \A r \in Requests : req[r].at = "setTitle" => req[r].entry.previous = override
        /\ \A k \in Keys : found[k].known =>
              \E r \in Requests : req[r].at = "saveEntry" /\ req[r].entry.key = k
        /\ \A r \in Requests : req[r].at = "saveEntry" =>
              found[req[r].entry.key] = [known |-> TRUE, value |-> req[r].entry.previous]

IInv ==
    /\ TypeOK
    /\ Ids
    /\ CopyIsHistory
    /\ HistoryIsTail
    /\ OneChangePerKey
    /\ EntriesTell
-----------------------------------------------------------------------------
(***************************************************************************)
(* The sequences.                                                          *)
(***************************************************************************)

\* save_history keeps the end of what it is given.
LEMMA KeptIsTail ==
  ASSUME NEW S, NEW h \in Seq(S)
  PROVE  /\ Kept(h) \in Seq(S)
         /\ Len(Kept(h)) <= HistorySize /\ Len(Kept(h)) <= Len(h)
         /\ Len(Kept(h)) = HistorySize \/ Len(Kept(h)) = Len(h)
         /\ \A n \in 1..Len(Kept(h)) : /\ n + (Len(h) - Len(Kept(h))) \in 1..Len(h)
                                       /\ Kept(h)[n] = h[n + (Len(h) - Len(Kept(h)))]
  <1> DEFINE first == IF Len(h) > HistorySize THEN Len(h) - HistorySize + 1 ELSE 1
  <1>1. Len(h) \in Nat /\ HistorySize \in Nat \ {0}
    BY LenProperties
  <1>2. first \in 1..Len(h) + 1 /\ first \in Int
    BY <1>1
  <1>3. Kept(h) = SubSeq(h, first, Len(h))
    BY DEF Kept
  <1>4. Len(h) - first + 1 = IF Len(h) > HistorySize THEN HistorySize ELSE Len(h)
    BY <1>1
  <1> HIDE DEF first
  <1>5. \A n \in first..Len(h) : h[n] \in S
    BY <1>1, <1>2, ElementOfSeq
  <1>6. /\ SubSeq(h, first, Len(h)) \in Seq(S)
        /\ Len(SubSeq(h, first, Len(h))) = IF first <= Len(h) THEN Len(h) - first + 1 ELSE 0
        /\ \A n \in 1..Len(h) - first + 1 :
              SubSeq(h, first, Len(h))[n] = h[first + n - 1]
    BY <1>1, <1>2, <1>5, SubSeqProperties
  <1>7. Len(Kept(h)) = Len(h) - first + 1
    BY <1>1, <1>2, <1>3, <1>6
  <1>8. \A n \in 1..Len(Kept(h)) : /\ n + (Len(h) - Len(Kept(h))) = first + n - 1
                                   /\ first + n - 1 \in 1..Len(h)
    BY <1>1, <1>2, <1>7
  <1>9. \A n \in 1..Len(Kept(h)) : n \in 1..Len(h) - first + 1
    BY <1>7
  <1>10. \A n \in 1..Len(Kept(h)) : Kept(h)[n] = h[first + n - 1]
    BY <1>3, <1>6, <1>9
  <1>11. /\ Len(Kept(h)) <= HistorySize /\ Len(Kept(h)) <= Len(h)
         /\ Len(Kept(h)) = HistorySize \/ Len(Kept(h)) = Len(h)
    BY <1>1, <1>4, <1>7
  <1>12. \A n \in 1..Len(Kept(h)) : /\ n + (Len(h) - Len(Kept(h))) \in 1..Len(h)
                                     /\ Kept(h)[n] = h[n + (Len(h) - Len(Kept(h)))]
    BY <1>8, <1>10
  <1>13. Kept(h) \in Seq(S)
    BY <1>3, <1>6
  <1> QED
    BY <1>11, <1>12, <1>13

LEMMA ShortIsKept ==
  ASSUME NEW S, NEW h \in Seq(S), Len(h) <= HistorySize
  PROVE  Kept(h) = h
  <1>1. Len(h) \in Nat
    BY LenProperties
  <1>2. ~(Len(h) > HistorySize)
    BY <1>1
  <1>3. Kept(h) = SubSeq(h, 1, Len(h))
    BY <1>2 DEF Kept
  <1> QED
    BY <1>3, SubSeqFull
-----------------------------------------------------------------------------
(***************************************************************************)
(* The invariant, action by action.                                        *)
(***************************************************************************)
LEMMA InitIInv == Init => IInv
  <1> SUFFICES ASSUME Init PROVE IInv
    OBVIOUS
  <1> USE DEF Init
  <1>1. /\ Ended \in [at : Places, entry : Entries \cup {NoEntry}, copy : Seq(Entries)]
        /\ Ended.at = "idle"
    BY DEF Ended, Places
  <1>2. TypeOK
    <2>1. NotYet \in [known : BOOLEAN, value : Values] /\ NoOverride \in Values
      BY DEF NotYet, Values
    <2>2. history \in Seq(Entries) /\ Len(history) <= HistorySize /\ saved \in Seq(Entries)
      OBVIOUS
    <2>3. changes \in 0..MaxChanges /\ stops \in Nat
      OBVIOUS
    <2> QED
      BY <1>1, <2>1, <2>2, <2>3 DEF TypeOK
  <1>3. DOMAIN history = {} /\ Len(history) = 0 /\ Len(saved) = 0
    OBVIOUS
  <1>4. \A r \in Requests : req[r].at = "idle"
    BY <1>1
  <1> QED
    BY <1>2, <1>3, <1>4
       DEF IInv, Ids, CopyIsHistory, HistoryIsTail, OneChangePerKey, EntriesTell, Applying,
           Undoing, NotYet

LEMMA HistoryIds ==
  ASSUME TypeOK
  PROVE  \A n \in DOMAIN history : history[n].id \in 1..MaxChanges
  <1>1. history \in Seq(Entries)
    BY DEF TypeOK
  <1>2. \A n \in DOMAIN history : history[n] \in Entries
    BY <1>1, ElementOfSeq, LenProperties
  <1> QED
    BY <1>2 DEF Entries

\* A request that reads, answers or is stopped: what is stored stays.
LEMMA ReadIInv ==
  ASSUME OneAtATime, IInv, NEW r \in Requests,
         \/ \E n \in DOMAIN history : ApplyKnown(r, n) \/ RollbackBegin(r, n)
         \/ Answer(r) \/ StopRequest(r)
  PROVE  IInv'
  <1> USE DEF IInv
  <1>1. /\ UNCHANGED <<override, history, found, before, saved, changes>>
        /\ stops' \in Nat /\ (stops' = 0 => stops = 0 /\ ~StopRequest(r))
    BY DEF ApplyKnown, RollbackBegin, Answer, StopRequest, TypeOK
  <1>2. \A n \in DOMAIN history : history[n] \in Entries
    BY ElementOfSeq, LenProperties DEF TypeOK
  <1>3. PICK next \in [at : Places, entry : Entries \cup {NoEntry}, copy : Seq(Entries)] :
          /\ req' = [req EXCEPT ![r] = next]
          /\ next.at \in {"idle", "answer", "restore"}
          /\ next.at # "idle" => next.entry \in Entries
          /\ next.at = "restore" =>
                next.copy = history /\ \E n \in DOMAIN history : next.entry = history[n]
    <2>1. Ended \in [at : Places, entry : Entries \cup {NoEntry}, copy : Seq(Entries)]
          /\ Ended.at = "idle"
      BY DEF Ended, Places
    <2>2. CASE Answer(r) \/ StopRequest(r)
      BY <2>1, <2>2 DEF Answer, StopRequest
    <2>3. ASSUME NEW n \in DOMAIN history, ApplyKnown(r, n)
          PROVE  \E next \in [at : Places, entry : Entries \cup {NoEntry}, copy : Seq(Entries)] :
                    /\ req' = [req EXCEPT ![r] = next]
                    /\ next.at = "answer" /\ next.entry \in Entries
      <3> DEFINE next == [at |-> "answer", entry |-> history[n], copy |-> <<>>]
      <3>1. next \in [at : Places, entry : Entries \cup {NoEntry}, copy : Seq(Entries)]
        BY <1>2 DEF Places
      <3> QED
        BY <1>2, <2>3, <3>1 DEF ApplyKnown
    <2>4. ASSUME NEW n \in DOMAIN history, RollbackBegin(r, n)
          PROVE  \E next \in [at : Places, entry : Entries \cup {NoEntry}, copy : Seq(Entries)] :
                    /\ req' = [req EXCEPT ![r] = next]
                    /\ next.at = "restore" /\ next.entry \in Entries
                    /\ next.copy = history /\ next.entry = history[n]
      <3> DEFINE next == [at |-> "restore", entry |-> history[n], copy |-> history]
      <3>1. next \in [at : Places, entry : Entries \cup {NoEntry}, copy : Seq(Entries)]
        BY <1>2 DEF Places, TypeOK
      <3> QED
        BY <1>2, <2>4, <3>1 DEF RollbackBegin
    <2> QED
      BY <2>2, <2>3, <2>4
  <1>4. req'[r] = next /\ \A q \in Requests : q = r
    BY <1>3 DEF OneAtATime, TypeOK
  <1>5. TypeOK'
    BY <1>1, <1>3, <1>4 DEF TypeOK
  <1>6. Ids' /\ CopyIsHistory'
    BY <1>1, <1>3, <1>4 DEF Ids, CopyIsHistory, Applying, Undoing, InHistory
  <1>7. HistoryIsTail' /\ OneChangePerKey'
    BY <1>1 DEF HistoryIsTail, OneChangePerKey
  <1>8. EntriesTell'
    <2>1. stops' = 0 => req[r].at # "saveEntry"
      BY <1>1 DEF ApplyKnown, RollbackBegin, Answer
    <2> QED
      BY <1>1, <1>3, <1>4, <2>1 DEF EntriesTell
  <1> QED
    BY <1>5, <1>6, <1>7, <1>8

LEMMA ApplyBeginIInv ==
  ASSUME OneAtATime, IInv, NEW r \in Requests, NEW key \in Keys, NEW title \in Titles,
         ApplyBegin(r, key, title)
  PROVE  IInv'
  <1> USE DEF IInv
  <1> DEFINE entry == [id |-> changes + 1, key |-> key, previous |-> override,
                       new |-> title, undone |-> FALSE]
             next == [at |-> "setTitle", copy |-> history, entry |-> entry]
  <1>1. /\ req[r].at = "idle" /\ ~InHistory(history, key)
        /\ changes < MaxChanges /\ changes' = changes + 1
        /\ req' = [req EXCEPT ![r] = next]
        /\ UNCHANGED <<override, history, found, before, saved, stops>>
    BY DEF ApplyBegin
  <1>2. changes \in Nat /\ changes' \in 1..MaxChanges /\ changes' \in 0..MaxChanges
    BY <1>1 DEF TypeOK
  <1>3. /\ entry \in Entries /\ entry.id = changes' /\ entry.key = key
        /\ entry.previous = override
    BY <1>1, <1>2 DEF TypeOK, Entries, Values
  <1> HIDE DEF entry
  <1>4. /\ next \in [at : Places, entry : Entries \cup {NoEntry}, copy : Seq(Entries)]
        /\ next.at = "setTitle" /\ next.entry = entry /\ next.copy = history
    BY <1>3 DEF TypeOK, Places
  <1> HIDE DEF next
  <1>5. req'[r] = next /\ \A q \in Requests : q = r
    BY <1>1 DEF OneAtATime, TypeOK
  <1>6. \A n \in DOMAIN history : history[n].id \in 1..MaxChanges
    BY HistoryIds
  <1>7. TypeOK'
    BY <1>1, <1>2, <1>3, <1>4, <1>5 DEF TypeOK
  <1>8. Ids'
    <2>1. \A n \in DOMAIN history : history[n].id < changes' /\ history[n].id <= changes'
      BY <1>1, <1>2, <1>6 DEF Ids
    <2> QED
      BY <1>1, <1>3, <1>4, <1>5, <2>1 DEF Ids, Applying, Undoing
  <1>9. CopyIsHistory' /\ HistoryIsTail' /\ OneChangePerKey'
    BY <1>1, <1>4, <1>5 DEF CopyIsHistory, HistoryIsTail, OneChangePerKey
  <1>10. EntriesTell'
    BY <1>1, <1>3, <1>4, <1>5 DEF EntriesTell
  <1> QED
    BY <1>7, <1>8, <1>9, <1>10

LEMMA SetTitleIInv ==
  ASSUME OneAtATime, IInv, NEW r \in Requests, SetTitle(r)
  PROVE  IInv'
  <1> USE DEF IInv
  <1> DEFINE entry == req[r].entry
  <1>1. /\ req[r].at = "setTitle" /\ override' = entry.new
        /\ found' = [found EXCEPT ![entry.key] =
                IF @.known THEN @ ELSE [known |-> TRUE, value |-> override]]
        /\ req' = [req EXCEPT ![r].at = "saveEntry"]
        /\ UNCHANGED <<history, before, saved, changes, stops>>
    BY DEF SetTitle
  <1>2. entry \in Entries /\ entry.key \in Keys
    BY <1>1 DEF TypeOK, Entries
  <1>3. /\ req'[r].at = "saveEntry" /\ req'[r].entry = entry /\ req'[r].copy = req[r].copy
        /\ \A q \in Requests : q = r
    BY <1>1 DEF OneAtATime, TypeOK
  <1>4. override' \in Values /\ override \in Values
    BY <1>1, <1>2 DEF TypeOK, Entries, Values
  <1>5. /\ found'[entry.key] =
             IF found[entry.key].known THEN found[entry.key]
             ELSE [known |-> TRUE, value |-> override]
        /\ \A k \in Keys \ {entry.key} : found'[k] = found[k]
        /\ found' \in [Keys -> [known : BOOLEAN, value : Values]]
    BY <1>1, <1>2, <1>4 DEF TypeOK
  <1>6. req' \in [Requests -> [at : Places, entry : Entries \cup {NoEntry}, copy : Seq(Entries)]]
    BY <1>1 DEF TypeOK, Places
  <1> HIDE DEF entry
  <1>7. TypeOK'
    BY <1>1, <1>2, <1>3, <1>4, <1>5, <1>6 DEF TypeOK
  <1>8. Ids' /\ CopyIsHistory'
    BY <1>1, <1>3 DEF Ids, CopyIsHistory, Applying, Undoing, entry
  <1>9. HistoryIsTail' /\ OneChangePerKey'
    BY <1>1 DEF HistoryIsTail, OneChangePerKey
  <1>10. EntriesTell'
    <2> SUFFICES ASSUME stops = 0
                 PROVE  EntriesTell'
      BY <1>1 DEF EntriesTell
    <2>1. /\ \A k \in Keys : ~found[k].known
          /\ entry.previous = override
      BY <1>1, <1>3 DEF EntriesTell, entry
    <2>2. /\ found'[entry.key] = [known |-> TRUE, value |-> entry.previous]
          /\ \A k \in Keys : found'[k].known => k = entry.key
      BY <1>2, <1>5, <2>1
    <2> QED
      BY <1>1, <1>3, <2>2 DEF EntriesTell
  <1> QED
    BY <1>7, <1>8, <1>9, <1>10

LEMMA SaveEntryIInv ==
  ASSUME OneAtATime, IInv, NEW r \in Requests, SaveEntry(r)
  PROVE  IInv'
  <1> USE DEF IInv
  <1> DEFINE entry == req[r].entry
             h == Append(history, entry)
             gone == Len(h) - Len(Kept(h))
  <1>1. req[r].at = "saveEntry" /\ req[r].copy = history
    BY DEF SaveEntry, CopyIsHistory, Applying
  <1>2. /\ history' = Kept(h) /\ saved' = Append(saved, entry)
        /\ before' = [before EXCEPT ![entry.id] = found[entry.key].value]
        /\ found' = [found EXCEPT ![entry.key] = NotYet]
        /\ req' = [req EXCEPT ![r].at = "answer"]
        /\ UNCHANGED <<override, changes, stops>>
    BY <1>1 DEF SaveEntry
  <1>3. /\ entry \in Entries /\ entry.key \in Keys /\ entry.id \in 1..MaxChanges
        /\ entry.id = changes /\ ~InHistory(history, entry.key)
        /\ \A n \in DOMAIN history : history[n].id < changes
    BY <1>1 DEF TypeOK, Entries, Ids, Applying
  <1>4. /\ req'[r].at = "answer" /\ req'[r].entry = entry
        /\ req' \in [Requests -> [at : Places, entry : Entries \cup {NoEntry}, copy : Seq(Entries)]]
        /\ \A q \in Requests : q = r
    BY <1>2 DEF OneAtATime, TypeOK, Places
  <1> HIDE DEF entry
  <1>5. /\ h \in Seq(Entries) /\ Len(h) = Len(history) + 1 /\ h[Len(history) + 1] = entry
        /\ \A n \in 1..Len(history) : h[n] = history[n]
        /\ Len(history) \in Nat /\ DOMAIN history = 1..Len(history)
    BY <1>3, AppendProperties, LenProperties DEF TypeOK
  <1>6. /\ saved' \in Seq(Entries) /\ Len(saved') = Len(saved) + 1
        /\ saved'[Len(saved) + 1] = entry /\ Len(saved) \in Nat
        /\ \A n \in 1..Len(saved) : saved'[n] = saved[n]
    BY <1>2, <1>3, AppendProperties, LenProperties DEF TypeOK
  <1> HIDE DEF h
  <1>7. /\ Kept(h) \in Seq(Entries)
        /\ Len(Kept(h)) <= HistorySize /\ Len(Kept(h)) <= Len(h)
        /\ Len(Kept(h)) = HistorySize \/ Len(Kept(h)) = Len(h)
        /\ \A n \in 1..Len(Kept(h)) : n + gone \in 1..Len(h) /\ Kept(h)[n] = h[n + gone]
    BY <1>5, KeptIsTail
  <1>8. Len(history') = Len(Kept(h)) /\ Len(history') \in Nat /\ DOMAIN history' = 1..Len(history')
    BY <1>2, <1>7, LenProperties
  <1>9. gone \in Nat /\ Len(h) = Len(history') + gone
    <2>1. Len(h) \in Nat
      BY <1>5
    <2>2. Len(Kept(h)) \in Nat
      BY <1>8
    <2>3. Len(Kept(h)) <= Len(h)
      BY <1>7
    <2>4. Len(h) = Len(Kept(h)) + (Len(h) - Len(Kept(h)))
      BY <2>1, <2>2
    <2>5. Len(h) - Len(Kept(h)) \in Nat
      BY <2>1, <2>2, <2>3
    <2> QED
      BY <1>8, <2>4, <2>5
  <1>10. \A n \in DOMAIN history' : n + gone \in 1..Len(h) /\ history'[n] = h[n + gone]
    BY <1>2, <1>7, <1>8
  <1> HIDE DEF gone
  <1>11. \A n \in 1..Len(h) : (n \in DOMAIN history /\ h[n] = history[n])
                               \/ (n = Len(history) + 1 /\ h[n] = entry)
    BY <1>5
  <1>12. TypeOK'
    <2>1. found[entry.key].value \in Values /\ NotYet \in [known : BOOLEAN, value : Values]
      BY <1>3 DEF TypeOK, NotYet, Values
    <2>2. /\ found' \in [Keys -> [known : BOOLEAN, value : Values]]
          /\ before' \in [1..MaxChanges -> Values]
      BY <1>2, <1>3, <2>1 DEF TypeOK
    <2> QED
      BY <1>2, <1>3, <1>4, <1>6, <1>7, <1>8, <2>2 DEF TypeOK
  <1>13. Ids' /\ CopyIsHistory'
    <2>1. \A n \in DOMAIN history : history[n].id <= changes /\ history[n].id # changes
      <3>1. \A n \in DOMAIN history : history[n].id \in 1..MaxChanges
        BY HistoryIds
      <3>2. changes \in Nat
        BY DEF TypeOK
      <3> QED
        BY <1>3, <3>1, <3>2
    <2>2. \A n \in 1..Len(h) : h[n].id <= changes
      BY <1>3, <1>11, <2>1 DEF TypeOK
    <2>3. \A m, n \in 1..Len(h) : h[m].id = h[n].id => m = n
      BY <1>3, <1>11, <2>1 DEF Ids
    <2>4. \A m, n \in DOMAIN history' : history'[m].id = history'[n].id => m = n
      <3>1. \A m, n \in DOMAIN history' : m \in Nat /\ n \in Nat
        BY <1>8
      <3> QED
        BY <1>9, <1>10, <2>3, <3>1
    <2>5. \A n \in DOMAIN history' : history'[n].id <= changes'
      BY <1>2, <1>10, <2>2
    <2> QED
      BY <1>4, <2>4, <2>5 DEF Ids, CopyIsHistory, Applying, Undoing
  <1>14. OneChangePerKey'
    <2>1. \A m, n \in 1..Len(h) : h[m].key = h[n].key => m = n
      BY <1>3, <1>11 DEF OneChangePerKey, InHistory
    <2>2. \A m, n \in DOMAIN history' : m \in Nat /\ n \in Nat
      BY <1>8
    <2> QED
      BY <1>9, <1>10, <2>1, <2>2 DEF OneChangePerKey
  <1>15. HistoryIsTail'
    <2>1. /\ Len(history) \in Nat /\ Len(saved) \in Nat /\ gone \in Nat
          /\ Len(history') \in Nat
      BY <1>5, <1>6, <1>8, <1>9
    <2>2. Len(h) = Len(history) + 1 /\ Len(saved') = Len(saved) + 1
      BY <1>5, <1>6
    <2>3. Len(h) = Len(history') + gone
      BY <1>9
    <2>4. Len(history) <= Len(saved) /\ (Len(history) = HistorySize \/ Len(history) = Len(saved))
      BY DEF HistoryIsTail
    <2>5. Len(history') <= HistorySize /\ (Len(history') = HistorySize \/ Len(history') = Len(h))
      BY <1>7, <1>8
    <2>6. Len(history') <= Len(saved')
      BY <2>1, <2>2, <2>3, <2>4
    <2>7. Len(history') = HistorySize \/ Len(history') = Len(saved')
      BY <2>1, <2>2, <2>3, <2>4, <2>5
    <2>8. \A n \in Nat : n + (Len(saved') - Len(history')) = (n + gone) + (Len(saved) - Len(history))
      BY <2>1, <2>2, <2>3
    <2>9. \A n \in 1..Len(history) : n + (Len(saved) - Len(history)) \in 1..Len(saved)
      BY <2>1, <2>4
    <2>10. Len(history) + 1 + (Len(saved) - Len(history)) = Len(saved) + 1
      BY <2>1
    <2>11. ASSUME NEW n \in DOMAIN history'
           PROVE  history'[n].id = saved'[n + (Len(saved') - Len(history'))].id
      <3>1. n \in Nat /\ n + gone \in 1..Len(h) /\ history'[n] = h[n + gone]
        BY <1>8, <1>10
      <3>2. n + (Len(saved') - Len(history')) = (n + gone) + (Len(saved) - Len(history))
        BY <2>8, <3>1
      <3>3. CASE n + gone = Len(history) + 1 /\ h[n + gone] = entry
        BY <1>6, <2>10, <3>1, <3>2, <3>3
      <3>4. CASE n + gone \in DOMAIN history /\ h[n + gone] = history[n + gone]
        <4> DEFINE i == n + gone
        <4>1. i \in 1..Len(history) /\ i \in DOMAIN history /\ h[i] = history[i]
          BY <1>5, <3>4
        <4> HIDE DEF i
        <4>2. history[i].id = saved[i + (Len(saved) - Len(history))].id
          BY <4>1 DEF HistoryIsTail
        <4>3. saved'[i + (Len(saved) - Len(history))] = saved[i + (Len(saved) - Len(history))]
          BY <1>6, <2>9, <4>1
        <4> QED
          BY <3>1, <3>2, <4>1, <4>2, <4>3 DEF i
      <3> QED
        BY <1>11, <3>1, <3>3, <3>4
    <2> QED
      BY <2>6, <2>7, <2>11 DEF HistoryIsTail
  <1>16. EntriesTell'
    <2> SUFFICES ASSUME stops = 0
                 PROVE  EntriesTell'
      BY <1>2 DEF EntriesTell
    <2>1. /\ found[entry.key] = [known |-> TRUE, value |-> entry.previous]
          /\ \A k \in Keys : found[k].known => k = entry.key
          /\ \A n \in DOMAIN history : history[n].previous = before[history[n].id]
      BY <1>1, <1>4 DEF EntriesTell, entry
    <2>2. before'[entry.id] = entry.previous
          /\ \A i \in 1..MaxChanges : i # entry.id => before'[i] = before[i]
      BY <1>2, <1>3, <2>1 DEF TypeOK
    <2>3. \A n \in DOMAIN history : history[n].id \in 1..MaxChanges /\ history[n].id # entry.id
      <3>1. \A n \in DOMAIN history : history[n].id \in 1..MaxChanges
        BY HistoryIds
      <3> QED
        BY <1>3, <3>1
    <2>4. \A n \in 1..Len(h) : h[n].previous = before'[h[n].id]
      BY <1>11, <2>1, <2>2, <2>3
    <2>5. \A k \in Keys : ~found'[k].known
      BY <1>2, <2>1 DEF TypeOK, NotYet
    <2> QED
      BY <1>4, <1>10, <2>4, <2>5 DEF EntriesTell
  <1> QED
    BY <1>12, <1>13, <1>14, <1>15, <1>16

LEMMA RestoreIInv ==
  ASSUME OneAtATime, IInv, NEW r \in Requests, Restore(r)
  PROVE  IInv'
  <1> USE DEF IInv
  <1>1. /\ req[r].at = "restore" /\ override' = req[r].entry.previous
        /\ req' = [req EXCEPT ![r].at = "saveUndone"]
        /\ UNCHANGED <<history, found, before, saved, changes, stops>>
    BY DEF Restore
  <1>2. /\ req'[r].at = "saveUndone" /\ req'[r].entry = req[r].entry
        /\ req'[r].copy = req[r].copy /\ \A q \in Requests : q = r
    BY <1>1 DEF OneAtATime, TypeOK
  <1>3. TypeOK'
    <2>1. override' \in Values
      BY <1>1 DEF TypeOK, Entries
    <2>2. req' \in [Requests -> [at : Places, entry : Entries \cup {NoEntry}, copy : Seq(Entries)]]
      BY <1>1 DEF TypeOK, Places
    <2> QED
      BY <1>1, <1>2, <2>1, <2>2 DEF TypeOK
  <1>4. Ids' /\ CopyIsHistory'
    BY <1>1, <1>2 DEF Ids, CopyIsHistory, Applying, Undoing
  <1>5. HistoryIsTail' /\ OneChangePerKey'
    BY <1>1 DEF HistoryIsTail, OneChangePerKey
  <1>6. EntriesTell'
    BY <1>1, <1>2 DEF EntriesTell
  <1> QED
    BY <1>3, <1>4, <1>5, <1>6

LEMMA SaveUndoneIInv ==
  ASSUME OneAtATime, IInv, NEW r \in Requests, SaveUndone(r)
  PROVE  IInv'
  <1> USE DEF IInv
  <1> DEFINE entry == req[r].entry
             marked == [entry EXCEPT !.undone = TRUE]
             h == [n \in DOMAIN history |-> IF history[n].id = entry.id THEN marked ELSE history[n]]
  <1>1. req[r].at = "saveUndone" /\ req[r].copy = history
    BY DEF SaveUndone, CopyIsHistory, Undoing
  <1>2. /\ history' = Kept(h) /\ req' = [req EXCEPT ![r] = Ended]
        /\ UNCHANGED <<override, found, before, saved, changes, stops>>
    BY <1>1 DEF SaveUndone
  <1>3. PICK m \in DOMAIN history : entry = history[m]
    BY <1>1 DEF Ids, Undoing
  <1>4. /\ entry \in Entries /\ marked \in Entries /\ marked.id = entry.id
        /\ marked.key = entry.key /\ marked.previous = entry.previous
    BY <1>1 DEF TypeOK, Entries
  <1> HIDE DEF entry, marked
  <1>5. /\ Len(history) \in Nat /\ DOMAIN history = 1..Len(history)
        /\ \A n \in DOMAIN history : history[n] \in Entries
    BY ElementOfSeq, LenProperties DEF TypeOK
  <1>6. \A n \in DOMAIN history : history[n].id = entry.id => n = m
    BY <1>3 DEF Ids
  <1>7. /\ h \in Seq(Entries) /\ DOMAIN h = DOMAIN history
        /\ \A n \in DOMAIN history : /\ h[n].id = history[n].id /\ h[n].key = history[n].key
                                     /\ h[n].previous = history[n].previous
    <2>1. \A n \in DOMAIN history : h[n] \in Entries
      BY <1>4, <1>5
    <2>2. h \in Seq(Entries)
      BY <1>5, <2>1, IsASeq
    <2> QED
      BY <1>3, <1>4, <1>6, <2>2
  <1> HIDE DEF h
  <1>8. Len(h) = Len(history)
    BY <1>5, <1>7, LenProperties
  <1>9. history' = h
    BY <1>2, <1>7, <1>8, ShortIsKept DEF TypeOK
  <1>10. /\ Ended \in [at : Places, entry : Entries \cup {NoEntry}, copy : Seq(Entries)]
         /\ Ended.at = "idle"
    BY DEF Ended, Places
  <1>11. req'[r].at = "idle" /\ \A q \in Requests : q = r
    BY <1>2, <1>10 DEF OneAtATime, TypeOK
  <1>12. TypeOK'
    BY <1>2, <1>7, <1>8, <1>9, <1>10, <1>11 DEF TypeOK
  <1>13. Ids' /\ CopyIsHistory'
    BY <1>2, <1>7, <1>9, <1>11 DEF Ids, CopyIsHistory, Applying, Undoing
  <1>14. HistoryIsTail' /\ OneChangePerKey'
    <2>1. Len(history') = Len(history) /\ DOMAIN history' = DOMAIN history /\ saved' = saved
      BY <1>2, <1>7, <1>8, <1>9
    <2>2. \A n \in DOMAIN history' : /\ history'[n].id = history[n].id
                                     /\ history'[n].key = history[n].key
      BY <1>7, <1>9
    <2>3. HistoryIsTail'
      BY <2>1, <2>2 DEF HistoryIsTail
    <2>4. OneChangePerKey'
      BY <2>1, <2>2 DEF OneChangePerKey
    <2> QED
      BY <2>3, <2>4
  <1>15. EntriesTell'
    <2>1. req[r].at # "saveEntry"
      BY <1>1
    <2> QED
      BY <1>2, <1>7, <1>9, <1>11, <2>1 DEF EntriesTell
  <1> QED
    BY <1>12, <1>13, <1>14, <1>15

LEMMA NextIInv ==
  ASSUME OneAtATime, IInv, [Next]_vars
  PROVE  IInv'
  <1>1. CASE UNCHANGED vars
    BY <1>1 DEF vars, IInv, TypeOK, Ids, CopyIsHistory, HistoryIsTail, OneChangePerKey,
                EntriesTell
  <1>2. CASE Next
    BY <1>2, ReadIInv, ApplyBeginIInv, SetTitleIInv, SaveEntryIInv, RestoreIInv,
       SaveUndoneIInv DEF Next
  <1> QED
    BY <1>1, <1>2

LEMMA SpecIInv ==
  ASSUME OneAtATime
  PROVE  Spec => []IInv
  <1>1. Init => IInv
    BY InitIInv
  <1>2. IInv /\ [Next]_vars => IInv'
    BY NextIInv
  <1> QED
    BY <1>1, <1>2, PTL DEF Spec
-----------------------------------------------------------------------------
\* Every variable keeps its type, and the history its length (save_history).
THEOREM SpecTypeOK ==
  ASSUME OneAtATime
  PROVE  Spec => []TypeOK
  <1>1. IInv => TypeOK
    BY DEF IInv
  <1> QED
    BY <1>1, SpecIInv, PTL

\* A saved change is found again until HISTORY_SIZE later ones are saved
\* (save_history), alone with its key, whatever is stopped, repeated and undone.
THEOREM SpecAnsweredIsKept ==
  ASSUME OneAtATime
  PROVE  Spec => []AnsweredIsKept
  <1>1. IInv => AnsweredIsKept
    <2> SUFFICES ASSUME IInv, NEW n \in DOMAIN saved, n + HistorySize > Len(saved)
                 PROVE  \E k \in DOMAIN history :
                            /\ history[k].id = saved[n].id
                            /\ \A m \in DOMAIN history :
                                  history[m].key = history[k].key => m = k
      BY DEF AnsweredIsKept
    <2>1. /\ Len(saved) \in Nat /\ Len(history) \in Nat /\ n \in 1..Len(saved)
          /\ DOMAIN history = 1..Len(history)
      BY LenProperties DEF IInv, TypeOK
    <2>2. /\ Len(history) <= Len(saved)
          /\ Len(history) = HistorySize \/ Len(history) = Len(saved)
      BY DEF IInv, HistoryIsTail
    <2> DEFINE k == n - (Len(saved) - Len(history))
    <2>3. Len(saved) \in Nat /\ Len(history) \in Nat /\ n \in 1..Len(saved)
      BY <2>1
    <2>4. k \in 1..Len(history)
      BY <2>2, <2>3
    <2>5. k + (Len(saved) - Len(history)) = n
      BY <2>3
    <2>6. k \in DOMAIN history /\ k + (Len(saved) - Len(history)) = n
      BY <2>1, <2>4, <2>5
    <2>7. history[k].id = saved[n].id
      BY <2>6 DEF IInv, HistoryIsTail
    <2>8. \A m \in DOMAIN history : history[m].key = history[k].key => m = k
      BY <2>6 DEF IInv, OneChangePerKey
    <2> QED
      BY <2>6, <2>7, <2>8
  <1> QED
    BY <1>1, SpecIInv, PTL

\* A key belongs to one remembered change (apply).
THEOREM SpecOneChangePerKey ==
  ASSUME OneAtATime
  PROVE  Spec => []OneChangePerKey
  <1>1. IInv => OneChangePerKey
    BY DEF IInv
  <1> QED
    BY <1>1, SpecIInv, PTL

\* An undo brings back what was there before the change (rollback), as long
\* as no request has been stopped.
THEOREM SpecUndoRestoresUnstopped ==
  ASSUME OneAtATime
  PROVE  Spec => UndoRestoresUnstopped
  <1>1. IInv /\ [Next]_vars =>
          [\A r \in Requests :
              Restore(r) /\ stops = 0 => override' = before[req[r].entry.id]]_vars
    BY DEF IInv, Ids, Undoing, EntriesTell, Restore
  <1> QED
    BY <1>1, SpecIInv, PTL DEF Spec, UndoRestoresUnstopped
-----------------------------------------------------------------------------
(***************************************************************************)
(* The changes that stand are a stack: each was made over the one before   *)
(* it, and the newest shows.  rollback compares titles alone, which finds  *)
(* the newest change as long as no two changes set the same title.         *)
(***************************************************************************)
TitlesDiffer == \A m, n \in DOMAIN saved : saved[m].new = saved[n].new => m = n

Stands(n) == n \in DOMAIN history /\ ~history[n].undone
IsNewest(n) == Stands(n) /\ \A m \in DOMAIN history : m > n => history[m].undone
MadeOver(n, m) ==
    /\ Stands(m) /\ Stands(n) /\ m < n
    /\ \A k \in DOMAIN history : m < k /\ k < n => history[k].undone

InOrder ==
    /\ \A m, n \in DOMAIN history : m < n => history[m].id < history[n].id
    /\ \A n \in DOMAIN history :
          history[n].new = saved[n + (Len(saved) - Len(history))].new
    /\ \A r \in Requests : req[r].at \in Applying => ~req[r].entry.undone

Stack ==
    stops = 0 /\ TitlesDiffer =>
        /\ \A m, n \in DOMAIN history : MadeOver(n, m) => history[n].previous = history[m].new
        /\ \A r \in Requests : req[r].at \in {"idle", "answer", "setTitle", "restore"} =>
              \A n \in DOMAIN history : IsNewest(n) => override = history[n].new
        /\ \A r \in Requests : req[r].at = "saveEntry" =>
              /\ override = req[r].entry.new
              /\ \A n \in DOMAIN history : IsNewest(n) => req[r].entry.previous = history[n].new
        /\ \A r \in Requests : req[r].at \in Undoing =>
              \E n \in DOMAIN history : IsNewest(n) /\ req[r].entry = history[n]
        /\ \A r \in Requests : req[r].at = "saveUndone" => override = req[r].entry.previous

StackInv == IInv /\ InOrder /\ Stack

\* A set of numbers with a bound has a greatest one.
LEMMA Greatest ==
  ASSUME NEW top \in Nat, NEW S, S \subseteq 0..top, S # {}
  PROVE  \E n \in S : \A m \in S : m <= n
  <1> DEFINE R == OpToRel(<, Nat)
  <1>1. IsWellFoundedOn(R, Nat)
    BY NatLessThanWellFounded
  <1>2. \A x, y \in Nat : <<y, x>> \in R <=> y < x
    BY DEF OpToRel
  <1> HIDE DEF R
  <1> DEFINE T == {k \in 0..top : top - k \in S}
  <1>3. \A n \in S : top - n \in T
    <2> SUFFICES ASSUME NEW n \in S PROVE top - n \in T
      OBVIOUS
    <2>1. n \in 0..top
      OBVIOUS
    <2>2. top - n \in 0..top /\ top - (top - n) = n
      BY <2>1
    <2> QED
      BY <2>2
  <1>4. T \subseteq Nat /\ T # {} /\ \A k \in T : top - k \in S /\ k \in 0..top
    <2>1. T \subseteq Nat /\ \A k \in T : top - k \in S /\ k \in 0..top
      OBVIOUS
    <2>2. T # {}
      <3> HIDE DEF T
      <3> QED
        BY <1>3
    <2> QED
      BY <2>1, <2>2
  <1> HIDE DEF T
  <1>5. PICK k \in T : \A j \in T : ~(<<j, k>> \in R)
    BY <1>1, <1>4, WFMin
  <1>6. ASSUME NEW m \in S PROVE m <= top - k
    <2>1. m \in 0..top /\ top - m \in Nat /\ k \in Nat /\ ~(top - m < k)
      BY <1>2, <1>3, <1>4, <1>5
    <2> QED
      BY <2>1
  <1> QED
    BY <1>4, <1>5, <1>6

LEMMA NewestStands ==
  ASSUME TypeOK, NEW n \in DOMAIN history, Stands(n)
  PROVE  \E m \in DOMAIN history : IsNewest(m)
  <1> DEFINE S == {m \in DOMAIN history : Stands(m)}
  <1>1. DOMAIN history = 1..Len(history) /\ Len(history) \in Nat
    BY LenProperties DEF TypeOK
  <1>2. S \subseteq 0..Len(history) /\ S # {}
    BY <1>1
  <1>3. PICK m \in S : \A k \in S : k <= m
    <2> HIDE DEF S
    <2> QED
      BY <1>1, <1>2, Greatest
  <1>4. \A k \in DOMAIN history : k > m => history[k].undone
    <2> SUFFICES ASSUME NEW k \in DOMAIN history, k > m, ~history[k].undone PROVE FALSE
      OBVIOUS
    <2>1. k \in S
      BY DEF Stands
    <2>2. k <= m /\ k \in Nat /\ m \in Nat
      BY <1>1, <1>3, <2>1
    <2> QED
      BY <2>2
  <1> QED
    BY <1>3, <1>4 DEF IsNewest

\* While the changes' titles differ, the title that shows tells which is newest.
LEMMA ShownIsNewest ==
  ASSUME StackInv, stops = 0, TitlesDiffer, NEW r \in Requests, req[r].at = "idle",
         NEW n \in DOMAIN history, Stands(n), override = history[n].new
  PROVE  IsNewest(n)
  <1>1. PICK m \in DOMAIN history : IsNewest(m)
    BY NewestStands DEF StackInv, IInv
  <1>2. history[m].new = history[n].new
    BY <1>1 DEF StackInv, Stack
  <1> DEFINE gone == Len(saved) - Len(history)
  <1>3. /\ DOMAIN history = 1..Len(history) /\ DOMAIN saved = 1..Len(saved)
        /\ Len(history) \in Nat /\ Len(saved) \in Nat /\ Len(history) <= Len(saved)
    BY LenProperties DEF StackInv, IInv, TypeOK, HistoryIsTail
  <1>4. m + gone \in DOMAIN saved /\ n + gone \in DOMAIN saved /\ m \in Nat /\ n \in Nat
    BY <1>3
  <1>5. m + gone = n + gone
    BY <1>2, <1>4 DEF StackInv, InOrder, TitlesDiffer
  <1>6. m = n
    BY <1>3, <1>4, <1>5
  <1> QED
    BY <1>1, <1>6

\* What is read, answered or stopped leaves the stack; only a change that
\* shows is taken for the one to undo.
LEMMA ReadStack ==
  ASSUME OneAtATime, StackInv, NEW r \in Requests,
         \/ \E n \in DOMAIN history : ApplyKnown(r, n) \/ RollbackBegin(r, n)
         \/ Answer(r) \/ StopRequest(r)
  PROVE  InOrder' /\ Stack'
  <1>1. /\ UNCHANGED <<override, history, saved>>
        /\ stops \in Nat /\ stops' \in Nat /\ (stops' = 0 => stops = 0 /\ ~StopRequest(r))
    BY DEF ApplyKnown, RollbackBegin, Answer, StopRequest, StackInv, IInv, TypeOK
  <1>2. /\ TitlesDiffer' <=> TitlesDiffer
        /\ \A n : (IsNewest(n)' <=> IsNewest(n)) /\ (Stands(n)' <=> Stands(n))
        /\ \A m, n : MadeOver(n, m)' <=> MadeOver(n, m)
    BY <1>1 DEF TitlesDiffer, IsNewest, Stands, MadeOver
  <1>8. InOrder'
    <2>1. req'[r].at \notin Applying
      BY DEF ApplyKnown, RollbackBegin, Answer, StopRequest, Ended, Applying, StackInv, IInv,
             TypeOK
    <2> QED
      BY <1>1, <2>1 DEF StackInv, InOrder, OneAtATime
  <1> SUFFICES ASSUME stops' = 0, TitlesDiffer PROVE Stack'
    BY <1>2, <1>8 DEF Stack
  <1>3. /\ \A m, n \in DOMAIN history : MadeOver(n, m) => history[n].previous = history[m].new
        /\ req[r].at \in {"idle", "answer"} =>
              \A n \in DOMAIN history : IsNewest(n) => override = history[n].new
    BY <1>1 DEF StackInv, Stack
  <1>4. \A q \in Requests : q = r
    BY DEF OneAtATime
  <1>5. CASE Answer(r)
    <2>1. req'[r].at = "idle" /\ req[r].at = "answer"
      BY <1>5 DEF Answer, Ended, StackInv, IInv, TypeOK
    <2> QED
      BY <1>1, <1>2, <1>3, <1>4, <2>1 DEF Stack, Undoing
  <1>6. ASSUME NEW n \in DOMAIN history, ApplyKnown(r, n) PROVE Stack'
    <2>1. req'[r].at = "answer" /\ req[r].at = "idle"
      BY <1>6 DEF ApplyKnown, StackInv, IInv, TypeOK
    <2> QED
      BY <1>1, <1>2, <1>3, <1>4, <2>1 DEF Stack, Undoing
  <1>7. ASSUME NEW n \in DOMAIN history, RollbackBegin(r, n) PROVE Stack'
    <2>1. /\ req'[r].at = "restore" /\ req'[r].entry = history[n] /\ req[r].at = "idle"
          /\ ~history[n].undone /\ override = history[n].new
      BY <1>7 DEF RollbackBegin, StackInv, IInv, TypeOK
    <2>2. IsNewest(n)
      BY <1>1, <2>1, ShownIsNewest DEF Stands
    <2> QED
      BY <1>1, <1>2, <1>3, <1>4, <2>1, <2>2 DEF Stack
  <1> QED
    BY <1>1, <1>5, <1>6, <1>7

\* A change begins, its title is written, an undone one is taken away: the
\* history stays.
LEMMA WriteStack ==
  ASSUME OneAtATime, StackInv, NEW r \in Requests,
         \/ \E key \in Keys, title \in Titles : ApplyBegin(r, key, title)
         \/ SetTitle(r) \/ Restore(r)
  PROVE  InOrder' /\ Stack'
  <1>1. UNCHANGED <<history, saved, stops>> /\ \A q \in Requests : q = r
    BY DEF ApplyBegin, SetTitle, Restore, OneAtATime
  <1>2. /\ TitlesDiffer' <=> TitlesDiffer
        /\ \A n : (IsNewest(n)' <=> IsNewest(n)) /\ (Stands(n)' <=> Stands(n))
        /\ \A m, n : MadeOver(n, m)' <=> MadeOver(n, m)
    BY <1>1 DEF TitlesDiffer, IsNewest, Stands, MadeOver
  <1>7. InOrder'
    <2>1. req'[r].at \in Applying => ~req'[r].entry.undone
      <3>1. req \in [Requests -> [at : Places, entry : Entries \cup {NoEntry}, copy : Seq(Entries)]]
        BY DEF StackInv, IInv, TypeOK
      <3>2. ASSUME NEW key \in Keys, NEW title \in Titles, ApplyBegin(r, key, title)
            PROVE  ~req'[r].entry.undone
        BY <3>1, <3>2 DEF ApplyBegin
      <3>3. CASE SetTitle(r)
        BY <3>1, <3>3 DEF SetTitle, Applying, StackInv, InOrder
      <3>4. CASE Restore(r)
        BY <3>1, <3>4 DEF Restore, Applying
      <3> QED
        BY <3>2, <3>3, <3>4
    <2> QED
      BY <1>1, <2>1 DEF StackInv, InOrder
  <1> SUFFICES ASSUME stops = 0, TitlesDiffer PROVE Stack'
    BY <1>1, <1>2, <1>7 DEF Stack
  <1>3. /\ \A m, n \in DOMAIN history : MadeOver(n, m) => history[n].previous = history[m].new
        /\ req[r].at \in {"idle", "setTitle", "restore"} =>
              \A n \in DOMAIN history : IsNewest(n) => override = history[n].new
        /\ req[r].at = "restore" =>
              \E n \in DOMAIN history : IsNewest(n) /\ req[r].entry = history[n]
    BY DEF StackInv, Stack, Undoing
  <1>4. ASSUME NEW key \in Keys, NEW title \in Titles, ApplyBegin(r, key, title)
        PROVE  Stack'
    <2>1. req[r].at = "idle" /\ req'[r].at = "setTitle" /\ override' = override
      BY <1>4 DEF ApplyBegin, StackInv, IInv, TypeOK
    <2> QED
      BY <1>1, <1>2, <1>3, <2>1 DEF Stack, Undoing
  <1>5. CASE SetTitle(r)
    <2>1. /\ req[r].at = "setTitle" /\ req'[r].at = "saveEntry" /\ req'[r].entry = req[r].entry
          /\ override' = req[r].entry.new
      BY <1>5 DEF SetTitle, StackInv, IInv, TypeOK
    <2>2. req[r].entry.previous = override
      BY <2>1 DEF StackInv, IInv, EntriesTell
    <2> QED
      BY <1>1, <1>2, <1>3, <2>1, <2>2 DEF Stack, Undoing
  <1>6. CASE Restore(r)
    <2>1. /\ req[r].at = "restore" /\ req'[r].at = "saveUndone"
          /\ req'[r].entry = req[r].entry /\ override' = req[r].entry.previous
      BY <1>6 DEF Restore, StackInv, IInv, TypeOK
    <2> QED
      BY <1>1, <1>2, <1>3, <2>1 DEF Stack
  <1> QED
    BY <1>4, <1>5, <1>6

\* A change that is saved is the newest, made over the one that was.
LEMMA SaveEntryStack ==
  ASSUME OneAtATime, StackInv, NEW r \in Requests, SaveEntry(r)
  PROVE  InOrder' /\ Stack'
  <1> USE DEF StackInv, IInv
  <1> DEFINE entry == req[r].entry
             h == Append(history, entry)
             gone == Len(h) - Len(Kept(h))
             last == Len(history')
  <1>1. /\ req[r].at = "saveEntry" /\ req[r].copy = history
        /\ history' = Kept(h) /\ saved' = Append(saved, entry)
        /\ req'[r].at = "answer" /\ UNCHANGED <<override, stops>>
        /\ \A q \in Requests : q = r
    BY DEF SaveEntry, CopyIsHistory, Applying, OneAtATime, TypeOK
  <1>2. /\ entry \in Entries /\ entry.undone = FALSE
        /\ \A n \in DOMAIN history : history[n].id < entry.id
    BY <1>1 DEF Ids, InOrder, Applying, TypeOK, Entries
  <1>3. /\ Len(history) \in Nat /\ DOMAIN history = 1..Len(history)
        /\ Len(saved) \in Nat /\ DOMAIN saved = 1..Len(saved)
        /\ Len(history) <= Len(saved)
    BY LenProperties DEF TypeOK, HistoryIsTail
  <1>4. /\ h \in Seq(Entries) /\ Len(h) = Len(history) + 1 /\ h[Len(history) + 1] = entry
        /\ \A n \in 1..Len(history) : h[n] = history[n]
        /\ Len(saved') = Len(saved) + 1 /\ saved'[Len(saved) + 1] = entry
        /\ DOMAIN saved' = 1..Len(saved) + 1
        /\ \A n \in 1..Len(saved) : saved'[n] = saved[n]
    BY <1>1, <1>2, AppendProperties, LenProperties DEF TypeOK
  <1> HIDE DEF h, entry
  <1>5. /\ last \in Nat /\ last <= Len(h) /\ DOMAIN history' = 1..last
        /\ last = HistorySize \/ last = Len(h)
        /\ \A n \in 1..last : n + (Len(h) - last) \in 1..Len(h)
                              /\ history'[n] = h[n + (Len(h) - last)]
    <2>1. /\ Kept(h) \in Seq(Entries)
          /\ Len(Kept(h)) <= Len(h)
          /\ Len(Kept(h)) = HistorySize \/ Len(Kept(h)) = Len(h)
          /\ \A n \in 1..Len(Kept(h)) : n + (Len(h) - Len(Kept(h))) \in 1..Len(h)
                              /\ Kept(h)[n] = h[n + (Len(h) - Len(Kept(h)))]
      BY <1>4, KeptIsTail
    <2>2. Kept(h) = history' /\ Len(Kept(h)) = last
      BY <1>1
    <2>3. last \in Nat /\ DOMAIN history' = 1..last
      BY <2>1, <2>2, LenProperties
    <2> HIDE DEF last
    <2> QED
      BY <2>1, <2>2, <2>3
  <1>6. gone = Len(history) + 1 - last /\ gone \in Nat /\ last \in Nat \ {0}
    <2>1. gone = Len(h) - last
      BY <1>1
    <2> HIDE DEF gone, last
    <2> QED
      BY <1>3, <1>4, <1>5, <2>1
  <1> HIDE DEF gone, last
  <1>7. /\ history'[last] = entry /\ last \in DOMAIN history'
        /\ \A n \in DOMAIN history' : n # last =>
              n \in Nat /\ n < last /\ n + gone \in DOMAIN history
              /\ history'[n] = history[n + gone]
    <2>1. last + (Len(h) - last) = Len(history) + 1 /\ last \in 1..last
      BY <1>3, <1>4, <1>6
    <2>2. ASSUME NEW n \in DOMAIN history', n # last
          PROVE  n \in Nat /\ n < last /\ n + gone \in DOMAIN history
                 /\ history'[n] = history[n + gone]
      <3>1. n \in 1..last /\ n + (Len(h) - last) = n + gone
        BY <1>3, <1>4, <1>5, <1>6
      <3>2. n < last /\ n \in Nat /\ n + gone \in 1..Len(history)
        BY <1>3, <1>6, <2>2, <3>1
      <3> QED
        BY <1>3, <1>4, <1>5, <3>1, <3>2
    <2> QED
      BY <1>4, <1>5, <2>1, <2>2
  <1>8. \A k \in DOMAIN history : k > gone =>
           k - gone \in DOMAIN history' /\ k - gone # last /\ (k - gone) + gone = k
    BY <1>3, <1>5, <1>6
  <1>9. InOrder'
    <2>1. ASSUME NEW m \in DOMAIN history', NEW n \in DOMAIN history', m < n
          PROVE  history'[m].id < history'[n].id
      <3>1. m # last /\ m \in Nat /\ n \in Nat
        BY <1>5, <1>6, <2>1
      <3>2. CASE n = last
        BY <1>2, <1>7, <3>1, <3>2
      <3>3. CASE n # last
        <4>1. m + gone < n + gone
          BY <1>6, <2>1, <3>1
        <4> QED
          BY <1>7, <3>1, <3>3, <4>1 DEF InOrder
      <3> QED
        BY <3>2, <3>3
    <2>2. ASSUME NEW n \in DOMAIN history'
          PROVE  history'[n].new = saved'[n + (Len(saved') - last)].new
      <3>1. CASE n = last
        <4>1. n + (Len(saved') - last) = Len(saved) + 1
          BY <1>3, <1>4, <1>6, <3>1
        <4> QED
          BY <1>4, <1>7, <3>1, <4>1
      <3>2. CASE n # last
        <4> DEFINE i == n + gone
        <4>1. i \in DOMAIN history /\ history'[n] = history[i] /\ n \in Nat
          BY <1>7, <3>2
        <4>2. n + (Len(saved') - last) = i + (Len(saved) - Len(history))
          BY <1>3, <1>4, <1>6, <4>1
        <4>3. i + (Len(saved) - Len(history)) \in 1..Len(saved)
          BY <1>3, <4>1
        <4> HIDE DEF i
        <4> QED
          BY <1>4, <4>1, <4>2, <4>3 DEF InOrder
      <3> QED
        BY <3>1, <3>2
    <2> QED
      BY <1>1, <2>1, <2>2 DEF InOrder, last, Applying
  <1> SUFFICES ASSUME stops = 0, TitlesDiffer' PROVE Stack'
    BY <1>1, <1>9 DEF Stack
  <1>10. TitlesDiffer
    BY <1>3, <1>4 DEF TitlesDiffer
  <1>11. /\ override = entry.new
         /\ \A n \in DOMAIN history : IsNewest(n) => entry.previous = history[n].new
         /\ \A m, n \in DOMAIN history : MadeOver(n, m) => history[n].previous = history[m].new
    BY <1>1, <1>10 DEF Stack, entry
  <1>12. \A n \in DOMAIN history' : IsNewest(n)' => n = last
    BY <1>2, <1>7 DEF IsNewest
  <1>13. ASSUME NEW m \in DOMAIN history', NEW n \in DOMAIN history', MadeOver(n, m)'
         PROVE  history'[n].previous = history'[m].new
    <2>1. /\ m < n /\ ~history'[m].undone /\ ~history'[n].undone
          /\ \A k \in DOMAIN history' : m < k /\ k < n => history'[k].undone
      BY <1>13 DEF MadeOver, Stands
    <2>2. m # last /\ m \in Nat /\ n \in Nat /\ m + gone \in DOMAIN history
          /\ history'[m] = history[m + gone]
      BY <1>5, <1>6, <1>7, <2>1
    <2>3. ASSUME NEW k \in DOMAIN history, k > m + gone, k < n + gone
          PROVE  history[k].undone
      <3>1. k > gone /\ k \in Nat
        BY <1>3, <1>6, <2>2, <2>3
      <3>2. k - gone \in DOMAIN history' /\ k - gone # last /\ (k - gone) + gone = k
        BY <1>8, <3>1
      <3>3. m < k - gone /\ k - gone < n
        BY <1>6, <2>2, <2>3, <3>1
      <3> QED
        BY <1>7, <2>1, <3>2, <3>3
    <2>4. CASE n = last
      <3>1. IsNewest(m + gone)
        <4>1. \A k \in DOMAIN history : k < n + gone
          BY <1>3, <1>6, <2>4
        <4> QED
          BY <2>1, <2>2, <2>3, <4>1 DEF IsNewest, Stands
      <3> QED
        BY <1>7, <1>11, <2>2, <2>4, <3>1
    <2>5. CASE n # last
      <3>1. n + gone \in DOMAIN history /\ history'[n] = history[n + gone]
        BY <1>7, <2>5
      <3>2. m + gone < n + gone
        BY <1>6, <2>1, <2>2
      <3>3. MadeOver(n + gone, m + gone)
        BY <2>1, <2>2, <2>3, <3>1, <3>2 DEF MadeOver, Stands
      <3> QED
        BY <1>11, <2>2, <3>1, <3>3
    <2> QED
      BY <2>4, <2>5
  <1> QED
    BY <1>1, <1>7, <1>11, <1>12, <1>13 DEF Stack, Undoing

\* The newest change is marked, and the one it was made over shows again.
LEMMA SaveUndoneStack ==
  ASSUME OneAtATime, StackInv, NEW r \in Requests, SaveUndone(r)
  PROVE  InOrder' /\ Stack'
  <1> USE DEF StackInv, IInv
  <1> DEFINE entry == req[r].entry
             marked == [entry EXCEPT !.undone = TRUE]
             h == [n \in DOMAIN history |-> IF history[n].id = entry.id THEN marked ELSE history[n]]
  <1>1. /\ req[r].at = "saveUndone" /\ req[r].copy = history
        /\ history' = Kept(h) /\ UNCHANGED <<override, saved, stops>>
        /\ req'[r].at = "idle" /\ \A q \in Requests : q = r
    BY DEF SaveUndone, CopyIsHistory, Undoing, OneAtATime, Ended, TypeOK
  <1>2. /\ entry \in Entries /\ marked \in Entries /\ marked.id = entry.id
        /\ marked.new = entry.new /\ marked.previous = entry.previous /\ marked.undone
    BY <1>1 DEF TypeOK, Entries
  <1>3. /\ Len(history) \in Nat /\ DOMAIN history = 1..Len(history)
        /\ \A n \in DOMAIN history : history[n] \in Entries
    BY ElementOfSeq, LenProperties DEF TypeOK
  <1>4. PICK m \in DOMAIN history : entry = history[m]
    BY <1>1 DEF Ids, Undoing
  <1> HIDE DEF entry, marked
  <1>5. \A n \in DOMAIN history : history[n].id = entry.id => n = m
    BY <1>4 DEF Ids
  <1>6. h \in Seq(Entries) /\ DOMAIN h = DOMAIN history /\ Len(h) = Len(history)
    <2>1. \A n \in DOMAIN history : h[n] \in Entries
      BY <1>2, <1>3
    <2>2. h \in Seq(Entries) /\ DOMAIN h = DOMAIN history
      BY <1>3, <2>1, IsASeq
    <2> HIDE DEF h
    <2> QED
      BY <1>3, <2>2, LenProperties
  <1>7. /\ h[m].undone
        /\ \A n \in DOMAIN history :
              /\ h[n].id = history[n].id /\ h[n].new = history[n].new
              /\ h[n].previous = history[n].previous
              /\ n # m => h[n].undone = history[n].undone
    BY <1>2, <1>4, <1>5
  <1> HIDE DEF h
  <1>8. history' = h
    BY <1>1, <1>3, <1>6, ShortIsKept DEF TypeOK
  <1>9. InOrder'
    BY <1>1, <1>6, <1>7, <1>8 DEF InOrder, Applying
  <1> SUFFICES ASSUME stops = 0, TitlesDiffer PROVE Stack'
    BY <1>1, <1>9 DEF Stack, TitlesDiffer
  <1>10. /\ override = entry.previous
         /\ \A i, n \in DOMAIN history : MadeOver(n, i) => history[n].previous = history[i].new
         /\ \E n \in DOMAIN history : IsNewest(n) /\ entry = history[n]
    BY <1>1 DEF Stack, Undoing, entry
  <1>11. IsNewest(m)
    BY <1>5, <1>10
  <1>12. \A n \in DOMAIN history : Stands(n)' => n < m
    <2> SUFFICES ASSUME NEW n \in DOMAIN history, Stands(n)' PROVE n < m
      OBVIOUS
    <2>1. n # m /\ ~history[n].undone
      BY <1>7, <1>8 DEF Stands
    <2>2. n \in Nat /\ m \in Nat /\ ~(n > m)
      BY <1>3, <1>11, <2>1 DEF IsNewest
    <2> QED
      BY <2>1, <2>2
  <1>13. ASSUME NEW n \in DOMAIN history, IsNewest(n)' PROVE override = history'[n].new
    <2>1. Stands(n) /\ Stands(m) /\ n < m
      BY <1>7, <1>8, <1>11, <1>12, <1>13 DEF IsNewest, Stands
    <2>2. \A k \in DOMAIN history : n < k /\ k < m => history[k].undone
      BY <1>3, <1>6, <1>7, <1>8, <1>13 DEF IsNewest
    <2> QED
      BY <1>4, <1>7, <1>8, <1>10, <2>1, <2>2 DEF MadeOver
  <1>14. ASSUME NEW i \in DOMAIN history, NEW n \in DOMAIN history, MadeOver(n, i)'
         PROVE  history'[n].previous = history'[i].new
    <2>1. /\ i < n /\ n < m /\ Stands(i) /\ Stands(n)
          /\ \A k \in DOMAIN history : i < k /\ k < n => history'[k].undone
      BY <1>6, <1>7, <1>8, <1>12, <1>14 DEF MadeOver, Stands
    <2>2. \A k \in DOMAIN history : i < k /\ k < n => history[k].undone
      BY <1>3, <1>7, <1>8, <2>1
    <2> QED
      BY <1>7, <1>8, <1>10, <2>1, <2>2 DEF MadeOver
  <1> QED
    BY <1>1, <1>6, <1>8, <1>13, <1>14 DEF Stack, Undoing

LEMMA InitStack == Init => StackInv
  <1> SUFFICES ASSUME Init PROVE InOrder /\ Stack
    BY InitIInv DEF StackInv
  <1>1. /\ DOMAIN history = {} /\ \A r \in Requests : req[r].at = "idle"
    BY DEF Init, Ended
  <1> QED
    BY <1>1 DEF InOrder, Stack, Applying, Undoing

LEMMA NextStack ==
  ASSUME OneAtATime, StackInv, [Next]_vars
  PROVE  StackInv'
  <1>1. IInv'
    BY NextIInv DEF StackInv
  <1>2. CASE UNCHANGED vars
    BY <1>1, <1>2 DEF vars, StackInv, InOrder, Stack, TitlesDiffer, IsNewest, MadeOver, Stands
  <1>3. CASE Next
    BY <1>1, <1>3, ReadStack, WriteStack, SaveEntryStack, SaveUndoneStack DEF Next, StackInv
  <1> QED
    BY <1>2, <1>3

\* No undo takes a newer change away (rollback), as long as no two changes set
\* the same title and no request has been stopped, whatever is changed, repeated
\* and undone in between.
THEOREM SpecNewerTitleKept ==
  ASSUME OneAtATime
  PROVE  Spec => NewerTitleKept
  <1>1. StackInv /\ [Next]_vars =>
          [\A r \in Requests :
              /\ Restore(r) /\ stops = 0
              /\ \A m, n \in DOMAIN saved : saved[m].new = saved[n].new => m = n
              => NewerStanding(r) = {}]_vars
    <2> SUFFICES ASSUME StackInv, NEW r \in Requests, Restore(r), stops = 0, TitlesDiffer,
                        NEW n \in NewerStanding(r)
                 PROVE  FALSE
      BY DEF TitlesDiffer
    <2>1. req[r].at = "restore" /\ req[r].copy = history
      BY DEF Restore, StackInv, IInv, CopyIsHistory, Undoing
    <2>2. PICK m \in DOMAIN history : IsNewest(m) /\ req[r].entry = history[m]
      BY <2>1 DEF StackInv, Stack, Undoing
    <2>3. n \in DOMAIN history /\ history[n].id > history[m].id /\ ~history[n].undone
      BY <2>1, <2>2 DEF NewerStanding
    <2>4. m \in Nat /\ n \in Nat /\ history[m].id \in Nat /\ history[n].id \in Nat
      BY <2>3, HistoryIds, LenProperties DEF StackInv, IInv, TypeOK
    <2>5. ~(m < n)
      BY <2>2, <2>3 DEF IsNewest
    <2>6. ~(n < m) /\ n # m
      BY <2>3, <2>4 DEF StackInv, InOrder
    <2> QED
      BY <2>4, <2>5, <2>6
  <1>2. Init => StackInv
    BY InitStack
  <1>3. StackInv /\ [Next]_vars => StackInv'
    BY NextStack
  <1> QED
    BY <1>1, <1>2, <1>3, PTL DEF Spec, NewerTitleKept
=============================================================================

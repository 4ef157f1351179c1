------------------------ MODULE SiteEvidence_proofs ------------------------
(***************************************************************************)
(* What the service's work on a site rests on: the warehouse keeps the     *)
(* days Google told of, a title answers for what it was made from, a       *)
(* recommendation for the days it names, a verdict and a lesson for what   *)
(* happened after the changes they are about, and a proposed sitemap for   *)
(* what the scan read: for any properties, traffic, servers, providers,    *)
(* windows, changes, pages, sitemaps, times and limits.                    *)
(*                                                                         *)
(* Each part has an inductive invariant of its own, whose argument stands  *)
(* at the head of its section. The warehouse's rests on a day's rows and   *)
(* its ledger entry being replaced together, the title's on the two logs   *)
(* being written with the counters they account for, the crawl's on every  *)
(* address it tried having answered before it counts as empty. A decision  *)
(* is made in one step, so that its section is about what the totals, the  *)
(* medians and the tables of the decision engine can be; and so is what is *)
(* learned, whose sections are about sums and rounded ratios.              *)
(***************************************************************************)
EXTENDS SiteWork, FiniteSetTheorems, SequenceTheorems, WellFoundedInduction, TLAPS

\* Induction without operators: a set of numbers that is not empty has a least one.
LEMMA NatOrder == \E R : IsWellFoundedOn(R, Nat) /\ \A x, y \in Nat : <<y, x>> \in R <=> y < x
<1> DEFINE R == OpToRel(<, Nat)
<1>1. IsWellFoundedOn(R, Nat)
  BY NatLessThanWellFounded
<1>2. \A x, y \in Nat : <<y, x>> \in R <=> y < x
  BY DEF OpToRel
<1> HIDE DEF R
<1> QED BY <1>1, <1>2

LEMMA Least ==
  ASSUME NEW T, T \subseteq Nat, T # {}
  PROVE  \E n \in T : \A m \in T : n <= m
<1>1. PICK R : IsWellFoundedOn(R, Nat) /\ \A x, y \in Nat : <<y, x>> \in R <=> y < x
  BY NatOrder
<1>2. PICK x \in T : \A y \in T : ~(<<y, x>> \in R)
  BY <1>1, WFMin
<1>3. ASSUME NEW y \in T PROVE x <= y
  <2>1. x \in Nat /\ y \in Nat /\ ~(<<y, x>> \in R)
    BY <1>2
  <2>2. ~(y < x)
    BY <1>1, <2>1
  <2> QED BY <2>1, <2>2
<1> QED BY <1>3

LEMMA Greatest ==
  ASSUME NEW top \in Nat, NEW S, S \subseteq 0..top, S # {}
  PROVE  \E n \in S : \A m \in S : n >= m
<1> DEFINE T == {n \in 0..top : top - n \in S}
<1>1. T # {}
  <2>1. PICK m \in S : TRUE
    OBVIOUS
  <2>2. m \in 0..top
    BY <2>1
  <2>3. top - m \in 0..top /\ top - (top - m) = m
    BY <2>2
  <2>4. top - m \in T
    BY <2>1, <2>3
  <2> HIDE DEF T
  <2> QED BY <2>4
<1>5. T \subseteq Nat
  OBVIOUS
<1>2. PICK n \in T : \A m \in T : n <= m
  <2> HIDE DEF T
  <2> QED BY <1>1, <1>5, Least
<1>3. ASSUME NEW m \in S PROVE top - n >= m
  <2>1. top - m \in 0..top /\ top - (top - m) = m
    OBVIOUS
  <2>2. top - m \in T
    BY <2>1
  <2>3. n <= top - m /\ n \in 0..top /\ m \in 0..top
    BY <1>2, <2>2
  <2> QED BY <2>3
<1> QED BY <1>3

(* The warehouse (Warehouse). The rows a round has got are those of its      *)
(* property on a day Google had finished, so a synced day is whole, and no   *)
(* failure marks as synced what is not; the measurement knows of a day it    *)
(* has found stored whose rows it reads, as long as they are not replaced.   *)
TrueOf(got, p, d, capped_) ==
    /\ got.from = p
    /\ got.query => Traffic[p][d] = "seen"
    /\ ~capped_ => (got.page <=> Traffic[p][d] # "none")

DayRound == [at : {"idle", "totals", "rows", "store", "failed"}, property : Properties \cup {None},
             days : SUBSET (1..LastDay), tries : 0..DAY_RETRIES, got : Days!DayRows,
             capped : BOOLEAN, refused : BOOLEAN]
Measurements == [at : {"waiting", "queries", "pages", "settled"}, property : Properties \cup {None},
                 stored : SUBSET Days!Compared, capped : SUBSET Days!Compared,
                 queries : SUBSET Days!Compared, pages : SUBSET Days!Compared, torn : BOOLEAN]

WarehouseTypes ==
    /\ today \in 1..LastDay + LAG_DAYS /\ final \in 0..today
    /\ property \in Properties \cup {None} /\ lease \in Servers
    /\ ledger \in [1..LastDay -> Days!SyncDayStatus] /\ rows \in [1..LastDay -> Days!DayRows]
    /\ round \in [Servers -> DayRound] /\ measured \in Measurements

RoundsSound ==
    \A s \in Servers :
        /\ round[s].at # "idle" => round[s].days # {}
        /\ round[s].at \in {"rows", "store"} => Days!Day(s) <= final
        /\ round[s].at = "store" => TrueOf(round[s].got, round[s].property, Days!Day(s), round[s].capped)

DaysSound ==
    \A d \in 1..LastDay :
        /\ rows[d].query => Traffic[rows[d].from][d] = "seen"
        /\ ledger[d].status = "synced" =>
              d <= final /\ TrueOf(rows[d], ledger[d].property, d, ledger[d].capped)

MeasuredSound ==
    ~measured.torn =>
        /\ measured.at \in {"queries", "pages"} => \A d \in measured.stored :
              TrueOf(rows[d], measured.property, d, d \in measured.capped)
        /\ measured.at \in {"pages", "settled"} => \A d \in measured.stored \cap measured.queries :
              Traffic[measured.property][d] = "seen"
        /\ measured.at = "settled" => \A d \in measured.stored \ measured.capped :
              d \in measured.pages <=> Traffic[measured.property][d] # "none"

WarehouseInv == WarehouseTypes /\ RoundsSound /\ DaysSound /\ MeasuredSound

LEMMA WarehouseBounds ==
  /\ LastDay \in Nat /\ 1 <= LastDay /\ LAG_DAYS \in Nat /\ DAY_RETRIES \in Nat
  /\ Days!Compared \subseteq 1..LastDay /\ Days!Days = 1..LastDay
<1>1. LastDay \in Nat /\ LastDay # 0
  BY LookupsAssumption
<1>2. LAG_DAYS \in Nat /\ DAY_RETRIES \in Nat
  BY WarehouseAssumption
<1> QED BY <1>1, <1>2, WarehouseAssumption DEF Days!Compared, Days!Days

LEMMA NewestDay ==
  ASSUME NEW S, S \subseteq 1..LastDay, S # {}
  PROVE  Days!Max(S) \in S
<1>1. S \subseteq 0..LastDay /\ LastDay \in Nat
  BY WarehouseBounds
<1>2. \E n \in S : \A m \in S : n >= m
  BY <1>1, Greatest
<1> QED BY <1>2 DEF Days!Max

LEMMA WarehouseStart == Days!Init => WarehouseInv
<1> SUFFICES ASSUME Days!Init PROVE WarehouseInv
  OBVIOUS
<1>1. /\ Days!NoEntry \in Days!SyncDayStatus /\ Days!NoEntry.status = "none"
      /\ Days!NoRows \in Days!DayRows /\ Days!NoRows.query = FALSE
  BY DEF Days!NoEntry, Days!NoRows, Days!SyncDayStatus, Days!DayRows
<1>2. Days!NoRound \in DayRound /\ Days!NoRound.at = "idle"
  BY <1>1, WarehouseBounds DEF Days!NoRound, DayRound
<1>3. Days!NotMeasured \in Measurements /\ Days!NotMeasured.at = "waiting"
  BY DEF Days!NotMeasured, Measurements
<1>4. WarehouseTypes
  <2>1. 1 \in 1..LastDay + LAG_DAYS /\ 0 \in 0..1
    BY WarehouseBounds
  <2> QED BY <1>1, <1>2, <1>3, <2>1, WarehouseBounds DEF Days!Init, WarehouseTypes
<1>5. RoundsSound /\ DaysSound /\ MeasuredSound
  BY <1>1, <1>2, <1>3, WarehouseBounds DEF Days!Init, RoundsSound, DaysSound, MeasuredSound
<1> QED BY <1>4, <1>5 DEF WarehouseInv

\* A round goes on, and no other does.
LEMMA RoundGoes ==
  ASSUME WarehouseInv, NEW s \in Servers, NEW r \in DayRound, round' = [round EXCEPT ![s] = r],
         final' = final, r.at # "idle" => r.days # {},
         r.at \in {"rows", "store"} => Days!Max(r.days) <= final,
         r.at = "store" => TrueOf(r.got, r.property, Days!Max(r.days), r.capped)
  PROVE  RoundsSound' /\ round' \in [Servers -> DayRound]
<1>1. round \in [Servers -> DayRound]
  BY DEF WarehouseInv, WarehouseTypes
<1>2. round' \in [Servers -> DayRound] /\ round'[s] = r /\ \A q \in Servers : q # s => round'[q] = round[q]
  BY <1>1
<1>3. ASSUME NEW q \in Servers
      PROVE  /\ round'[q].at # "idle" => round'[q].days # {}
             /\ round'[q].at \in {"rows", "store"} => Days!Max(round'[q].days) <= final
             /\ round'[q].at = "store" =>
                   TrueOf(round'[q].got, round'[q].property, Days!Max(round'[q].days), round'[q].capped)
  <2>1. CASE q = s
    BY <1>2, <2>1
  <2>2. CASE q # s
    BY <1>2, <2>2 DEF WarehouseInv, RoundsSound, Days!Day
  <2> QED BY <2>1, <2>2
<1> QED BY <1>2, <1>3 DEF RoundsSound, Days!Day, TrueOf

LEMMA OnlyRoundGoes ==
  ASSUME WarehouseInv, NEW s \in Servers, NEW r \in DayRound, round' = [round EXCEPT ![s] = r],
         UNCHANGED <<today, final, property, ledger, rows, lease, measured>>,
         r.at # "idle" => r.days # {},
         r.at \in {"rows", "store"} => Days!Max(r.days) <= final,
         r.at = "store" => TrueOf(r.got, r.property, Days!Max(r.days), r.capped)
  PROVE  WarehouseInv'
<1>1. RoundsSound' /\ round' \in [Servers -> DayRound]
  BY RoundGoes
<1>2. WarehouseTypes'
  BY <1>1 DEF WarehouseInv, WarehouseTypes
<1>3. DaysSound' /\ MeasuredSound'
  BY DEF WarehouseInv, DaysSound, MeasuredSound, TrueOf
<1> QED BY <1>1, <1>2, <1>3 DEF WarehouseInv

LEMMA RoundParts ==
  ASSUME WarehouseInv, NEW s \in Servers, round[s].at # "idle"
  PROVE  /\ round[s] \in DayRound /\ round[s].days \subseteq 1..LastDay /\ round[s].days # {}
         /\ round[s].property \in Properties \cup {None} /\ round[s].tries \in 0..DAY_RETRIES
         /\ Days!Day(s) = Days!Max(round[s].days) /\ Days!Day(s) \in round[s].days
         /\ Days!Day(s) \in 1..LastDay
<1>1. round[s] \in DayRound /\ round[s].days # {}
  BY DEF WarehouseInv, WarehouseTypes, RoundsSound
<1>2. round[s].days \subseteq 1..LastDay /\ round[s].property \in Properties \cup {None}
      /\ round[s].tries \in 0..DAY_RETRIES
  BY <1>1 DEF DayRound
<1>3. Days!Day(s) = Days!Max(round[s].days)
  BY DEF Days!Day
<1> QED BY <1>1, <1>2, <1>3, NewestDay

\* On with the next day.
LEMMA DayIsLeft ==
  ASSUME WarehouseInv, NEW s \in Servers, round[s].at # "idle"
  PROVE  \E r \in DayRound : /\ Days!Left(s) = [round EXCEPT ![s] = r]
                             /\ r.at \in {"idle", "totals"} /\ (r.at # "idle" => r.days # {})
<1> DEFINE o == round[s]
           next_ == [o EXCEPT !.at = "totals", !.days = o.days \ {Days!Day(s)}, !.tries = 0,
                              !.got = Days!NoRows, !.capped = FALSE]
           r == IF o.days \ {Days!Day(s)} = {} \/ o.refused THEN Days!NoRound ELSE next_
<1>1. o \in DayRound /\ o.days # {} /\ Days!Day(s) \in o.days
  BY RoundParts
<1>2. Days!Left(s) = [round EXCEPT ![s] = r]
  <2>1. round \in [Servers -> DayRound]
    BY DEF WarehouseInv, WarehouseTypes
  <2> QED BY <2>1 DEF Days!Left
<1>3. Days!NoRows \in Days!DayRows
  BY DEF Days!NoRows, Days!DayRows
<1>4. Days!NoRound \in DayRound /\ Days!NoRound.at = "idle"
  BY <1>3, WarehouseBounds DEF Days!NoRound, DayRound
<1>5. next_ \in DayRound /\ next_.at = "totals" /\ next_.days = o.days \ {Days!Day(s)}
  <2>1. 0 \in 0..DAY_RETRIES /\ o.days \ {Days!Day(s)} \in SUBSET (1..LastDay)
    BY <1>1, WarehouseBounds DEF DayRound
  <2> HIDE DEF o
  <2> QED BY <1>1, <1>3, <2>1 DEF DayRound
<1>6. r \in DayRound /\ r.at \in {"idle", "totals"} /\ (r.at # "idle" => r.days # {})
  <2> HIDE DEF o, next_
  <2> QED BY <1>1, <1>4, <1>5
<1> QED BY <1>2, <1>6

LEMMA RoundBegins ==
  ASSUME WarehouseInv, NEW s \in Servers, Days!Begin(s)
  PROVE  WarehouseInv'
<1> DEFINE r == [Days!NoRound EXCEPT !.at = "totals", !.property = property,
                                     !.days = Days!Planned(property)]
<1>1. /\ property # None /\ Days!Planned(property) # {} /\ round' = [round EXCEPT ![s] = r]
      /\ UNCHANGED <<today, final, property, ledger, rows, lease, measured>>
  BY DEF Days!Begin
<1>2. Days!Planned(property) \in SUBSET (1..LastDay)
  BY WarehouseBounds DEF Days!Planned, Days!sync_window
<1>3. r \in DayRound /\ r.at = "totals" /\ r.days = Days!Planned(property)
  <2>1. Days!NoRows \in Days!DayRows
    BY DEF Days!NoRows, Days!DayRows
  <2>2. property \in Properties \cup {None} /\ 0 \in 0..DAY_RETRIES
    BY WarehouseBounds DEF WarehouseInv, WarehouseTypes
  <2> HIDE DEF Days!Planned
  <2> QED BY <1>2, <2>1, <2>2 DEF Days!NoRound, DayRound
<1> HIDE DEF r
<1> QED BY <1>1, <1>3, OnlyRoundGoes

LEMMA TotalsAnswered ==
  ASSUME WarehouseInv, NEW s \in Servers, Days!Totals(s)
  PROVE  WarehouseInv'
<1>1. /\ round[s].at = "totals"
      /\ round' = IF Days!Day(s) > final THEN Days!Left(s) ELSE [round EXCEPT ![s].at = "rows"]
      /\ UNCHANGED <<today, final, property, ledger, rows, lease, measured>>
  BY DEF Days!Totals
<1>2. CASE Days!Day(s) > final
  <2>1. PICK r \in DayRound : /\ Days!Left(s) = [round EXCEPT ![s] = r]
                              /\ r.at \in {"idle", "totals"} /\ (r.at # "idle" => r.days # {})
    BY <1>1, DayIsLeft
  <2> QED BY <1>1, <1>2, <2>1, OnlyRoundGoes
<1>3. CASE ~(Days!Day(s) > final)
  <2> DEFINE r == [round[s] EXCEPT !.at = "rows"]
  <2>1. /\ round[s] \in DayRound /\ round[s].days # {} /\ Days!Day(s) = Days!Max(round[s].days)
        /\ Days!Day(s) \in 1..LastDay
    BY <1>1, RoundParts
  <2>2. r \in DayRound /\ r.at = "rows" /\ r.days = round[s].days
    BY <2>1 DEF DayRound
  <2>3. round' = [round EXCEPT ![s] = r]
    BY <1>1, <1>3
  <2>4. Days!Max(r.days) <= final
    <3>1. final \in Int /\ Days!Day(s) \in Int
      BY <2>1 DEF WarehouseInv, WarehouseTypes
    <3> QED BY <1>3, <2>1, <2>2, <3>1
  <2> HIDE DEF r
  <2> QED BY <1>1, <2>1, <2>2, <2>3, <2>4, OnlyRoundGoes
<1> QED BY <1>2, <1>3

LEMMA RowsAnswered ==
  ASSUME WarehouseInv, NEW s \in Servers, Days!Rows(s)
  PROVE  WarehouseInv'
<1>1. PICK reply \in Days!Final(round[s].property, Days!Day(s)) :
        round' = [round EXCEPT ![s].at = "store", ![s].got = reply.rows, ![s].capped = reply.capped]
  BY DEF Days!Rows
<1>2. /\ round[s].at = "rows" /\ Days!Day(s) <= final
      /\ UNCHANGED <<today, final, property, ledger, rows, lease, measured>>
  BY DEF Days!Rows, WarehouseInv, RoundsSound
<1>3. /\ round[s] \in DayRound /\ round[s].days # {} /\ Days!Day(s) = Days!Max(round[s].days)
      /\ round[s].property \in Properties \cup {None}
  BY <1>2, RoundParts
<1>4. /\ reply.rows \in Days!DayRows /\ reply.capped \in BOOLEAN
      /\ TrueOf(reply.rows, round[s].property, Days!Day(s), reply.capped)
  <2> DEFINE p == round[s].property
             d == Days!Day(s)
             page_ == d <= final /\ Traffic[p][d] # "none"
             query_ == d <= final /\ Traffic[p][d] = "seen"
             whole == [from |-> p, page |-> page_, query |-> query_]
  <2>1. reply \in {[rows |-> whole, capped |-> FALSE],
                   [rows |-> [whole EXCEPT !.query = FALSE], capped |-> FALSE],
                   [rows |-> [whole EXCEPT !.page = FALSE, !.query = FALSE], capped |-> TRUE]}
    BY <1>1 DEF Days!Final
  <2>2. whole \in Days!DayRows /\ [whole EXCEPT !.query = FALSE] \in Days!DayRows
        /\ [whole EXCEPT !.page = FALSE, !.query = FALSE] \in Days!DayRows
    BY <1>3 DEF Days!DayRows
  <2>3. page_ <=> Traffic[p][d] # "none"
    BY <1>2
  <2>4. CASE reply = [rows |-> whole, capped |-> FALSE]
    <3>1. /\ reply.rows = whole /\ reply.capped = FALSE /\ reply.rows.from = p
          /\ (reply.rows.page <=> page_) /\ (reply.rows.query <=> query_)
      BY <2>4
    <3> QED BY <2>2, <2>3, <3>1 DEF TrueOf
  <2>5. CASE reply = [rows |-> [whole EXCEPT !.query = FALSE], capped |-> FALSE]
    <3>1. /\ reply.rows = [whole EXCEPT !.query = FALSE] /\ reply.capped = FALSE
          /\ reply.rows.from = p /\ (reply.rows.page <=> page_) /\ reply.rows.query = FALSE
      BY <2>5
    <3> QED BY <2>2, <2>3, <3>1 DEF TrueOf
  <2>6. CASE reply = [rows |-> [whole EXCEPT !.page = FALSE, !.query = FALSE], capped |-> TRUE]
    <3>1. /\ reply.rows = [whole EXCEPT !.page = FALSE, !.query = FALSE] /\ reply.capped = TRUE
          /\ reply.rows.from = p /\ reply.rows.query = FALSE
      BY <2>6
    <3> QED BY <2>2, <3>1 DEF TrueOf
  <2> QED BY <2>1, <2>4, <2>5, <2>6
<1> DEFINE r == [round[s] EXCEPT !.at = "store", !.got = reply.rows, !.capped = reply.capped]
<1>5. r \in DayRound /\ r.at = "store" /\ r.days = round[s].days /\ r.got = reply.rows
      /\ r.capped = reply.capped /\ r.property = round[s].property
  BY <1>3, <1>4 DEF DayRound
<1>6. round' = [round EXCEPT ![s] = r]
  BY <1>1
<1> HIDE DEF r
<1> QED BY <1>2, <1>3, <1>4, <1>5, <1>6, OnlyRoundGoes

LEMMA ErrorAnswered ==
  ASSUME WarehouseInv, NEW s \in Servers, Days!Error(s)
  PROVE  WarehouseInv'
<1>1. PICK error \in Days!GoogleErrorKind :
        round' = [round EXCEPT ![s] =
           IF error.retryable /\ round[s].tries < DAY_RETRIES
           THEN [round[s] EXCEPT !.tries = round[s].tries + 1]
           ELSE [round[s] EXCEPT !.at = "failed", !.refused = Days!credential_refused(error)]]
  <2>1. round \in [Servers -> DayRound]
    BY DEF WarehouseInv, WarehouseTypes
  <2> QED BY <2>1 DEF Days!Error
<1>2. /\ round[s].at \in {"totals", "rows"}
      /\ UNCHANGED <<today, final, property, ledger, rows, lease, measured>>
  BY DEF Days!Error
<1>3. /\ round[s] \in DayRound /\ round[s].days # {} /\ Days!Day(s) = Days!Max(round[s].days)
      /\ round[s].tries \in 0..DAY_RETRIES /\ DAY_RETRIES \in Nat
  BY <1>2, RoundParts, WarehouseBounds
<1>4. CASE error.retryable /\ round[s].tries < DAY_RETRIES
  <2> DEFINE n == round[s].tries + 1
             r == [round[s] EXCEPT !.tries = n]
  <2>1. n \in 0..DAY_RETRIES
    BY <1>3, <1>4
  <2>2. round' = [round EXCEPT ![s] = r]
    BY <1>1, <1>4
  <2> HIDE DEF n
  <2>3. r \in DayRound /\ r.at = round[s].at /\ r.days = round[s].days
    BY <1>3, <2>1 DEF DayRound
  <2>4. r.at = "rows" => Days!Max(r.days) <= final
    BY <1>3, <2>3 DEF WarehouseInv, RoundsSound
  <2> HIDE DEF r
  <2> QED BY <1>2, <1>3, <2>2, <2>3, <2>4, OnlyRoundGoes
<1>5. CASE ~(error.retryable /\ round[s].tries < DAY_RETRIES)
  <2> DEFINE r == [round[s] EXCEPT !.at = "failed", !.refused = Days!credential_refused(error)]
  <2>1. Days!credential_refused(error) \in BOOLEAN
    BY DEF Days!credential_refused
  <2>2. r \in DayRound /\ r.at = "failed" /\ r.days = round[s].days
    BY <1>3, <2>1 DEF DayRound
  <2>3. round' = [round EXCEPT ![s] = r]
    BY <1>1, <1>5
  <2> HIDE DEF r
  <2> QED BY <1>3, <1>2, <2>2, <2>3, OnlyRoundGoes
<1> QED BY <1>4, <1>5

LEMMA StoringFails ==
  ASSUME WarehouseInv, NEW s \in Servers, Days!StoreFails(s)
  PROVE  WarehouseInv'
<1>1. /\ round[s].at = "store" /\ round' = Days!Left(s)
      /\ UNCHANGED <<today, final, property, ledger, rows, lease, measured>>
  BY DEF Days!StoreFails
<1>2. PICK r \in DayRound : /\ Days!Left(s) = [round EXCEPT ![s] = r]
                            /\ r.at \in {"idle", "totals"} /\ (r.at # "idle" => r.days # {})
  BY <1>1, DayIsLeft
<1> QED BY <1>1, <1>2, OnlyRoundGoes

\* The day's rows and its ledger entry are replaced together.
LEMMA DayIsReplaced ==
  ASSUME WarehouseInv, NEW s \in Servers, Days!ReplaceDay(s)
  PROVE  WarehouseInv'
<1> DEFINE d == Days!Day(s)
           entry == [property |-> round[s].property, status |-> "synced",
                     capped |-> round[s].capped, due |-> FALSE]
           torn_ == measured.torn \/ (measured.at \in {"queries", "pages"} /\ d \in measured.stored)
<1>1. /\ round[s].at = "store" /\ round' = Days!Left(s)
      /\ rows' = [rows EXCEPT ![d] = round[s].got] /\ ledger' = [ledger EXCEPT ![d] = entry]
      /\ measured' = [measured EXCEPT !.torn = torn_]
      /\ UNCHANGED <<today, final, property, lease>>
  BY DEF Days!ReplaceDay
<1>2. PICK r \in DayRound : /\ Days!Left(s) = [round EXCEPT ![s] = r]
                            /\ r.at \in {"idle", "totals"} /\ (r.at # "idle" => r.days # {})
  BY <1>1, DayIsLeft
<1>3. RoundsSound' /\ round' \in [Servers -> DayRound]
  BY <1>1, <1>2, RoundGoes
<1>4. /\ d \in 1..LastDay /\ d <= final
      /\ TrueOf(round[s].got, round[s].property, d, round[s].capped)
      /\ round[s] \in DayRound /\ round[s].got \in Days!DayRows
      /\ round[s].property \in Properties \cup {None} /\ round[s].capped \in BOOLEAN
  BY <1>1, RoundParts DEF WarehouseInv, RoundsSound, DayRound
<1> DEFINE got_ == round[s].got
           p == round[s].property
           c == round[s].capped
<1>5. entry \in Days!SyncDayStatus /\ entry.property = p /\ entry.capped = c
  BY <1>4 DEF Days!SyncDayStatus
<1> HIDE DEF entry, d, got_, p, c
<1>6. /\ rows' \in [1..LastDay -> Days!DayRows] /\ ledger' \in [1..LastDay -> Days!SyncDayStatus]
      /\ rows'[d] = got_ /\ ledger'[d] = entry
      /\ \A e \in 1..LastDay : e # d => rows'[e] = rows[e] /\ ledger'[e] = ledger[e]
  BY <1>1, <1>4, <1>5 DEF WarehouseInv, WarehouseTypes, got_
<1>7. /\ measured' \in Measurements /\ measured'.at = measured.at /\ measured'.stored = measured.stored
      /\ measured'.property = measured.property /\ measured'.capped = measured.capped
      /\ measured'.queries = measured.queries /\ measured'.pages = measured.pages
      /\ measured'.torn = torn_
  <2>1. torn_ \in BOOLEAN /\ measured \in Measurements
    BY DEF WarehouseInv, WarehouseTypes, Measurements
  <2> QED BY <1>1, <2>1 DEF Measurements
<1>8. WarehouseTypes'
  BY <1>1, <1>3, <1>6, <1>7 DEF WarehouseInv, WarehouseTypes
<1>9. DaysSound'
  <2>1. TrueOf(got_, p, d, c)
    BY <1>4 DEF got_, p, c
  <2>2. ASSUME NEW e \in 1..LastDay
        PROVE  /\ rows'[e].query => Traffic[rows'[e].from][e] = "seen"
               /\ ledger'[e].status = "synced" =>
                     e <= final /\ TrueOf(rows'[e], ledger'[e].property, e, ledger'[e].capped)
    <3>1. CASE e = d
      BY <1>4, <1>5, <1>6, <2>1, <3>1 DEF TrueOf
    <3>2. CASE e # d
      BY <1>6, <3>2 DEF WarehouseInv, DaysSound
    <3> QED BY <3>1, <3>2
  <2> QED BY <1>1, <2>2 DEF DaysSound, TrueOf
<1>10. MeasuredSound'
  <2>1. ASSUME ~torn_, measured.at \in {"queries", "pages"}, NEW e \in measured.stored
        PROVE  TrueOf(rows'[e], measured.property, e, e \in measured.capped)
    <3>1. e # d /\ e \in 1..LastDay
      BY <2>1, WarehouseBounds DEF WarehouseInv, WarehouseTypes, Measurements
    <3> QED BY <1>6, <2>1, <3>1 DEF WarehouseInv, MeasuredSound
  <2> QED BY <1>7, <2>1 DEF WarehouseInv, MeasuredSound, TrueOf
<1> QED BY <1>3, <1>8, <1>9, <1>10 DEF WarehouseInv

LEMMA FailureIsRecorded ==
  ASSUME WarehouseInv, NEW s \in Servers, Days!RecordFailure(s)
  PROVE  WarehouseInv'
<1> DEFINE d == Days!Day(s)
           p == round[s].property
<1>1. /\ round[s].at = "failed" /\ round' = Days!Left(s)
      /\ \/ ledger' = ledger
         \/ ledger' = [ledger EXCEPT ![d].property = p, ![d].status = "failed", ![d].due = FALSE]
      /\ UNCHANGED <<today, final, property, rows, lease, measured>>
  BY DEF Days!RecordFailure
<1>2. PICK r \in DayRound : /\ Days!Left(s) = [round EXCEPT ![s] = r]
                            /\ r.at \in {"idle", "totals"} /\ (r.at # "idle" => r.days # {})
  BY <1>1, DayIsLeft
<1>3. RoundsSound' /\ round' \in [Servers -> DayRound]
  BY <1>1, <1>2, RoundGoes
<1>4. d \in 1..LastDay /\ p \in Properties \cup {None}
  BY <1>1, RoundParts
<1> HIDE DEF d, p
<1>5. /\ ledger' \in [1..LastDay -> Days!SyncDayStatus]
      /\ \A e \in 1..LastDay : ledger'[e] = ledger[e] \/ ledger'[e].status = "failed"
  <2>1. ledger \in [1..LastDay -> Days!SyncDayStatus]
    BY DEF WarehouseInv, WarehouseTypes
  <2>2. CASE ledger' = [ledger EXCEPT ![d].property = p, ![d].status = "failed", ![d].due = FALSE]
    <3> DEFINE entry == [ledger[d] EXCEPT !.property = p, !.status = "failed", !.due = FALSE]
    <3>1. entry \in Days!SyncDayStatus /\ entry.status = "failed"
      <4>1. ledger[d] \in Days!SyncDayStatus
        BY <1>4, <2>1
      <4> QED BY <1>4, <4>1 DEF Days!SyncDayStatus
    <3>2. ledger' = [ledger EXCEPT ![d] = entry]
      BY <2>2
    <3> HIDE DEF entry
    <3> QED BY <1>4, <2>1, <3>1, <3>2
  <2> QED BY <1>1, <2>1, <2>2
<1>6. WarehouseTypes'
  BY <1>1, <1>3, <1>5 DEF WarehouseInv, WarehouseTypes
<1>7. DaysSound'
  <2>1. \A e \in 1..LastDay : ledger'[e].status = "synced" => ledger'[e] = ledger[e]
    BY <1>5
  <2> QED BY <1>1, <2>1 DEF WarehouseInv, DaysSound, TrueOf
<1>8. MeasuredSound'
  BY <1>1 DEF WarehouseInv, MeasuredSound, TrueOf
<1> QED BY <1>3, <1>6, <1>7, <1>8 DEF WarehouseInv

LEMMA TimePasses ==
  ASSUME WarehouseInv,
         \/ \E d \in Days!Days : Days!RetryAfter(d)
         \/ \E s \in Servers : Days!TakeLease(s)
         \/ Days!Switch \/ Days!Finish \/ Days!NextDay \/ UNCHANGED Days!vars
  PROVE  WarehouseInv'
<1>1. UNCHANGED <<rows, round, measured>>
  BY DEF Days!RetryAfter, Days!TakeLease, Days!Switch, Days!Finish, Days!NextDay, Days!vars
<1>2. /\ today' \in 1..LastDay + LAG_DAYS /\ final' \in 0..today' /\ final \in Nat /\ final' >= final
  <2>1. /\ today \in 1..LastDay + LAG_DAYS /\ final \in 0..today /\ LastDay + LAG_DAYS \in Nat
    BY WarehouseBounds DEF WarehouseInv, WarehouseTypes
  <2>2. \/ UNCHANGED <<today, final>>
        \/ today' = today /\ final < today - 1 /\ final' = final + 1
        \/ final' = final /\ today < LastDay + LAG_DAYS /\ today' = today + 1
    BY DEF Days!RetryAfter, Days!TakeLease, Days!Switch, Days!Finish, Days!NextDay, Days!vars
  <2> DEFINE end == LastDay + LAG_DAYS
  <2>3. end \in Nat /\ today \in 1..end
    BY <2>1
  <2>4. \/ UNCHANGED <<today, final>>
        \/ today' = today /\ final < today - 1 /\ final' = final + 1
        \/ final' = final /\ today < end /\ today' = today + 1
    BY <2>2
  <2> HIDE DEF end
  <2>5. today' \in 1..end /\ final' \in 0..today' /\ final \in Nat /\ final' >= final
    BY <2>1, <2>3, <2>4
  <2> QED BY <2>5 DEF end
<1>3. /\ ledger' \in [1..LastDay -> Days!SyncDayStatus]
      /\ \A e \in 1..LastDay : ledger'[e].status = "synced" =>
            ledger[e].status = "synced" /\ ledger'[e].property = ledger[e].property
            /\ ledger'[e].capped = ledger[e].capped
  <2>1. ledger \in [1..LastDay -> Days!SyncDayStatus]
    BY DEF WarehouseInv, WarehouseTypes
  <2>2. CASE \E d \in Days!Days : Days!RetryAfter(d)
    <3>1. PICK d \in 1..LastDay : ledger' = [ledger EXCEPT ![d].due = TRUE]
      BY <2>2, WarehouseBounds DEF Days!RetryAfter
    <3> QED BY <2>1, <3>1 DEF Days!SyncDayStatus
  <2>3. CASE ledger' = ledger
    BY <2>1, <2>3
  <2> QED BY <2>2, <2>3 DEF Days!TakeLease, Days!Switch, Days!Finish, Days!NextDay, Days!vars
<1>4. property' \in Properties \cup {None} /\ lease' \in Servers
  BY DEF Days!RetryAfter, Days!TakeLease, Days!Switch, Days!Finish, Days!NextDay, Days!vars,
     WarehouseInv, WarehouseTypes
<1>5. WarehouseTypes'
  BY <1>1, <1>2, <1>3, <1>4 DEF WarehouseInv, WarehouseTypes
<1>6. RoundsSound'
  <2>1. ASSUME NEW s \in Servers, round[s].at \in {"rows", "store"} PROVE Days!Day(s) <= final'
    <3>1. Days!Day(s) \in 1..LastDay /\ Days!Day(s) <= final
      BY <2>1, RoundParts DEF WarehouseInv, RoundsSound
    <3> DEFINE d == Days!Day(s)
    <3>2. d \in Int /\ d <= final
      BY <3>1
    <3> HIDE DEF d
    <3>3. d <= final'
      BY <1>2, <3>2
    <3> QED BY <3>3 DEF d
  <2> QED BY <1>1, <2>1 DEF WarehouseInv, RoundsSound, Days!Day, TrueOf
<1>7. DaysSound'
  <2>1. \A e \in 1..LastDay : e <= final => e <= final'
    BY <1>2
  <2> QED BY <1>1, <1>3, <2>1 DEF WarehouseInv, DaysSound, TrueOf
<1>8. MeasuredSound'
  BY <1>1 DEF WarehouseInv, MeasuredSound, TrueOf
<1> QED BY <1>5, <1>6, <1>7, <1>8 DEF WarehouseInv

\* A step of the measurement.
LEMMA MeasurementGoes ==
  ASSUME WarehouseInv, measured' \in Measurements, MeasuredSound',
         UNCHANGED <<today, final, property, ledger, rows, round, lease>>
  PROVE  WarehouseInv'
<1>1. WarehouseTypes'
  BY DEF WarehouseInv, WarehouseTypes
<1>2. RoundsSound' /\ DaysSound'
  BY DEF WarehouseInv, RoundsSound, DaysSound, Days!Day, TrueOf
<1> QED BY <1>1, <1>2 DEF WarehouseInv

LEMMA LedgerIsRead ==
  ASSUME WarehouseInv, Days!ReadLedger
  PROVE  WarehouseInv'
<1> DEFINE Own(p) == {d \in Days!Compared : ledger[d].property = p}
           Stored(p) == {d \in Own(p) : ledger[d].status = "synced"}
           Capped(p) == {d \in Own(p) : ledger[d].capped}
<1>1. PICK p \in Days!PropertyOf(ledger) :
        measured' = [Days!NotMeasured EXCEPT !.at = "queries", !.property = p,
                        !.stored = Stored(p), !.capped = Capped(p)]
  BY DEF Days!ReadLedger
<1>2. UNCHANGED <<today, final, property, ledger, rows, round, lease>>
  BY DEF Days!ReadLedger
<1>3. ledger \in [1..LastDay -> Days!SyncDayStatus] /\ Days!Compared \subseteq 1..LastDay
      /\ property \in Properties \cup {None}
  BY WarehouseBounds DEF WarehouseInv, WarehouseTypes
<1>4. p \in Properties \cup {None}
  <2>1. \A d \in Days!Compared : ledger[d].property \in Properties \cup {None}
    BY <1>3 DEF Days!SyncDayStatus
  <2> QED BY <1>3, <2>1 DEF Days!PropertyOf
<1>5. Stored(p) \in SUBSET Days!Compared /\ Capped(p) \in SUBSET Days!Compared
  OBVIOUS
<1>6. \A d \in Stored(p) : d \in Days!Compared /\ ledger[d].property = p /\ ledger[d].status = "synced"
                           /\ (d \in Capped(p) <=> ledger[d].capped)
  OBVIOUS
<1> HIDE DEF Stored, Capped
<1>7. /\ measured' \in Measurements /\ measured'.at = "queries" /\ measured'.property = p
      /\ measured'.stored = Stored(p) /\ measured'.capped = Capped(p)
  BY <1>1, <1>4, <1>5 DEF Days!NotMeasured, Measurements
<1>8. ASSUME NEW d \in Stored(p) PROVE TrueOf(rows[d], p, d, d \in Capped(p))
  <2>1. d \in 1..LastDay /\ ledger[d].status = "synced" /\ ledger[d].property = p
    BY <1>3, <1>6
  <2>2. TrueOf(rows[d], p, d, ledger[d].capped)
    BY <2>1 DEF WarehouseInv, DaysSound
  <2>3. ledger[d].capped <=> d \in Capped(p)
    BY <1>6
  <2> QED BY <2>2, <2>3 DEF TrueOf
<1>9. MeasuredSound'
  BY <1>2, <1>7, <1>8 DEF MeasuredSound, TrueOf
<1> QED BY <1>2, <1>7, <1>9, MeasurementGoes

LEMMA RowsAreRead ==
  ASSUME WarehouseInv, Days!ReadQueries \/ Days!ReadPages
  PROVE  WarehouseInv'
<1>1. measured \in Measurements /\ Days!Compared \subseteq 1..LastDay
  BY WarehouseBounds DEF WarehouseInv, WarehouseTypes
<1>2. CASE Days!ReadQueries
  <2> DEFINE queries_ == {d \in Days!Compared : rows[d].query}
  <2>1. /\ measured.at = "queries" /\ measured' = [measured EXCEPT !.at = "pages", !.queries = queries_]
        /\ UNCHANGED <<today, final, property, ledger, rows, round, lease>>
    BY <1>2 DEF Days!ReadQueries
  <2>2. queries_ \in SUBSET Days!Compared /\ \A d \in queries_ : rows[d].query
    OBVIOUS
  <2> HIDE DEF queries_
  <2>3. /\ measured' \in Measurements /\ measured'.at = "pages" /\ measured'.stored = measured.stored
        /\ measured'.property = measured.property /\ measured'.capped = measured.capped
        /\ measured'.queries = queries_ /\ measured'.torn = measured.torn
    BY <1>1, <2>1, <2>2 DEF Measurements
  <2>4. ASSUME ~measured.torn, NEW d \in measured.stored, d \in queries_
        PROVE  Traffic[measured.property][d] = "seen"
    BY <2>1, <2>2, <2>4 DEF WarehouseInv, MeasuredSound, TrueOf
  <2>5. MeasuredSound'
    BY <2>1, <2>3, <2>4 DEF WarehouseInv, MeasuredSound, TrueOf
  <2> QED BY <2>1, <2>3, <2>5, MeasurementGoes
<1>3. CASE Days!ReadPages
  <2> DEFINE pages_ == {d \in Days!Compared : rows[d].page}
  <2>1. /\ measured.at = "pages" /\ measured' = [measured EXCEPT !.at = "settled", !.pages = pages_]
        /\ UNCHANGED <<today, final, property, ledger, rows, round, lease>>
    BY <1>3 DEF Days!ReadPages
  <2>2. pages_ \in SUBSET Days!Compared /\ \A d \in Days!Compared : d \in pages_ <=> rows[d].page
    OBVIOUS
  <2> HIDE DEF pages_
  <2>3. /\ measured' \in Measurements /\ measured'.at = "settled" /\ measured'.stored = measured.stored
        /\ measured'.property = measured.property /\ measured'.capped = measured.capped
        /\ measured'.queries = measured.queries /\ measured'.pages = pages_
        /\ measured'.torn = measured.torn
    BY <1>1, <2>1, <2>2 DEF Measurements
  <2>4. ASSUME ~measured.torn, NEW d \in measured.stored \ measured.capped
        PROVE  d \in pages_ <=> Traffic[measured.property][d] # "none"
    <3>1. d \in Days!Compared
      BY <1>1 DEF Measurements
    <3> QED BY <2>1, <2>2, <2>4, <3>1 DEF WarehouseInv, MeasuredSound, TrueOf
  <2>5. MeasuredSound'
    BY <2>1, <2>3, <2>4 DEF WarehouseInv, MeasuredSound
  <2> QED BY <2>1, <2>3, <2>5, MeasurementGoes
<1> QED BY <1>2, <1>3

LEMMA WarehouseStep ==
  ASSUME WarehouseInv, Days!Next \/ UNCHANGED Days!vars
  PROVE  WarehouseInv'
BY RoundBegins, TotalsAnswered, RowsAnswered, ErrorAnswered, StoringFails, DayIsReplaced,
   FailureIsRecorded, TimePasses, LedgerIsRead, RowsAreRead DEF Days!Next

LEMMA WarehousePromise == WarehouseInv => Days!TypeOK /\ Days!SyncedIsWhole /\ Days!ObservedIsTrue
<1> SUFFICES ASSUME WarehouseInv PROVE Days!TypeOK /\ Days!SyncedIsWhole /\ Days!ObservedIsTrue
  OBVIOUS
<1>1. Days!TypeOK
  <2>1. \A s \in Servers : /\ round[s].at \in {"idle", "totals", "rows", "store", "failed"}
                           /\ round[s].days \subseteq Days!Days /\ round[s].tries \in 0..DAY_RETRIES
    BY WarehouseBounds DEF WarehouseInv, WarehouseTypes, DayRound
  <2>2. measured.at \in {"waiting", "queries", "pages", "settled"}
    BY DEF WarehouseInv, WarehouseTypes, Measurements
  <2> QED BY <2>1, <2>2, WarehouseBounds DEF WarehouseInv, WarehouseTypes, Days!TypeOK
<1>2. Days!SyncedIsWhole
  BY WarehouseBounds DEF WarehouseInv, DaysSound, TrueOf, Days!SyncedIsWhole
<1>3. Days!ObservedIsTrue
  <2> SUFFICES ASSUME measured.at = "settled", ~measured.torn, NEW d \in Days!Compared
               PROVE  /\ Days!Observation(d) = "observed" => Traffic[measured.property][d] = "seen"
                      /\ Days!Observation(d) = "expected_zero" => Traffic[measured.property][d] = "none"
    BY DEF Days!ObservedIsTrue
  <2>1. Days!Observation(d) = "observed" => d \in measured.stored \cap measured.queries
    BY DEF Days!Observation
  <2>2. Days!Observation(d) = "expected_zero" =>
           d \in measured.stored \ measured.capped /\ d \notin measured.pages
    BY DEF Days!Observation
  <2> QED BY <2>1, <2>2 DEF WarehouseInv, MeasuredSound
<1> QED BY <1>1, <1>2, <1>3
-----------------------------------------------------------------------------
(* The title (Reasoning). While the providers are asked, the log has one     *)
(* entry for each attempt: those before the switch in hand have been made,   *)
(* and of this provider's as many as were retried, so the count is bounded   *)
(* by the policy; the call is logged when it ends, with what was made.       *)
LogEntries == [provider : Nat, number : Nat, switch : Nat, status : {"success", "failed"}]
CallEntries == [provider : Nat, attempts : Nat, switches : Nat, status : {"success", "failed"}]
Proposals == [status : {"none", "blocked", "failed", "completed"}, title : Titles \cup {CurrentTitle},
              provider : 0..Len(Providers)]

AttemptsEach == MAX_RETRIES + 1
SwitchesSeen == {attempt_log[i].switch : i \in DOMAIN attempt_log}

TitleTypes ==
    /\ at \in {"search", "decide", "ask", "select", "stored"}
    /\ provider \in 0..Len(Providers) /\ last_provider \in 0..Len(Providers)
    /\ tries \in 0..MAX_RETRIES /\ switches \in 0..MAX_SWITCHES
    /\ failure \in Title!LLMFailureType
    /\ attempt_log \in Seq(LogEntries) /\ call_log \in Seq(CallEntries)
    /\ answer \in UNION {[1..n -> Title!Candidate] : n \in 0..MaxCandidates}
    /\ proposal \in Proposals

LogHolds ==
    /\ attempts = Len(attempt_log)
    /\ \A i \in DOMAIN attempt_log : attempt_log[i].number = i

\* Nobody has been asked.
Unasked == attempt_log = <<>> /\ call_log = <<>> /\ switches = 0 /\ tries = 0

Asking ==
    /\ Title!SERPDecision = "pass" /\ provider \in 1..Len(Providers) /\ call_log = <<>>
    /\ Len(attempt_log) <= switches * AttemptsEach + tries
    /\ SwitchesSeen = IF tries = 0 THEN 0..switches - 1 ELSE 0..switches

\* The call has ended and is logged.
CallEnded ==
    /\ Title!SERPDecision = "pass"
    /\ attempt_log # <<>> /\ Len(attempt_log) <= (MAX_SWITCHES + 1) * AttemptsEach
    /\ SwitchesSeen = 0..switches
    /\ Len(call_log) = 1 /\ call_log[1].attempts = Len(attempt_log)
    /\ call_log[1].switches = switches
    /\ call_log[1].status = attempt_log[Len(attempt_log)].status

Answering ==
    /\ attempt_log[Len(attempt_log)].status = "success"
    /\ attempt_log[Len(attempt_log)].provider = last_provider

Proposed ==
    \/ Unasked /\ Title!SERPDecision # "pass" /\ proposal.status = "blocked"
    \/ CallEnded /\ proposal.status = "failed"
    \/ /\ CallEnded /\ Answering
       /\ proposal.status = "completed" /\ proposal.provider = last_provider
       /\ Title!Valid(proposal.title)
       /\ \E i \in DOMAIN answer : answer[i].title = proposal.title

TitleInv ==
    /\ TitleTypes /\ LogHolds
    /\ at \in {"search", "decide"} => Unasked
    /\ at = "ask" => Asking
    /\ at = "select" => CallEnded /\ Answering
    /\ at = "stored" => Proposed

LEMMA TitleBounds ==
  /\ Len(Providers) \in Nat /\ Len(Providers) # 0 /\ MAX_RETRIES \in Nat /\ MAX_SWITCHES \in Nat
  /\ MaxCandidates \in Nat /\ MaxConfidence \in Nat /\ AttemptsEach \in Nat
BY ReasoningAssumption DEF AttemptsEach

LEMMA TitleStart == Title!Init => TitleInv
<1> SUFFICES ASSUME Title!Init PROVE TitleInv
  OBVIOUS
<1>1. /\ at = "search" /\ provider = 0 /\ tries = 0 /\ switches = 0 /\ attempts = 0
      /\ failure = "none" /\ attempt_log = <<>> /\ call_log = <<>> /\ last_provider = 0
      /\ answer = <<>> /\ proposal = [status |-> "none", title |-> CurrentTitle, provider |-> 0]
  BY DEF Title!Init, Title!NoProposal
<1>2. 0 \in 0..Len(Providers) /\ 0 \in 0..MAX_RETRIES /\ 0 \in 0..MAX_SWITCHES /\ 0 \in 0..MaxCandidates
  BY TitleBounds
<1>3. answer \in UNION {[1..n -> Title!Candidate] : n \in 0..MaxCandidates}
  <2>1. answer \in [1..0 -> Title!Candidate]
    BY <1>1
  <2> QED BY <1>2, <2>1
<1>4. TitleTypes
  BY <1>1, <1>2, <1>3 DEF TitleTypes, Proposals, Title!LLMFailureType
<1> QED BY <1>1, <1>4 DEF TitleInv, LogHolds, Unasked

\* What an attempt adds to the log.
LEMMA AttemptIsLogged ==
  ASSUME TitleInv, at = "ask", NEW status \in {"success", "failed"},
         attempt_log' = Title!Logged(status), attempts' = attempts + 1
  PROVE  /\ attempt_log' \in Seq(LogEntries) /\ LogHolds' /\ attempt_log' # <<>>
         /\ Len(attempt_log') = Len(attempt_log) + 1
         /\ attempt_log'[Len(attempt_log')].status = status
         /\ attempt_log'[Len(attempt_log')].provider = provider
         /\ SwitchesSeen' = 0..switches
<1> DEFINE n == Len(attempt_log)
           entry == [provider |-> provider, number |-> attempts + 1, switch |-> switches, status |-> status]
<1>1. /\ attempt_log \in Seq(LogEntries) /\ n \in Nat /\ attempts = n
      /\ \A i \in DOMAIN attempt_log : attempt_log[i].number = i
      /\ switches \in Nat /\ provider \in Nat
  BY TitleBounds DEF TitleInv, TitleTypes, LogHolds
<1>2. attempt_log' = Append(attempt_log, entry)
  BY DEF Title!Logged
<1>3. entry \in LogEntries /\ entry.number = n + 1 /\ entry.switch = switches
      /\ entry.status = status /\ entry.provider = provider
  BY <1>1 DEF LogEntries
<1> HIDE DEF entry, n
<1>4. /\ attempt_log' \in Seq(LogEntries) /\ Len(attempt_log') = n + 1 /\ DOMAIN attempt_log' = 1..n + 1
      /\ DOMAIN attempt_log = 1..n
      /\ attempt_log'[n + 1] = entry /\ \A i \in 1..n : attempt_log'[i] = attempt_log[i]
  BY <1>1, <1>2, <1>3 DEF n
<1>5. LogHolds'
  <2>1. ASSUME NEW i \in 1..n + 1 PROVE attempt_log'[i].number = i
    <3>1. i \in 1..n \/ i = n + 1
      BY <1>1
    <3> QED BY <1>1, <1>3, <1>4, <3>1
  <2> QED BY <1>1, <1>4, <2>1 DEF LogHolds
<1>6. SwitchesSeen' = SwitchesSeen \cup {switches}
  <2>1. 1..n + 1 = 1..n \cup {n + 1}
    BY <1>1
  <2> QED BY <1>3, <1>4, <2>1 DEF SwitchesSeen
<1>7. SwitchesSeen' = 0..switches
  <2>1. SwitchesSeen = IF tries = 0 THEN 0..switches - 1 ELSE 0..switches
    BY DEF TitleInv, Asking
  <2>2. 0..switches = 0..switches - 1 \cup {switches} /\ switches \in 0..switches
    BY <1>1
  <2> QED BY <1>6, <2>1, <2>2
<1> QED BY <1>1, <1>3, <1>4, <1>5, <1>7 DEF n

\* The policy bounds the attempts.
LEMMA AttemptsBounded ==
  ASSUME NEW s \in 0..MAX_SWITCHES, NEW t \in 0..MAX_RETRIES, NEW n \in Nat,
         n <= s * AttemptsEach + t + 1
  PROVE  /\ n <= (s + 1) * AttemptsEach + 0
         /\ n <= (MAX_SWITCHES + 1) * AttemptsEach
<1> DEFINE b == AttemptsEach
<1>1. b \in Nat /\ t + 1 <= b /\ s \in Nat /\ MAX_SWITCHES \in Nat /\ s <= MAX_SWITCHES
  BY TitleBounds DEF AttemptsEach
<1> HIDE DEF b
<1>2. (s + 1) * b = s * b + b /\ s * b \in Nat
  BY <1>1
<1>3. (MAX_SWITCHES + 1) * b = (s + 1) * b + (MAX_SWITCHES - s) * b /\ (MAX_SWITCHES - s) * b \in Nat
      /\ (s + 1) * b \in Nat
  <2>1. MAX_SWITCHES - s \in Nat
    BY <1>1
  <2> DEFINE m == MAX_SWITCHES - s
  <2>2. MAX_SWITCHES + 1 = (s + 1) + m /\ m \in Nat
    BY <1>1, <2>1
  <2> HIDE DEF m
  <2>3. ((s + 1) + m) * b = (s + 1) * b + m * b /\ m * b \in Nat
    BY <1>1, <2>2
  <2>4. (s + 1) * b \in Nat
    BY <1>1
  <2> QED BY <2>2, <2>3, <2>4 DEF m
<1>4. n <= s * b + t + 1
  BY DEF b
<1> DEFINE sb == s * b
           s1b == (s + 1) * b
           rest == (MAX_SWITCHES - s) * b
           whole == (MAX_SWITCHES + 1) * b
<1>5. /\ s1b = sb + b /\ sb \in Nat /\ whole = s1b + rest /\ rest \in Nat /\ s1b \in Nat
      /\ n <= sb + t + 1
  BY <1>2, <1>3, <1>4
<1> HIDE DEF sb, s1b, rest, whole
<1>6. n <= s1b /\ n <= whole /\ s1b + 0 = s1b
  BY <1>1, <1>5
<1> QED BY <1>6 DEF b, s1b, whole

\* The call ends with this attempt, and is logged.
LEMMA CallIsLogged ==
  ASSUME TitleInv, at = "ask", NEW status \in {"success", "failed"},
         attempt_log' = Title!Logged(status), attempts' = attempts + 1,
         call_log' = Title!Call(status), UNCHANGED <<found, switches>>
  PROVE  CallEnded' /\ call_log' \in Seq(CallEntries)
<1> DEFINE n == Len(attempt_log)
           entry == [provider |-> provider, attempts |-> attempts + 1, switches |-> switches, status |-> status]
<1>1. /\ Asking /\ attempts = n /\ n \in Nat /\ switches \in 0..MAX_SWITCHES /\ tries \in 0..MAX_RETRIES
      /\ provider \in Nat /\ switches \in Nat
  BY TitleBounds DEF TitleInv, TitleTypes, LogHolds
<1>2. /\ Len(attempt_log') = n + 1 /\ attempt_log'[Len(attempt_log')].status = status
      /\ SwitchesSeen' = 0..switches /\ attempt_log' # <<>>
  BY AttemptIsLogged
<1>3. call_log' = <<entry>>
  BY <1>1 DEF Title!Call, Asking
<1>4. entry \in CallEntries /\ entry.attempts = n + 1 /\ entry.switches = switches /\ entry.status = status
  BY <1>1 DEF CallEntries
<1>5. n + 1 <= (MAX_SWITCHES + 1) * AttemptsEach
  <2> DEFINE m == n + 1
             sa == switches * AttemptsEach
  <2>1. m \in Nat /\ m <= sa + tries + 1
    <3>1. sa \in Nat /\ n <= sa + tries /\ n \in Nat /\ tries \in Nat
      BY <1>1, TitleBounds DEF Asking
    <3> HIDE DEF sa, n
    <3> QED BY <3>1
  <2> HIDE DEF m
  <2>2. m <= (MAX_SWITCHES + 1) * AttemptsEach
    BY <1>1, <2>1, AttemptsBounded
  <2> QED BY <2>2 DEF m
<1>6. Title!SERPDecision' = "pass"
  BY <1>1 DEF Asking, Title!SERPDecision
<1> HIDE DEF entry, n
<1>7. Len(call_log') = 1 /\ call_log'[1] = entry /\ call_log' \in Seq(CallEntries)
  BY <1>3, <1>4
<1> QED BY <1>2, <1>4, <1>5, <1>6, <1>7 DEF CallEnded

LEMMA ResultsComeIn ==
  ASSUME TitleInv, Title!Search \/ Title!Decide
  PROVE  TitleInv'
<1>1. Unasked /\ TitleTypes /\ LogHolds
  BY DEF TitleInv, Title!Search, Title!Decide
<1>2. /\ UNCHANGED <<tries, switches, attempts, failure, attempt_log, call_log, last_provider, answer>>
  BY DEF Title!Search, Title!Decide, Title!context, Title!telemetry
<1>3. Unasked' /\ LogHolds'
  BY <1>1, <1>2 DEF Unasked, LogHolds
<1>4. CASE Title!Search
  <2>1. at' = "decide" /\ UNCHANGED <<provider, proposal>>
    BY <1>4 DEF Title!Search
  <2>2. TitleTypes'
    BY <1>1, <1>2, <2>1 DEF TitleTypes
  <2> QED BY <1>3, <2>1, <2>2 DEF TitleInv
<1>5. CASE Title!Decide /\ Title!SERPDecision = "pass"
  <2>1. at' = "ask" /\ provider' = 1 /\ UNCHANGED <<found, proposal>>
    BY <1>5 DEF Title!Decide
  <2>2. provider' \in 1..Len(Providers)
    BY <2>1, TitleBounds
  <2>3. TitleTypes'
    BY <1>1, <1>2, <2>1, <2>2 DEF TitleTypes
  <2>4. Title!SERPDecision' = "pass"
    BY <1>5, <2>1 DEF Title!SERPDecision
  <2>5. SwitchesSeen' = {} /\ Len(attempt_log') = 0 /\ switches' = 0 /\ tries' = 0 /\ call_log' = <<>>
    BY <1>3 DEF SwitchesSeen, Unasked
  <2>6. 0 * AttemptsEach + 0 = 0
    BY TitleBounds
  <2>7. Asking'
    BY <2>2, <2>4, <2>5, <2>6 DEF Asking, AttemptsEach
  <2> QED BY <1>3, <2>1, <2>3, <2>7 DEF TitleInv
<1>6. CASE Title!Decide /\ Title!SERPDecision # "pass"
  <2>1. /\ at' = "stored" /\ proposal' = [status |-> "blocked", title |-> CurrentTitle, provider |-> 0]
        /\ UNCHANGED <<found, provider>>
    BY <1>6 DEF Title!Decide, Title!Propose
  <2>2. proposal' \in Proposals /\ proposal'.status = "blocked"
    BY <2>1, TitleBounds DEF Proposals
  <2>3. TitleTypes'
    BY <1>1, <1>2, <2>1, <2>2 DEF TitleTypes
  <2>4. Title!SERPDecision' # "pass"
    BY <1>6, <2>1 DEF Title!SERPDecision
  <2> QED BY <1>3, <2>1, <2>2, <2>3, <2>4 DEF TitleInv, Proposed
<1> QED BY <1>4, <1>5, <1>6

LEMMA ModelAnswers ==
  ASSUME TitleInv, Title!Succeed
  PROVE  TitleInv'
<1>1. /\ at = "ask" /\ at' = "select" /\ attempt_log' = Title!Logged("success") /\ attempts' = attempts + 1
      /\ call_log' = Title!Call("success") /\ last_provider' = provider
      /\ answer' \in UNION {[1..n -> Title!Candidate] : n \in 0..MaxCandidates}
      /\ UNCHANGED <<found, provider, tries, switches, failure, proposal>>
  BY DEF Title!Succeed
<1> DEFINE status == "success"
<1>2. status \in {"success", "failed"} /\ attempt_log' = Title!Logged(status) /\ call_log' = Title!Call(status)
  BY <1>1
<1> HIDE DEF status
<1>3. CallEnded' /\ call_log' \in Seq(CallEntries)
  BY <1>1, <1>2, CallIsLogged
<1>4. /\ attempt_log' \in Seq(LogEntries) /\ LogHolds'
      /\ attempt_log'[Len(attempt_log')].status = status /\ attempt_log'[Len(attempt_log')].provider = provider
  BY <1>1, <1>2, AttemptIsLogged
<1>5. TitleTypes'
  BY <1>1, <1>3, <1>4 DEF TitleInv, TitleTypes
<1>6. Answering'
  BY <1>1, <1>4 DEF Answering, status
<1> QED BY <1>1, <1>3, <1>4, <1>5, <1>6 DEF TitleInv

\* A failure is one the program knows.
LEMMA FailureTypes == \A f \in Title!Failures : f.type \in Title!LLMFailureType
BY DEF Title!Failures, Title!LLMFailureType

LEMMA ProviderFails ==
  ASSUME TitleInv, Title!Retry \/ Title!SwitchProvider \/ Title!GiveUp
  PROVE  TitleInv'
<1> DEFINE status == "failed"
<1>1. PICK f \in Title!Failures :
        /\ Title!Attempt(f)
        /\ \/ /\ Title!MayRetry(f) /\ tries' = tries + 1
              /\ UNCHANGED <<at, provider, switches, call_log, proposal>>
           \/ /\ Title!MaySwitch(f) /\ provider' = provider + 1 /\ tries' = 0
              /\ switches' = Title!Switched /\ UNCHANGED <<at, call_log, proposal>>
           \/ /\ call_log' = Title!Call("failed") /\ Title!Propose("failed", CurrentTitle, last_provider)
              /\ UNCHANGED <<provider, tries, switches>>
  BY DEF Title!Retry, Title!SwitchProvider, Title!GiveUp
<1>2. /\ at = "ask" /\ attempts' = attempts + 1 /\ attempt_log' = Title!Logged(status)
      /\ failure' = f.type /\ UNCHANGED <<found, last_provider, answer>>
  BY <1>1 DEF Title!Attempt
<1>3. status \in {"success", "failed"}
  OBVIOUS
<1> HIDE DEF status
<1>4. /\ attempt_log' \in Seq(LogEntries) /\ LogHolds' /\ Len(attempt_log') = Len(attempt_log) + 1
      /\ SwitchesSeen' = 0..switches
  BY <1>2, <1>3, AttemptIsLogged
<1>5. /\ Asking /\ TitleTypes /\ failure' \in Title!LLMFailureType
      /\ tries \in 0..MAX_RETRIES /\ switches \in 0..MAX_SWITCHES /\ provider \in 1..Len(Providers)
      /\ Len(attempt_log) \in Nat
  BY <1>2, FailureTypes DEF TitleInv, TitleTypes, Asking
<1>6. Title!SERPDecision' = "pass"
  BY <1>2, <1>5 DEF Asking, Title!SERPDecision
<1> DEFINE n == Len(attempt_log) + 1
           sa == switches * AttemptsEach
<1>7. n \in Nat /\ n <= sa + tries + 1 /\ sa \in Nat /\ Len(attempt_log') = n
  <2>1. sa \in Nat /\ Len(attempt_log) <= sa + tries /\ tries \in Nat
    BY <1>5, TitleBounds DEF Asking
  <2> HIDE DEF sa
  <2> QED BY <1>4, <1>5, <2>1
<1>8. CASE Title!MayRetry(f) /\ tries' = tries + 1 /\ UNCHANGED <<at, provider, switches, call_log, proposal>>
  <2>1. tries' \in 0..MAX_RETRIES /\ tries' # 0
    BY <1>5, <1>8, TitleBounds DEF Title!MayRetry
  <2>2. TitleTypes'
    BY <1>2, <1>4, <1>5, <1>8, <2>1 DEF TitleTypes
  <2>3. Len(attempt_log') <= switches' * AttemptsEach + tries'
    <3> HIDE DEF n
    <3>1. n <= sa + tries'
      <4> HIDE DEF sa
      <4> QED BY <1>5, <1>7, <1>8
    <3> QED BY <1>7, <1>8, <3>1
  <2>4. Asking'
    BY <1>4, <1>5, <1>6, <1>8, <2>1, <2>3 DEF Asking, AttemptsEach
  <2> QED BY <1>2, <1>4, <1>8, <2>2, <2>4 DEF TitleInv
<1>9. CASE /\ Title!MaySwitch(f) /\ provider' = provider + 1 /\ tries' = 0
           /\ switches' = Title!Switched /\ UNCHANGED <<at, call_log, proposal>>
  <2>1. provider < Len(Providers) /\ switches < MAX_SWITCHES
    BY <1>9 DEF Title!MaySwitch
  <2>2. provider' \in 1..Len(Providers) /\ provider' # provider
    BY <1>5, <1>9, <2>1, TitleBounds
  <2>3. switches' = switches + 1
    <3>1. DOMAIN Providers = 1..Len(Providers)
      BY ReasoningAssumption
    <3>2. Providers[provider + 1] # Providers[provider]
      BY <1>5, <1>9, <2>2, <3>1, ReasoningAssumption
    <3> QED BY <1>9, <3>2 DEF Title!Switched
  <2>4. switches' \in 0..MAX_SWITCHES /\ switches' - 1 = switches /\ tries' \in 0..MAX_RETRIES
    BY <1>5, <1>9, <2>1, <2>3, TitleBounds
  <2>5. TitleTypes'
    BY <1>2, <1>4, <1>5, <1>9, <2>2, <2>4 DEF TitleTypes
  <2>6. Len(attempt_log') <= switches' * AttemptsEach + tries'
    <3> HIDE DEF n
    <3>1. n <= (switches + 1) * AttemptsEach + 0
      BY <1>5, <1>7, AttemptsBounded DEF sa
    <3> QED BY <1>7, <1>9, <2>3, <3>1
  <2>7. Asking'
    BY <1>4, <1>5, <1>6, <1>9, <2>2, <2>4, <2>6 DEF Asking, AttemptsEach
  <2> QED BY <1>2, <1>4, <1>9, <2>5, <2>7 DEF TitleInv
<1>10. CASE /\ call_log' = Title!Call("failed") /\ Title!Propose("failed", CurrentTitle, last_provider)
            /\ UNCHANGED <<provider, tries, switches>>
  <2>1. /\ at' = "stored" /\ proposal' = [status |-> "failed", title |-> CurrentTitle, provider |-> last_provider]
    BY <1>10 DEF Title!Propose
  <2>2. CallEnded' /\ call_log' \in Seq(CallEntries)
    BY <1>2, <1>3, <1>10, CallIsLogged DEF status
  <2>3. proposal' \in Proposals /\ proposal'.status = "failed"
    BY <1>5, <2>1 DEF Proposals, TitleTypes
  <2>4. TitleTypes'
    BY <1>2, <1>4, <1>5, <1>10, <2>1, <2>2, <2>3 DEF TitleTypes
  <2> QED BY <1>4, <2>1, <2>2, <2>3, <2>4 DEF TitleInv, Proposed
<1> QED BY <1>1, <1>8, <1>9, <1>10

\* The most confident candidate there is, and the first with its id.
LEMMA CandidateIsFound ==
  ASSUME TitleInv, Title!Accepted # {}
  PROVE  LET i == Title!ById(answer[Title!Selected].id) IN i \in Title!Accepted
<1>1. PICK n \in 0..MaxCandidates : answer \in [1..n -> Title!Candidate]
  BY DEF TitleInv, TitleTypes
<1>2. Title!Accepted \subseteq 1..n /\ n \in Nat /\ \A i \in 1..n : answer[i].confidence \in 0..MaxConfidence
  BY <1>1, TitleBounds DEF Title!Accepted, Title!Candidate
<1> DEFINE A == Title!Accepted
           S == {answer[i].confidence : i \in A}
<1>3. PICK c \in S : \A d \in S : c >= d
  <2>1. S \subseteq 0..MaxConfidence /\ S # {} /\ MaxConfidence \in Nat
    BY <1>2, TitleBounds
  <2> HIDE DEF S
  <2> QED BY <2>1, Greatest
<1> DEFINE T == {i \in A : answer[i].confidence = c}
<1>4. PICK i \in T : \A j \in T : i <= j
  <2>1. T \subseteq Nat
    <3>1. T \subseteq A
      OBVIOUS
    <3> HIDE DEF T
    <3> QED BY <1>2, <3>1
  <2>2. T # {}
    BY <1>3
  <2> HIDE DEF T
  <2> QED BY <2>1, <2>2, Least
<1>5. /\ i \in A
      /\ \A j \in A :
            \/ answer[j].confidence < answer[i].confidence
            \/ answer[j].confidence = answer[i].confidence /\ j >= i
  <2>1. ASSUME NEW j \in A
        PROVE  \/ answer[j].confidence < answer[i].confidence
               \/ answer[j].confidence = answer[i].confidence /\ j >= i
    <3>1. answer[i].confidence = c /\ answer[j].confidence \in S /\ i \in Nat /\ j \in Nat
      BY <1>2, <1>4
    <3>2. c >= answer[j].confidence /\ c \in Nat /\ answer[j].confidence \in Nat
      BY <1>2, <1>3, <3>1
    <3>3. CASE answer[j].confidence = c
      <4>1. j \in T
        BY <3>3
      <4> QED BY <1>4, <3>1, <3>3, <4>1
    <3>4. CASE answer[j].confidence # c
      BY <3>1, <3>2, <3>4
    <3> QED BY <3>3, <3>4
  <2> QED BY <1>4, <2>1
<1>6. Title!Selected \in A
  BY <1>5 DEF Title!Selected
<1> DEFINE id == answer[Title!Selected].id
           U == {k \in A : answer[k].id = id}
<1>7. \E k \in U : \A j \in U : k <= j
  <2>1. U \subseteq Nat
    <3>1. U \subseteq A
      OBVIOUS
    <3> HIDE DEF U
    <3> QED BY <1>2, <3>1
  <2>2. Title!Selected \in U
    BY <1>6
  <2> HIDE DEF U
  <2> QED BY <2>1, <2>2, Least
<1>8. Title!ById(id) \in U
  BY <1>7 DEF Title!ById, Title!Min
<1> QED BY <1>8

LEMMA TitleIsSelected ==
  ASSUME TitleInv, Title!Select
  PROVE  TitleInv'
<1>1. /\ at = "select" /\ at' = "stored"
      /\ UNCHANGED <<found, provider, tries, switches, attempts, failure, attempt_log, call_log, last_provider, answer>>
  BY DEF Title!Select, Title!Propose, Title!context, Title!telemetry
<1>2. CallEnded /\ Answering /\ TitleTypes /\ LogHolds
  BY <1>1 DEF TitleInv
<1>3. CallEnded' /\ Answering' /\ LogHolds'
  BY <1>1, <1>2 DEF CallEnded, Answering, LogHolds, SwitchesSeen, Title!SERPDecision, AttemptsEach
<1>4. CASE Title!Accepted = {}
  <2>1. proposal' = [status |-> "failed", title |-> CurrentTitle, provider |-> last_provider]
    BY <1>4 DEF Title!Select, Title!Propose
  <2>2. proposal' \in Proposals /\ proposal'.status = "failed"
    BY <1>2, <2>1 DEF Proposals, TitleTypes
  <2>3. TitleTypes'
    BY <1>1, <1>2, <2>2 DEF TitleTypes
  <2> QED BY <1>1, <1>3, <2>2, <2>3 DEF TitleInv, Proposed
<1>5. CASE Title!Accepted # {}
  <2> DEFINE i == Title!ById(answer[Title!Selected].id)
  <2>1. proposal' = [status |-> "completed", title |-> answer[i].title, provider |-> last_provider]
    BY <1>5 DEF Title!Select, Title!Propose
  <2>2. i \in Title!Accepted
    BY <1>5, CandidateIsFound
  <2> HIDE DEF i
  <2>3. i \in DOMAIN answer /\ Title!Valid(answer[i].title) /\ answer[i].title \in Titles
    <3>1. i \in DOMAIN answer /\ Title!Valid(answer[i].title)
      BY <2>2 DEF Title!Accepted
    <3>2. PICK n \in 0..MaxCandidates : answer \in [1..n -> Title!Candidate]
      BY <1>2 DEF TitleTypes
    <3>3. answer[i].title \in Titles
      BY <3>1, <3>2 DEF Title!Candidate
    <3> QED BY <3>1, <3>3
  <2>4. /\ proposal' \in Proposals /\ proposal'.status = "completed" /\ proposal'.title = answer[i].title
        /\ proposal'.provider = last_provider
    BY <1>2, <2>1, <2>3 DEF Proposals, TitleTypes
  <2>5. TitleTypes'
    BY <1>1, <1>2, <2>4 DEF TitleTypes
  <2>6. Proposed'
    BY <1>1, <1>3, <2>3, <2>4 DEF Proposed, Title!Valid
  <2> QED BY <1>1, <1>3, <2>5, <2>6 DEF TitleInv
<1> QED BY <1>4, <1>5

LEMMA TitleStep ==
  ASSUME TitleInv, Title!Next \/ UNCHANGED Title!vars
  PROVE  TitleInv'
<1>1. CASE Title!Next
  BY <1>1, ResultsComeIn, ModelAnswers, ProviderFails, TitleIsSelected DEF Title!Next
<1>2. CASE UNCHANGED Title!vars
  BY <1>2 DEF Title!vars, Title!context, Title!telemetry, TitleInv, TitleTypes, LogHolds, Unasked,
     Asking, CallEnded, Answering, Proposed, SwitchesSeen, Title!SERPDecision, Title!Valid, AttemptsEach
<1> QED BY <1>1, <1>2

LEMMA TitlePromise == TitleInv => Title!TypeOK /\ Title!ProposalIsAccounted
<1> SUFFICES ASSUME TitleInv PROVE Title!TypeOK /\ Title!ProposalIsAccounted
  OBVIOUS
<1>1. Title!TypeOK
  BY DEF TitleInv, TitleTypes, Proposals, Title!TypeOK
<1> DEFINE calls == {call_log[i] : i \in DOMAIN call_log}
           switched == {attempt_log[i].switch : i \in DOMAIN attempt_log}
           called == \A c \in calls :
                        /\ c.attempts = Len(attempt_log)
                        /\ c.switches = Title!Cardinality(switched) - 1
                        /\ c.status = Title!LastAttempt.status
           bound == Len(attempt_log) <= (MAX_SWITCHES + 1) * (MAX_RETRIES + 1)
           numbered == \A i \in DOMAIN attempt_log : attempt_log[i].number = i
           sound == proposal.status = "completed" =>
                       /\ Title!SERPDecision = "pass" /\ Title!Valid(proposal.title)
                       /\ \E i \in DOMAIN answer : answer[i].title = proposal.title
                       /\ Title!LastAttempt.status = "success"
                       /\ Title!LastAttempt.provider = proposal.provider
           counted == Len(call_log) = IF Title!SERPDecision = "pass" THEN 1 ELSE 0
<1>2. ASSUME CallEnded PROVE called /\ bound /\ counted
  <2>1. calls = {call_log[1]}
    <3>1. DOMAIN call_log = 1..Len(call_log) /\ Len(call_log) = 1
      BY <1>2 DEF TitleInv, TitleTypes, CallEnded
    <3>2. DOMAIN call_log = {1}
      BY <3>1
    <3> QED BY <3>2
  <2>2. switches \in Nat
    BY TitleBounds DEF TitleInv, TitleTypes
  <2>3. Cardinality(SwitchesSeen) = switches + 1
    <3>1. Cardinality(0..switches) = switches + 1
      BY <2>2, FS_Interval
    <3> QED BY <1>2, <3>1 DEF CallEnded
  <2>4. Title!Cardinality(switched) - 1 = switches
    <3>1. \A S : Title!Cardinality(S) = Cardinality(S)
      BY DEF Title!Cardinality, Cardinality
    <3> QED BY <2>2, <2>3, <3>1 DEF SwitchesSeen
  <2>5. bound /\ counted
    BY <1>2 DEF CallEnded, AttemptsEach
  <2> HIDE DEF calls, switched
  <2>6. called
    BY <1>2, <2>1, <2>4 DEF CallEnded, Title!LastAttempt
  <2> QED BY <2>5, <2>6
<1>3. numbered
  BY DEF TitleInv, LogHolds
<1>4. ASSUME at = "stored" PROVE sound /\ counted /\ called /\ bound
  <2>1. CASE Unasked /\ Title!SERPDecision # "pass" /\ proposal.status = "blocked"
    <3>1. Len(call_log) = 0 /\ Len(attempt_log) = 0 /\ calls = {}
      BY <2>1 DEF Unasked
    <3>2. 0 <= (MAX_SWITCHES + 1) * (MAX_RETRIES + 1)
      BY TitleBounds
    <3> QED BY <2>1, <3>1, <3>2
  <2>2. CASE CallEnded /\ proposal.status = "failed"
    <3> HIDE DEF called, bound, counted
    <3> QED BY <1>2, <2>2
  <2>3. CASE /\ CallEnded /\ Answering
             /\ proposal.status = "completed" /\ proposal.provider = last_provider
             /\ Title!Valid(proposal.title)
             /\ \E i \in DOMAIN answer : answer[i].title = proposal.title
    <3>1. Title!LastAttempt.status = "success" /\ Title!LastAttempt.provider = proposal.provider
      BY <2>3 DEF Answering, Title!LastAttempt
    <3>2. Title!SERPDecision = "pass"
      BY <2>3 DEF CallEnded
    <3>3. sound
      BY <2>3, <3>1, <3>2
    <3> HIDE DEF sound, called, bound, counted
    <3> QED BY <1>2, <2>3, <3>3
  <2> HIDE DEF sound, called, bound, counted
  <2> QED BY <1>4, <2>1, <2>2, <2>3 DEF TitleInv, Proposed
<1>5. at = "stored" => sound /\ counted /\ called /\ numbered /\ bound
  <2> HIDE DEF sound, called, bound, counted, numbered
  <2> QED BY <1>3, <1>4
<1>6. Title!ProposalIsAccounted
  BY <1>5, Zenon DEF Title!ProposalIsAccounted
<1> QED BY <1>1, <1>6
-----------------------------------------------------------------------------
\* Induction up to a number, over the set of those for which something holds.
LEMMA UpToEach ==
  ASSUME NEW n \in Nat, NEW T, 0 \in T,
         \A k \in 0..n : k < n /\ k \in T => k + 1 \in T
  PROVE  0..n \subseteq T
<1> DEFINE U == (0..n) \ T
<1>1. SUFFICES ASSUME U # {} PROVE FALSE
  OBVIOUS
<1>2. U \subseteq Nat
  OBVIOUS
<1>3. PICK m \in U : \A k \in U : m <= k
  <2> HIDE DEF U
  <2> QED BY <1>1, <1>2, Least
<1>4. m \in 0..n /\ m # 0
  BY <1>3
<1>5. m - 1 \in 0..n /\ m - 1 < n /\ (m - 1) + 1 = m /\ ~(m <= m - 1)
  BY <1>4
<1>6. m - 1 \in T
  BY <1>3, <1>5
<1>7. m \in T
  BY <1>5, <1>6
<1> QED BY <1>3, <1>7

(* The recommendations (Detection). What was decided is what the rules make  *)
(* of the four answers, which were final and agreed day by day; what the     *)
(* rules make of them is found case by case.                                 *)
FoundDays == {window \in [1..Length -> Found!Day] :
                 \A d \in 1..Length : window[d].impressions = 0 => window[d].clicks = 0}
DaysAgree == Found!DailyTotalsHold(Found!Baseline) /\ Found!DailyTotalsHold(Found!Current)

DetectionInv ==
    /\ google \in [{"baseline", "current"} -> Windows] /\ revisions \in 0..MaxRevisions
    /\ responses \in Seq(FoundDays) /\ Len(responses) <= 4
    /\ at \in {"asked", "fetch", "check", "decide", "decided", "refused"}
    /\ at = "asked" => Len(responses) = 0
    /\ at = "fetch" => Len(responses) <= 3
    /\ at \in {"check", "decide", "decided"} => Len(responses) = 4
    /\ at \in {"decide", "decided"} => DaysAgree
    /\ IF at = "decided"
       THEN \E lesson \in Adjustments :
               decision = Found!Decided(Found!Baseline, Found!Current, lesson)
       ELSE decision = Found!NoDecision

LEMMA DetectionStart == Found!Init => DetectionInv
<1> SUFFICES ASSUME Found!Init PROVE DetectionInv
  OBVIOUS
<1>1. 0 \in 0..MaxRevisions
  BY DetectionAssumption
<1>2. responses \in Seq(FoundDays) /\ Len(responses) = 0
  BY DEF Found!Init
<1> QED BY <1>1, <1>2 DEF Found!Init, DetectionInv

LEMMA AnswersTyped ==
  ASSUME NEW window \in Windows
  PROVE  window.days \in FoundDays
BY DetectionAssumption DEF FoundDays, Found!Day

LEMMA DetectionStep ==
  ASSUME DetectionInv, Found!Next \/ UNCHANGED Found!vars
  PROVE  DetectionInv'
<1>1. ASSUME UNCHANGED <<responses, decision>>
      PROVE  /\ Found!Baseline' = Found!Baseline /\ Found!Current' = Found!Current
             /\ DaysAgree' = DaysAgree
  <2>1. Found!Baseline' = Found!Baseline /\ Found!Current' = Found!Current
    BY <1>1 DEF Found!Baseline, Found!Current, Found!Read
  <2> QED BY <2>1 DEF DaysAgree, Found!DailyTotalsHold
<1>2. CASE UNCHANGED Found!vars
  BY <1>1, <1>2 DEF Found!vars, DetectionInv
<1>3. CASE Found!Ask
  BY <1>3 DEF Found!Ask, DetectionInv
<1>4. CASE Found!FetchFails
  BY <1>4 DEF Found!FetchFails, DetectionInv
<1>5. CASE Found!Revise
  <2>1. /\ at \in {"asked", "fetch"} /\ revisions < MaxRevisions /\ revisions' = revisions + 1
        /\ UNCHANGED <<responses, at, decision>>
        /\ \E w \in DOMAIN google, window \in Windows : google' = [google EXCEPT ![w] = window]
    BY <1>5 DEF Found!Revise
  <2>2. revisions' \in 0..MaxRevisions
    BY <2>1, DetectionAssumption DEF DetectionInv
  <2>3. google' \in [{"baseline", "current"} -> Windows]
    BY <2>1 DEF DetectionInv
  <2> QED BY <1>1, <2>1, <2>2, <2>3 DEF DetectionInv
<1>6. CASE Found!Fetch
  <2> DEFINE n == Len(responses) + 1
             window == google[Found!Asked[n]]
  <2>1. /\ at = "fetch" /\ Len(responses) <= 3 /\ Len(responses) \in Nat
        /\ responses \in Seq(FoundDays) /\ decision = Found!NoDecision
        /\ UNCHANGED <<google, decision, revisions>>
    BY <1>6 DEF Found!Fetch, DetectionInv
  <2>2. n \in 1..4
    BY <2>1
  <2>3. window \in Windows
    <3>1. Found!Asked[n] \in {"baseline", "current"}
      <4> HIDE DEF n
      <4> QED BY <2>2 DEF Found!Asked
    <3> QED BY <3>1 DEF DetectionInv
  <2>4. window.days \in FoundDays
    BY <2>3, AnswersTyped
  <2>5. CASE /\ responses' = Append(responses, window.days)
             /\ at' = IF Len(responses) = 3 THEN "check" ELSE at
    <3>1. responses' \in Seq(FoundDays) /\ Len(responses') = Len(responses) + 1
      <4> DEFINE days == window.days
      <4> HIDE DEF days
      <4> QED BY <2>1, <2>4, <2>5 DEF days
    <3>2. /\ Len(responses') <= 4 /\ at' \in {"check", "fetch"}
          /\ at' = "check" => Len(responses') = 4
          /\ at' = "fetch" => Len(responses') <= 3
      <4>1. at' = IF Len(responses) = 3 THEN "check" ELSE "fetch"
        BY <2>1, <2>5
      <4>2. CASE Len(responses) = 3
        BY <3>1, <4>1, <4>2
      <4>3. CASE Len(responses) # 3
        <5>1. at' = "fetch"
          BY <4>1, <4>3
        <5>2. Len(responses) \in Nat /\ Len(responses) <= 3
          BY <2>1
        <5>3. \A l \in Nat : l <= 3 /\ l # 3 => l + 1 <= 3
          OBVIOUS
        <5>4. Len(responses') <= 3
          BY <3>1, <4>3, <5>2, <5>3
        <5> QED BY <5>1, <5>4
      <4> QED BY <4>2, <4>3
    <3> QED BY <2>1, <3>1, <3>2 DEF DetectionInv
  <2>6. CASE at' = "refused" /\ UNCHANGED responses
    BY <2>1, <2>6 DEF DetectionInv
  <2> QED BY <1>6, <2>5, <2>6 DEF Found!Fetch
<1>7. CASE Found!Check
  <2>1. /\ at = "check" /\ UNCHANGED <<google, responses, decision, revisions>>
        /\ at' = IF DaysAgree THEN "decide" ELSE "refused"
    BY <1>7 DEF Found!Check, DaysAgree
  <2> QED BY <1>1, <2>1 DEF DetectionInv
<1>8. CASE Found!Decide
  <2>1. /\ at = "decide" /\ at' = "decided" /\ UNCHANGED <<google, responses, revisions>>
    BY <1>8 DEF Found!Decide
  <2>2. PICK lesson \in Adjustments :
           decision' = Found!Decided(Found!Baseline, Found!Current, lesson)
    BY <1>8 DEF Found!Decide
  <2>3. Found!Baseline' = Found!Baseline /\ Found!Current' = Found!Current
    BY <2>1 DEF Found!Baseline, Found!Current, Found!Read
  <2>4. DaysAgree'
    BY <2>1, <2>3 DEF DetectionInv, DaysAgree, Found!DailyTotalsHold
  <2>5. \E l \in Adjustments : decision' = Found!Decided(Found!Baseline, Found!Current, l)'
    <3>1. Found!Decided(Found!Baseline, Found!Current, lesson)'
            = Found!Decided(Found!Baseline', Found!Current', lesson)
      OBVIOUS
    <3> QED BY <2>2, <2>3, <3>1
  <2> QED BY <2>1, <2>4, <2>5 DEF DetectionInv
<1> QED BY <1>2, <1>3, <1>4, <1>5, <1>6, <1>7, <1>8 DEF Found!Next

\* A total of figures is a number no smaller than any of them.
LEMMA TotalIs ==
  ASSUME NEW figures \in [1..Length -> Nat]
  PROVE  /\ Found!Total(figures) \in Nat
         /\ \A d \in 1..Length : figures[d] <= Found!Total(figures)
<1>1. Length \in Nat
  BY DetectionAssumption
<1> DEFINE Sums(g, n) == g[0] = 0 /\ \A d \in 1..n : g[d] = g[d - 1] + figures[d]
           T == {n \in 0..Length : \E g \in [0..Length -> Nat] : Sums(g, n)}
<1>2. Length \in T
  <2>1. 0 \in T
    <3> DEFINE g == [d \in 0..Length |-> 0]
    <3>1. g \in [0..Length -> Nat] /\ Sums(g, 0) /\ 0 \in 0..Length
      BY <1>1
    <3> HIDE DEF g, Sums
    <3> QED BY <3>1
  <2>2. ASSUME NEW k \in 0..Length, k < Length, k \in T PROVE k + 1 \in T
    <3>1. PICK g \in [0..Length -> Nat] : Sums(g, k)
      BY <2>2
    <3>2. k + 1 \in 0..Length /\ k + 1 \in 1..Length /\ k \in Nat /\ k \in 0..Length
      BY <1>1, <2>2
    <3> DEFINE h == [g EXCEPT ![k + 1] = g[k] + figures[k + 1]]
    <3>3. g[k] + figures[k + 1] \in Nat
      BY <3>2
    <3>4. h \in [0..Length -> Nat]
      BY <3>3
    <3>5. Sums(h, k + 1)
      <4>1. h[0] = 0
        BY <1>1, <3>1, <3>2
      <4>2. ASSUME NEW d \in 1..(k + 1) PROVE h[d] = h[d - 1] + figures[d]
        <5>1. d \in 0..Length /\ d - 1 \in 0..Length /\ d - 1 # k + 1
          BY <1>1, <3>2
        <5>2. CASE d = k + 1
          BY <3>2, <5>1, <5>2
        <5>3. CASE d # k + 1
          <6>1. d \in 1..k
            BY <3>2, <5>3
          <6>2. h[d] = g[d] /\ h[d - 1] = g[d - 1]
            BY <5>1, <5>3
          <6> QED BY <3>1, <6>1, <6>2
        <5> QED BY <5>2, <5>3
      <4> QED BY <4>1, <4>2
    <3> HIDE DEF h, Sums
    <3> QED BY <3>2, <3>4, <3>5
  <2> HIDE DEF T
  <2>3. 0..Length \subseteq T
    BY <1>1, <2>1, <2>2, UpToEach
  <2> QED BY <1>1, <2>3
<1> DEFINE Step(g) == [d \in 0..Length |-> IF d = 0 THEN 0 ELSE g[d - 1] + figures[d]]
           upTo == CHOOSE g : g = Step(g)
<1>3. \E g : g = Step(g)
  <2>1. PICK g \in [0..Length -> Nat] : Sums(g, Length)
    BY <1>2
  <2>2. ASSUME NEW d \in 0..Length PROVE g[d] = IF d = 0 THEN 0 ELSE g[d - 1] + figures[d]
    <3>1. CASE d = 0
      BY <2>1, <3>1
    <3>2. CASE d # 0
      <4>1. d \in 1..Length
        BY <1>1, <3>2
      <4> QED BY <2>1, <3>2, <4>1
    <3> QED BY <3>1, <3>2
  <2>3. g = Step(g)
    BY <2>2
  <2> QED BY <2>3
<1>4. upTo = Step(upTo)
  <2> HIDE DEF Step
  <2> QED BY <1>3
<1>5. Found!Total(figures) = upTo[Length]
  BY DEF Found!Total
<1> HIDE DEF upTo
<1>6. upTo[0] = 0 /\ \A d \in 1..Length : upTo[d] = upTo[d - 1] + figures[d]
  <2>1. 0 \in 0..Length
    BY <1>1
  <2>2. upTo[0] = 0
    BY <1>4, <2>1
  <2>3. ASSUME NEW d \in 1..Length PROVE upTo[d] = upTo[d - 1] + figures[d]
    <3>1. d \in 0..Length /\ d # 0
      BY <1>1
    <3> QED BY <1>4, <3>1
  <2> QED BY <2>2, <2>3
<1> DEFINE U == {n \in 0..Length : upTo[n] \in Nat /\ \A d \in 1..n : figures[d] <= upTo[n]}
<1>7. Length \in U
  <2>1. 0 \in U
    BY <1>1, <1>6
  <2>2. ASSUME NEW k \in 0..Length, k < Length, k \in U PROVE k + 1 \in U
    <3>1. /\ k + 1 \in 0..Length /\ k + 1 \in 1..Length /\ (k + 1) - 1 = k /\ k \in Nat
          /\ figures[k + 1] \in Nat
      BY <1>1, <2>2
    <3>2. upTo[k + 1] = upTo[k] + figures[k + 1] /\ upTo[k] \in Nat
      BY <1>6, <2>2, <3>1
    <3>3. ASSUME NEW d \in 1..(k + 1) PROVE figures[d] <= upTo[k + 1]
      <4>1. CASE d = k + 1
        BY <3>1, <3>2, <4>1
      <4>2. CASE d # k + 1
        <5>1. d \in 1..k /\ d \in 1..Length
          BY <1>1, <2>2, <3>1, <4>2
        <5>2. figures[d] \in Nat /\ figures[d] <= upTo[k]
          BY <2>2, <5>1
        <5> QED BY <3>1, <3>2, <5>2
      <4> QED BY <4>1, <4>2
    <3>4. upTo[k + 1] \in Nat
      BY <3>1, <3>2
    <3> QED BY <3>1, <3>3, <3>4
  <2> HIDE DEF U
  <2>3. 0..Length \subseteq U
    BY <1>1, <2>1, <2>2, UpToEach
  <2> QED BY <1>1, <2>3
<1> QED BY <1>5, <1>7

\* Of some days' figures there is a smallest that as many of them as are asked for do
\* not exceed.
LEMMA RankedIs ==
  ASSUME NEW D \in SUBSET (1..Length), NEW figures \in [D -> Nat], NEW k \in Nat,
         k <= Cardinality(D), D # {}
  PROVE  Found!Ranked(figures, k) \in Nat
<1> DEFINE F == {figures[d] : d \in D}
           V == {n \in Found!Range(figures) :
                   Found!Cardinality({d \in DOMAIN figures : figures[d] <= n}) >= k}
           all == [d \in 1..Length |-> IF d \in D THEN figures[d] ELSE 0]
<1>1. Found!Range(figures) = F /\ DOMAIN figures = D
  BY DEF Found!Range
<1>2. all \in [1..Length -> Nat]
  OBVIOUS
<1>3. \A d \in D : all[d] = figures[d]
  OBVIOUS
<1> HIDE DEF all
<1>4. Found!Total(all) \in Nat /\ \A d \in D : figures[d] <= Found!Total(all)
  BY <1>2, <1>3, TotalIs
<1>5. F \subseteq 0..Found!Total(all) /\ F # {}
  <2>1. ASSUME NEW d \in D PROVE figures[d] \in 0..Found!Total(all)
    <3>1. figures[d] \in Nat /\ figures[d] <= Found!Total(all)
      BY <1>4
    <3> QED BY <1>4, <3>1
  <2> QED BY <2>1
<1>6. PICK top \in F : \A n \in F : top >= n
  <2> HIDE DEF F
  <2> QED BY <1>4, <1>5, Greatest
<1>7. {d \in DOMAIN figures : figures[d] <= top} = D
  <2>1. ASSUME NEW d \in D PROVE figures[d] <= top
    <3>1. figures[d] \in F /\ top \in Nat /\ figures[d] \in Nat
      BY <1>6
    <3>2. top >= figures[d]
      BY <1>6, <3>1
    <3> QED BY <3>1, <3>2
  <2> QED BY <1>1, <2>1
<1>8. Found!Cardinality(D) = Cardinality(D) /\ Cardinality(D) \in Nat
  <2>1. IsFiniteSet(D)
    <3>1. IsFiniteSet(1..Length)
      BY DetectionAssumption, FS_Interval
    <3> QED BY <3>1, FS_Subset
  <2> QED BY <2>1, FS_CardinalityType DEF Found!Cardinality, Cardinality
<1>9. top \in V
  BY <1>1, <1>6, <1>7, <1>8
<1>10. V \subseteq Nat
  <2>1. V \subseteq F /\ F \subseteq Nat
    BY <1>1
  <2> HIDE DEF V, F
  <2> QED BY <2>1
<1>11. Found!Ranked(figures, k) = Found!Min(V)
  BY DEF Found!Ranked
<1> HIDE DEF V
<1>12. PICK n \in V : \A m \in V : n <= m
  BY <1>9, <1>10, Least
<1>13. Found!Min(V) \in V
  BY <1>12 DEF Found!Min
<1> QED BY <1>10, <1>11, <1>13

\* What there is to know of a window: its totals and its position are numbers, and
\* a day that was seen counts in the totals.
LEMMA WindowIs ==
  ASSUME NEW window \in [1..Length -> Found!Day]
  PROVE  /\ Found!Impressions(window) \in Nat /\ Found!Clicks(window) \in Nat
         /\ Found!Observed(window) # {} => Found!Impressions(window) > 0
         /\ Found!Position2(window) \in Nat
         /\ Found!Cardinality(Found!Observed(window)) \in Nat
         /\ Found!Cardinality({d \in 1..Length : window[d].impressions = 0})
               = Length - Found!Cardinality(Found!Observed(window))
         /\ Found!Cardinality(Found!Observed(window)) > 0 => Found!Observed(window) # {}
<1> DEFINE D == Found!Observed(window)
           views == [d \in 1..Length |-> window[d].impressions]
           clicked == [d \in 1..Length |-> window[d].clicks]
           unseen == {d \in 1..Length : window[d].impressions = 0}
<1>1. Length \in Nat \ {0}
  BY DetectionAssumption
<1>2. views \in [1..Length -> Nat] /\ clicked \in [1..Length -> Nat]
  BY DEF Found!Day
<1>3. Found!Impressions(window) = Found!Total(views) /\ Found!Clicks(window) = Found!Total(clicked)
  BY DEF Found!Impressions, Found!Clicks
<1>4. D \subseteq 1..Length /\ \A d \in D : views[d] > 0
  BY DEF Found!Observed
<1>5. /\ unseen \cup D = 1..Length /\ unseen \cap D = {}
  <2>1. \A d \in 1..Length : window[d].impressions \in Nat
    BY DEF Found!Day
  <2> QED BY <2>1 DEF Found!Observed
<1> HIDE DEF views, clicked
<1>6. Found!Impressions(window) \in Nat /\ Found!Clicks(window) \in Nat
  BY <1>2, <1>3, TotalIs
<1>7. D # {} => Found!Impressions(window) > 0
  <2> SUFFICES ASSUME NEW d \in D PROVE Found!Impressions(window) > 0
    OBVIOUS
  <2>1. d \in 1..Length /\ views[d] \in Nat /\ views[d] > 0
    BY <1>2, <1>4
  <2>2. views[d] <= Found!Total(views) /\ Found!Total(views) \in Nat
    BY <1>2, <2>1, TotalIs
  <2> QED BY <1>3, <2>1, <2>2
<1>8. IsFiniteSet(D) /\ IsFiniteSet(unseen) /\ IsFiniteSet(1..Length)
  BY <1>1, <1>5, FS_Interval, FS_Subset
<1> HIDE DEF unseen
<1>9. \A S : Found!Cardinality(S) = Cardinality(S)
  BY DEF Found!Cardinality, Cardinality
<1>10. Cardinality(D) \in Nat /\ Cardinality(unseen) \in Nat
       /\ Cardinality(unseen) + Cardinality(D) = Length
  <2>1. Cardinality(1..Length) = Length
    BY <1>1, FS_Interval
  <2>2. Cardinality(D) \in Nat /\ Cardinality(unseen) \in Nat
    BY <1>8, FS_CardinalityType
  <2>3. Cardinality(unseen \cup D)
          = Cardinality(unseen) + Cardinality(D) - Cardinality(unseen \cap D)
    BY <1>8, FS_Union
  <2>5. unseen \cup D = 1..Length /\ unseen \cap D = {}
    BY <1>5
  <2>4. Cardinality({}) = 0
    BY FS_EmptySet
  <2>6. Cardinality(unseen \cup D) = Length /\ Cardinality(unseen \cap D) = 0
    BY <2>1, <2>4, <2>5
  <2> QED BY <2>2, <2>3, <2>6
<1>11. Cardinality(D) = 0 <=> D = {}
  BY <1>8, FS_EmptySet
<1>12. Found!Position2(window) \in Nat
  <2> DEFINE places == [d \in D |-> window[d].position]
             n == Cardinality(D)
  <2>1. places \in [D -> Nat] /\ DOMAIN places = D
    BY <1>4 DEF Found!Day
  <2>2. Found!Position2(window) = Found!Median2(places)
    BY DEF Found!Position2
  <2> HIDE DEF places
  <2>3. Found!Median2(places)
          = IF n = 0 THEN 0 ELSE Found!Ranked(places, (n + 1) \div 2) + Found!Ranked(places, n \div 2 + 1)
    BY <1>9, <2>1 DEF Found!Median2
  <2>4. CASE n = 0
    BY <2>2, <2>3, <2>4
  <2>5. CASE n # 0
    <3>1. /\ (n + 1) \div 2 \in Nat /\ (n + 1) \div 2 <= n
          /\ n \div 2 + 1 \in Nat /\ n \div 2 + 1 <= n
      <4>1. n \in Nat /\ n # 0
        BY <1>10, <2>5
      <4> HIDE DEF n
      <4> QED BY <4>1
    <3>2. D \in SUBSET (1..Length) /\ D # {}
      BY <1>4, <1>11, <2>5
    <3>3. Found!Ranked(places, (n + 1) \div 2) \in Nat /\ Found!Ranked(places, n \div 2 + 1) \in Nat
      <4> HIDE DEF D
      <4> QED BY <2>1, <3>1, <3>2, RankedIs DEF n
    <3> QED BY <2>2, <2>3, <2>5, <3>3
  <2> QED BY <2>4, <2>5
<1> QED BY <1>6, <1>7, <1>9, <1>10, <1>11, <1>12 DEF unseen

\* What is decided when something is to be done.
Proposing(made, baseline, current) ==
    LET signals == Found!Signals(baseline, current)
        strategy == Found!StrategyFor(Found!OpportunityFor(signals), Found!Risks(signals))
    IN  /\ Found!Complete(baseline) /\ Found!Complete(current)
        /\ made.queued /\ made.action = Found!ActionOf(strategy)

Strategies == {"serp_title_optimization", "cannibalization_investigation", "internal_linking",
               "content_depth_improvement", "monitor_only"}

\* What a strategy is chosen for.
LEMMA StrategyIs ==
  ASSUME NEW signals
  PROVE  LET risks == Found!Risks(signals)
             strategy == Found!StrategyFor(Found!OpportunityFor(signals), risks)
             drop == "CTR_DROP" \in signals
             decline == "POSITION_DECLINE" \in signals
             noise == "VOLATILITY" \in signals
         IN  /\ strategy \in Strategies
             /\ strategy = "serp_title_optimization" => drop /\ (noise => ~decline)
             /\ strategy \in {"internal_linking", "content_depth_improvement"} => ~drop
             /\ strategy = "internal_linking" => decline /\ ~noise
<1> DEFINE risks == Found!Risks(signals)
           opportunity == Found!OpportunityFor(signals)
           shaky == "POSITION_DECLINE_UNDER_VOLATILITY" \in risks
           drop == "CTR_DROP" \in signals
           decline == "POSITION_DECLINE" \in signals
           noise == "VOLATILITY" \in signals
<1>1. shaky <=> decline /\ noise
  BY DEF Found!Risks
<1>2. /\ drop /\ decline => opportunity = "mixed_recovery"
      /\ drop /\ ~decline => opportunity = "ctr_recovery"
      /\ ~drop /\ decline => opportunity = "position_recovery"
      /\ ~drop /\ ~decline => opportunity = "visibility_growth"
  BY DEF Found!OpportunityFor
<1> HIDE DEF opportunity, risks
<1>3. /\ opportunity = "mixed_recovery" =>
            Found!StrategyFor(opportunity, risks)
              = IF shaky THEN "cannibalization_investigation" ELSE "serp_title_optimization"
      /\ opportunity = "ctr_recovery" =>
            Found!StrategyFor(opportunity, risks) = "serp_title_optimization"
      /\ opportunity = "position_recovery" =>
            Found!StrategyFor(opportunity, risks)
              = IF shaky THEN "monitor_only" ELSE "internal_linking"
      /\ opportunity = "visibility_growth" =>
            Found!StrategyFor(opportunity, risks) = "content_depth_improvement"
  BY DEF Found!StrategyFor
<1> HIDE DEF shaky
<1>4. /\ drop /\ decline => (Found!StrategyFor(opportunity, risks)
              = IF shaky THEN "cannibalization_investigation" ELSE "serp_title_optimization")
      /\ drop /\ ~decline => Found!StrategyFor(opportunity, risks) = "serp_title_optimization"
      /\ ~drop /\ decline => (Found!StrategyFor(opportunity, risks)
              = IF shaky THEN "monitor_only" ELSE "internal_linking")
      /\ ~drop /\ ~decline => Found!StrategyFor(opportunity, risks) = "content_depth_improvement"
  BY <1>2, <1>3
<1> HIDE DEF drop, decline, noise
<1>5. /\ Found!StrategyFor(opportunity, risks) \in Strategies
      /\ Found!StrategyFor(opportunity, risks) = "serp_title_optimization"
            => drop /\ (noise => ~decline)
      /\ Found!StrategyFor(opportunity, risks) \in {"internal_linking", "content_depth_improvement"}
            => ~drop
      /\ Found!StrategyFor(opportunity, risks) = "internal_linking" => decline /\ ~noise
  BY <1>1, <1>4 DEF Strategies
<1> QED BY <1>5 DEF opportunity, risks, drop, decline, noise

\* What a strategy's action is.
LEMMA ActionIs ==
  ASSUME NEW strategy \in Strategies
  PROVE  LET made == Found!ActionOf(strategy)
         IN  /\ made.type = "optimize_title" => strategy = "serp_title_optimization"
             /\ made.type = "improve_internal_linking" => strategy = "internal_linking"
             /\ made.type = "improve_content_depth" => strategy = "content_depth_improvement"
             /\ made.type \notin {"monitor", "investigate_cannibalization"}
                   => made.status = "awaiting_approval"
             /\ \A impressions \in Nat, confidence \in Int :
                   Found!Priority(strategy, impressions, confidence) \in Int
<1>1. CASE strategy = "serp_title_optimization"
  BY <1>1 DEF Found!ActionOf, Found!STRATEGY_TO_ACTION, Found!RequiresApproval, Found!RiskLevel,
     Found!StrategyScores, Found!Priority, Found!ExpectedImpact, Found!Impact
<1>2. CASE strategy = "cannibalization_investigation"
  BY <1>2 DEF Found!ActionOf, Found!STRATEGY_TO_ACTION, Found!RequiresApproval, Found!RiskLevel,
     Found!StrategyScores, Found!Priority, Found!ExpectedImpact, Found!Impact
<1>3. CASE strategy = "internal_linking"
  BY <1>3 DEF Found!ActionOf, Found!STRATEGY_TO_ACTION, Found!RequiresApproval, Found!RiskLevel,
     Found!StrategyScores, Found!Priority, Found!ExpectedImpact, Found!Impact
<1>4. CASE strategy = "content_depth_improvement"
  BY <1>4 DEF Found!ActionOf, Found!STRATEGY_TO_ACTION, Found!RequiresApproval, Found!RiskLevel,
     Found!StrategyScores, Found!Priority, Found!ExpectedImpact, Found!Impact
<1>5. CASE strategy = "monitor_only"
  BY <1>5 DEF Found!ActionOf, Found!STRATEGY_TO_ACTION, Found!RequiresApproval, Found!RiskLevel,
     Found!StrategyScores, Found!Priority, Found!ExpectedImpact, Found!Impact
<1> QED BY <1>1, <1>2, <1>3, <1>4, <1>5 DEF Strategies

LEMMA AdjustedIs ==
  ASSUME NEW n \in Int, NEW lesson \in Int
  PROVE  Found!Adjusted(n, lesson) \in Found!Scores
BY DEF Found!Adjusted, Found!Scores

\* What the rules make of two windows.
LEMMA DecisionIs ==
  ASSUME NEW baseline \in [1..Length -> Found!Day], NEW current \in [1..Length -> Found!Day],
         NEW lesson \in Adjustments, NEW made, made = Found!Decided(baseline, current, lesson)
  PROVE  /\ made.priority \in Found!Scores
         /\ made.action.type # None => Proposing(made, baseline, current)
<1> DEFINE signals == Found!Signals(baseline, current)
           risks == Found!Risks(signals)
           confidence == Found!Confidence(baseline, current, risks)
           class == Found!Class(signals, confidence)
           strategy == Found!StrategyFor(Found!OpportunityFor(signals), risks)
           priority == Found!Priority(strategy, Found!Impressions(current), confidence)
           none == Found!NoDecision
           plain == [none EXCEPT !.status = "completed", !.class = class,
                                 !.signals = signals \cup risks, !.queued = class = "INVESTIGATE"]
           moved == Found!Adjusted(priority, lesson)
           todo == Found!ActionOf(strategy)
<1>1. confidence \in Int
  <2> DEFINE b == Found!Cardinality(Found!Observed(baseline))
             c == Found!Cardinality(Found!Observed(current))
             product == (10000 * b * c) \div (Length * Length)
  <2>1. b \in Nat /\ c \in Nat
    BY WindowIs
  <2> HIDE DEF b, c
  <2>2. Length * Length \in Nat /\ Length * Length > 0
    <3>1. Length \in Nat /\ Length > 0
      BY DetectionAssumption
    <3> QED BY <3>1
  <2>3. 10000 * b * c \in Int
    BY <2>1
  <2>4. product \in Int
    <3> DEFINE n == 10000 * b * c  l == Length * Length
    <3>1. n \in Int /\ l \in Nat /\ l > 0
      BY <2>2, <2>3
    <3> HIDE DEF n, l
    <3>2. n \div l \in Int
      BY <3>1
    <3> QED BY <3>2 DEF n, l
  <2>5. confidence = IF risks = {} THEN product ELSE (8 * product) \div 10
    BY DEF Found!Confidence, b, c
  <2> HIDE DEF product, confidence
  <2> QED BY <2>4, <2>5
<1>2. strategy \in Strategies
  BY StrategyIs
<1>3. Found!Impressions(current) \in Nat
  BY WindowIs
<1> HIDE DEF strategy, confidence
<1>4. priority \in Int
  BY <1>1, <1>2, <1>3, ActionIs
<1> HIDE DEF priority
<1> HIDE DEF class, todo, plain, none
<1>5. moved \in Found!Scores
  <2>1. lesson \in Int
    BY DetectionAssumption
  <2> QED BY <1>4, <2>1, AdjustedIs
<1> HIDE DEF moved
<1>6. /\ none = [status |-> None, class |-> None, signals |-> {}, queued |-> FALSE,
                 strategy |-> None, action |-> [type |-> None, status |-> None], priority |-> 0]
      /\ 0 \in Found!Scores
  BY DEF Found!NoDecision, Found!NoAction, none, Found!Scores
<1>7. plain.action.type = None /\ plain.priority = 0
  BY <1>6 DEF plain
<1>8. /\ \/ made = [none EXCEPT !.status = "rejected_reconciliation", !.class = "REJECT"]
         \/ made = [none EXCEPT !.status = "rejected_data_quality", !.class = "REJECT"]
         \/ made = plain
         \/ /\ Found!PassesGate(baseline, current) /\ class = "INVESTIGATE"
            /\ made = [plain EXCEPT !.strategy = strategy, !.action = todo, !.priority = moved]
  <2>1. \/ made = [none EXCEPT !.status = "rejected_reconciliation", !.class = "REJECT"]
        \/ made = Found!Engine(baseline, current, lesson)
    BY DEF Found!Decided, none
  <2>2. \/ Found!Engine(baseline, current, lesson)
              = [none EXCEPT !.status = "rejected_data_quality", !.class = "REJECT"]
        \/ Found!Engine(baseline, current, lesson) = plain
        \/ /\ Found!PassesGate(baseline, current) /\ Found!Qualified(class, signals)
           /\ Found!Engine(baseline, current, lesson)
                = [plain EXCEPT !.strategy = strategy, !.action = todo, !.priority = moved]
    BY DEF Found!Engine, none, plain, class, confidence, strategy, todo, moved, priority
  <2> QED BY <2>1, <2>2 DEF Found!Qualified
<1>9. CASE \/ made = [none EXCEPT !.status = "rejected_reconciliation", !.class = "REJECT"]
           \/ made = [none EXCEPT !.status = "rejected_data_quality", !.class = "REJECT"]
  <2>1. made.priority = 0 /\ made.action = [type |-> None, status |-> None]
    <3>1. CASE made = [none EXCEPT !.status = "rejected_reconciliation", !.class = "REJECT"]
      BY <1>6, <3>1
    <3>2. CASE made = [none EXCEPT !.status = "rejected_data_quality", !.class = "REJECT"]
      BY <1>6, <3>2
    <3> QED BY <1>9, <3>1, <3>2
  <2>2. made.action.type = None
    BY <2>1
  <2> QED BY <1>6, <2>1, <2>2
<1>10. CASE made = plain
  BY <1>6, <1>7, <1>10
<1>11. CASE /\ Found!PassesGate(baseline, current) /\ class = "INVESTIGATE"
            /\ made = [plain EXCEPT !.strategy = strategy, !.action = todo, !.priority = moved]
  <2>1. made.priority = moved /\ made.queued = (class = "INVESTIGATE") /\ made.action = todo
    BY <1>6, <1>11 DEF plain
  <2>2. made.queued
    BY <1>11, <2>1
  <2> QED BY <1>5, <1>11, <2>1, <2>2 DEF Proposing, Found!PassesGate, strategy, todo
<1> QED BY <1>8, <1>9, <1>10, <1>11

LEMMA DetectionPromise == DetectionInv => Found!TypeOK /\ Found!RecommendationIsGrounded
<1> SUFFICES ASSUME DetectionInv PROVE Found!TypeOK /\ Found!RecommendationIsGrounded
  OBVIOUS
<1> DEFINE baseline == Found!Baseline  current == Found!Current
<1>1. CASE at # "decided"
  <2>1. /\ decision = Found!NoDecision /\ Found!NoDecision.action.type = None
        /\ Found!NoDecision.priority = 0 /\ 0 \in Found!Scores
    BY <1>1 DEF DetectionInv, Found!NoDecision, Found!NoAction, Found!Scores
  <2> QED BY <2>1 DEF DetectionInv, Found!TypeOK, Found!RecommendationIsGrounded, Found!Scores
<1>2. CASE at = "decided"
  <2>1. PICK lesson \in Adjustments : decision = Found!Decided(baseline, current, lesson)
    BY <1>2 DEF DetectionInv
  <2>2. /\ Len(responses) = 4 /\ responses \in Seq(FoundDays)
        /\ Found!DailyTotalsHold(baseline) /\ Found!DailyTotalsHold(current)
    BY <1>2 DEF DetectionInv, DaysAgree
  <2>3. \A i \in 1..4 : responses[i] \in FoundDays
    <3>1. responses \in Seq(FoundDays) /\ DOMAIN responses = 1..4
      BY <2>2
    <3> QED BY <3>1
  <2>4. baseline \in FoundDays /\ current \in FoundDays
    <3>1. ASSUME NEW shows \in FoundDays, NEW whole \in FoundDays
          PROVE  Found!Read(shows, whole) \in FoundDays
      <4> DEFINE window == Found!Read(shows, whole)
      <4>1. ASSUME NEW d \in 1..Length
            PROVE  /\ window[d] \in Found!Day
                   /\ window[d].impressions = 0 => window[d].clicks = 0
        <5>1. shows[d] \in Found!Day /\ whole[d] \in Found!Day
              /\ (shows[d].impressions = 0 => shows[d].clicks = 0)
          BY DEF FoundDays
        <5>2. window[d] = [shows[d] EXCEPT !.pageImpressions = whole[d].pageImpressions,
                                          !.pageClicks = whole[d].pageClicks]
          BY DEF Found!Read
        <5> QED BY <5>1, <5>2 DEF Found!Day
      <4>2. window \in [1..Length -> Found!Day]
        BY <4>1 DEF Found!Read
      <4> HIDE DEF window
      <4> QED BY <4>1, <4>2 DEF FoundDays, window
    <3> QED BY <2>3, <3>1 DEF Found!Baseline, Found!Current
  <2> HIDE DEF baseline, current
  <2>5. baseline \in [1..Length -> Found!Day] /\ current \in [1..Length -> Found!Day]
    BY <2>4 DEF FoundDays
  <2>6. decision.priority \in Found!Scores
    BY <2>1, <2>5, DecisionIs
  <2>7. Found!TypeOK
    <3>1. /\ google \in [{"baseline", "current"} -> Windows] /\ revisions \in 0..MaxRevisions
          /\ Len(responses) <= 4
          /\ at \in {"asked", "fetch", "check", "decide", "decided", "refused"}
      BY DEF DetectionInv
    <3> QED BY <2>6, <3>1 DEF Found!TypeOK
  <2>8. ASSUME decision.action.type # None
        PROVE  Found!RecommendationIsGrounded
    <3> DEFINE signals == Found!Signals(baseline, current)
               strategy == Found!StrategyFor(Found!OpportunityFor(signals), Found!Risks(signals))
               type == decision.action.type
               drop == "CTR_DROP" \in signals
               decline == "POSITION_DECLINE" \in signals
               noise == "VOLATILITY" \in signals
    <3>1. /\ Found!Complete(baseline) /\ Found!Complete(current)
          /\ decision.queued /\ decision.action = Found!ActionOf(strategy)
      BY <2>1, <2>5, <2>8, DecisionIs DEF Proposing
    <3>2. /\ drop <=> Found!CtrDrop(baseline, current)
          /\ decline <=> Found!PositionDecline(baseline, current)
          /\ noise <=> Found!Volatile(current)
      BY DEF Found!Signals
    <3>3. /\ strategy \in Strategies
          /\ strategy = "serp_title_optimization" => drop /\ (noise => ~decline)
          /\ strategy \in {"internal_linking", "content_depth_improvement"} => ~drop
          /\ strategy = "internal_linking" => decline /\ ~noise
      BY StrategyIs
    <3> HIDE DEF strategy, signals
    <3>4. /\ type = "optimize_title" => strategy = "serp_title_optimization"
          /\ type = "improve_internal_linking" => strategy = "internal_linking"
          /\ type = "improve_content_depth" => strategy = "content_depth_improvement"
          /\ type \notin {"monitor", "investigate_cannibalization"}
                => decision.action.status = "awaiting_approval"
      BY <3>1, <3>3, ActionIs
    <3> HIDE DEF type, drop, decline, noise
    <3>5. ASSUME NEW window \in FoundDays, Found!DailyTotalsHold(window), Found!Complete(window)
          PROVE  /\ 5 * Found!Cardinality({d \in 1..Length : window[d].impressions = 0}) <= Length
                 /\ \A d \in 1..Length : /\ window[d].impressions <= window[d].pageImpressions
                                         /\ window[d].clicks <= window[d].pageClicks
                 /\ Found!Impressions(window) \in Nat /\ Found!Impressions(window) > 0
                 /\ Found!Clicks(window) \in Nat /\ Found!Position2(window) \in Nat
      <4>1. window \in [1..Length -> Found!Day] /\ Length \in Nat \ {0}
        BY DetectionAssumption DEF FoundDays
      <4> DEFINE o == Found!Cardinality(Found!Observed(window))
                 u == Found!Cardinality({d \in 1..Length : window[d].impressions = 0})
      <4>2. o \in Nat /\ u = Length - o /\ (o > 0 => Found!Observed(window) # {})
        BY <4>1, WindowIs
      <4>3. 5 * o >= 4 * Length
        BY <3>5 DEF Found!Complete
      <4> HIDE DEF o, u
      <4>4. 5 * u <= Length /\ o > 0
        BY <4>1, <4>2, <4>3
      <4>5. /\ Found!Impressions(window) \in Nat /\ Found!Impressions(window) > 0
            /\ Found!Clicks(window) \in Nat /\ Found!Position2(window) \in Nat
        BY <4>1, <4>2, <4>4, WindowIs
      <4>6. ASSUME NEW d \in 1..Length
            PROVE  /\ window[d].impressions <= window[d].pageImpressions
                   /\ window[d].clicks <= window[d].pageClicks
        <5>1. window[d] \in Found!Day /\ (window[d].impressions = 0 => window[d].clicks = 0)
          BY DEF FoundDays
        <5>2. CASE window[d].impressions = 0
          BY <5>1, <5>2 DEF Found!Day
        <5>3. CASE window[d].impressions # 0
          <6>1. window[d].impressions > 0
            BY <5>1, <5>3 DEF Found!Day
          <6> QED BY <3>5, <6>1 DEF Found!DailyTotalsHold
        <5> QED BY <5>2, <5>3
      <4> QED BY <4>4, <4>5, <4>6 DEF u
    <3> DEFINE ib == Found!Impressions(baseline)  ic == Found!Impressions(current)
               cb == Found!Clicks(baseline)  cc == Found!Clicks(current)
               pb == Found!Position2(baseline)  pc == Found!Position2(current)
    <3>6. /\ ib \in Nat /\ ib > 0 /\ ic \in Nat /\ ic > 0 /\ cb \in Nat /\ cc \in Nat
          /\ pb \in Nat /\ pc \in Nat
      BY <2>2, <2>4, <3>1, <3>5
    <3>7. /\ Found!CtrDrop(baseline, current) => cb > 0 /\ Found!CtrFell(baseline, current, 2)
          /\ cb > 0 /\ Found!CtrFell(baseline, current, 2) => Found!CtrDrop(baseline, current)
          /\ Found!PositionDecline(baseline, current) <=> pc - pb >= 30
          /\ Found!CtrFell(baseline, current, 2) <=> 100 * (cb * ic - cc * ib) >= 2 * ib * ic
      BY DEF Found!CtrDrop, Found!PositionDecline, Found!CtrFell
    <3> HIDE DEF ib, ic, cb, cc, pb, pc
    <3>8. 100 * (cb * ic - cc * ib) >= 2 * ib * ic => cc * ib < cb * ic
      <4> DEFINE x == cb * ic  y == cc * ib  z == ib * ic
      <4>1. x \in Int /\ y \in Int /\ z \in Int /\ z > 0 /\ 2 * ib * ic = 2 * z
        BY <3>6
      <4> HIDE DEF x, y, z
      <4>2. 100 * (x - y) >= 2 * z => y < x
        BY <4>1
      <4> QED BY <4>1, <4>2 DEF x, y
    <3>9. type = "optimize_title" => cc * ib < cb * ic /\ (Found!Volatile(current) => pc - pb < 30)
      <4>1. ~(pc - pb >= 30) => pc - pb < 30
        BY <3>6
      <4> QED BY <3>2, <3>3, <3>4, <3>7, <3>8, <4>1
    <3>10. type \in {"improve_internal_linking", "improve_content_depth"} =>
              cb = 0 \/ ~Found!CtrFell(baseline, current, 2)
      <4>1. cb = 0 \/ cb > 0
        BY <3>6
      <4> QED BY <3>2, <3>3, <3>4, <3>7, <4>1
    <3>11. type = "improve_internal_linking" => pc > pb /\ ~Found!Volatile(current)
      <4>1. pc - pb >= 30 => pc > pb
        BY <3>6
      <4> QED BY <3>2, <3>3, <3>4, <3>7, <4>1
    <3>12. \A window \in {baseline, current} :
             /\ 5 * Found!Cardinality({d \in 1..Length : window[d].impressions = 0}) <= Length
             /\ \A d \in 1..Length : /\ window[d].impressions <= window[d].pageImpressions
                                     /\ window[d].clicks <= window[d].pageClicks
      BY <2>2, <2>4, <3>1, <3>5
    <3> QED BY <3>1, <3>4, <3>9, <3>10, <3>11, <3>12
        DEF Found!RecommendationIsGrounded, baseline, current, type, ib, ic, cb, cc, pb, pc
  <2>9. decision.action.type = None => Found!RecommendationIsGrounded
    BY DEF Found!RecommendationIsGrounded
  <2> QED BY <2>7, <2>8, <2>9
<1> QED BY <1>1, <1>2
-----------------------------------------------------------------------------
(* The lessons (Learning). An action is settled once, by what its days show, *)
(* and its feedback event is the outcome it was settled with; so all that is *)
(* left to say is what an outcome can be (VerdictIs) and what the sum of a   *)
(* tenant's outcomes is (LessonSum).                                         *)
LearningInv ==
    /\ Learned!TypeOK
    /\ outcome = [a \in Actions |-> outcome[a]] /\ feedback = [a \in Actions |-> feedback[a]]
    /\ \A a \in Actions :
          /\ outcome[a] # None => outcome[a] = Learned!Outcome(Learned!Measurement(change[a]))
          /\ feedback[a] = Learned!Feedback(a, outcome[a])

LEMMA LearningStart == Learned!Init => LearningInv
BY DEF Learned!Init, LearningInv, Learned!TypeOK, Learned!Feedback

LEMMA OutcomeIs == \A m : Learned!Outcome(m).status \in Learned!OutcomeStatus
BY DEF Learned!Outcome, Learned!OutcomeStatus

LEMMA LearningStep ==
  ASSUME LearningInv, Learned!Next \/ UNCHANGED Learned!vars
  PROVE  LearningInv'
<1>1. CASE UNCHANGED Learned!vars
  BY <1>1 DEF Learned!vars, LearningInv, Learned!TypeOK, Learned!Feedback
<1>2. ASSUME NEW a \in Actions, Learned!Settle(a) PROVE LearningInv'
  <2> DEFINE verdict == Learned!Outcome(Learned!Measurement(change[a]))
             event == Learned!Feedback(a, verdict)
  <2>1. /\ outcome' = [outcome EXCEPT ![a] = verdict] /\ feedback' = [feedback EXCEPT ![a] = event]
        /\ change' = change
    BY <1>2 DEF Learned!Settle
  <2>2. verdict.status \in Learned!OutcomeStatus /\ event \in {None, verdict}
    BY OutcomeIs DEF Learned!Feedback
  <2> HIDE DEF verdict, event
  <2>3. /\ outcome' = [b \in Actions |-> outcome'[b]] /\ feedback' = [b \in Actions |-> feedback'[b]]
        /\ outcome'[a] = verdict /\ feedback'[a] = event
        /\ \A b \in Actions \ {a} : outcome'[b] = outcome[b] /\ feedback'[b] = feedback[b]
    BY <2>1 DEF LearningInv
  <2>4. ASSUME NEW b \in Actions
        PROVE  /\ outcome'[b] # None => outcome'[b].status \in Learned!OutcomeStatus
               /\ feedback'[b] \in {None, outcome'[b]}
               /\ outcome'[b] # None =>
                     outcome'[b] = Learned!Outcome(Learned!Measurement(change[b]))
               /\ feedback'[b] = Learned!Feedback(b, outcome'[b])
    <3>1. CASE b = a
      BY <2>2, <2>3, <3>1 DEF verdict, event
    <3>2. CASE b # a
      BY <2>3, <3>2 DEF LearningInv, Learned!TypeOK
    <3> QED BY <3>1, <3>2
  <2> QED BY <2>1, <2>3, <2>4 DEF LearningInv, Learned!TypeOK, Learned!Feedback
<1> QED BY <1>1, <1>2 DEF Learned!Next
-----------------------------------------------------------------------------
(* What is learned of a change (Learning). A sum over a finite set is what   *)
(* its recursion says: an integer, not negative where its terms are not, and *)
(* positive where one is. From there on it is arithmetic: a rounded ratio is *)
(* at most a half away from the ratio, so that a CTR that is higher after    *)
(* rounding was higher before it.                                            *)
Adds(f, S, w) ==
    f = [s \in SUBSET S |-> IF s = {} THEN 0
                            ELSE w[CHOOSE x \in s : TRUE] + f[s \ {CHOOSE x \in s : TRUE}]]

LEMMA OneLess ==
  ASSUME NEW S, IsFiniteSet(S), NEW s \in SUBSET S, s # {}
  PROVE  /\ (CHOOSE x \in s : TRUE) \in s
         /\ IsFiniteSet(s) /\ Cardinality(s) \in Nat \ {0}
         /\ Cardinality(s \ {CHOOSE x \in s : TRUE}) = Cardinality(s) - 1
         /\ s \ {CHOOSE x \in s : TRUE} \in SUBSET S
<1>1. (CHOOSE x \in s : TRUE) \in s
  OBVIOUS
<1> DEFINE y == CHOOSE x \in s : TRUE
<1> HIDE DEF y
<1>2. IsFiniteSet(s)
  BY FS_Subset
<1>3. Cardinality(s) \in Nat /\ Cardinality(s) # 0
  BY <1>2, FS_CardinalityType, FS_EmptySet
<1>4. Cardinality(s \ {y}) = Cardinality(s) - 1
  BY <1>1, <1>2, FS_RemoveElement DEF y
<1> QED BY <1>1, <1>2, <1>3, <1>4 DEF y

\* There is a function that adds, built up by the size of the sets.
LEMMA SumIsDefined ==
  ASSUME NEW S, IsFiniteSet(S), NEW w
  PROVE  \E f : Adds(f, S, w)
<1> DEFINE AddsUpto(f, n) == \A s \in SUBSET S : Cardinality(s) <= n =>
               f[s] = IF s = {} THEN 0
                      ELSE w[CHOOSE x \in s : TRUE] + f[s \ {CHOOSE x \in s : TRUE}]
           T == {n \in Nat : ~\E f : AddsUpto(f, n)}
<1>1. \A s \in SUBSET S : Cardinality(s) \in Nat /\ Cardinality(s) <= Cardinality(S)
  BY FS_Subset, FS_CardinalityType
<1>2. \A s \in SUBSET S : s # {} =>
          LET u == s \ {CHOOSE x \in s : TRUE}
          IN  u \in SUBSET S /\ Cardinality(u) = Cardinality(s) - 1
  BY OneLess
<1>3. ASSUME NEW n \in Nat, \A m \in T : n <= m PROVE \E f : AddsUpto(f, n)
  <2>1. CASE n = 0
    <3>1. \A s \in SUBSET S : Cardinality(s) <= 0 => s = {}
      BY <1>1, FS_EmptySet, FS_Subset
    <3>2. AddsUpto([s \in SUBSET S |-> 0], 0)
      BY <3>1
    <3> HIDE DEF AddsUpto
    <3> QED BY <2>1, <3>2
  <2>2. CASE n # 0
    <3>1. n - 1 \in Nat /\ ~(n <= n - 1)
      BY <2>2
    <3>2. PICK f : AddsUpto(f, n - 1)
      <4> HIDE DEF AddsUpto
      <4> QED BY <1>3, <3>1
    <3> DEFINE next(s) == IF s = {} THEN 0
                          ELSE w[CHOOSE x \in s : TRUE] + f[s \ {CHOOSE x \in s : TRUE}]
               g == [s \in SUBSET S |-> next(s)]
    <3>3. \A s \in SUBSET S : g[s] = next(s)
      OBVIOUS
    <3>4. \A s \in SUBSET S : Cardinality(s) <= n - 1 => f[s] = next(s)
      BY <3>2
    <3> HIDE DEF g
    <3>5. ASSUME NEW s \in SUBSET S, Cardinality(s) <= n, s # {}
          PROVE  f[s \ {CHOOSE x \in s : TRUE}] = g[s \ {CHOOSE x \in s : TRUE}]
      <4> DEFINE u == s \ {CHOOSE x \in s : TRUE}
      <4>1. /\ u \in SUBSET S /\ Cardinality(s) \in Nat
            /\ Cardinality(u) = Cardinality(s) - 1
        BY <1>1, <1>2, <3>5
      <4>2. Cardinality(u) <= n - 1
        BY <3>5, <4>1
      <4> HIDE DEF u, next
      <4>3. f[u] = g[u]
        BY <3>3, <3>4, <4>1, <4>2
      <4> QED BY <4>3 DEF u
    <3>6. AddsUpto(g, n)
      BY <3>3, <3>5
    <3> HIDE DEF AddsUpto
    <3> QED BY <3>6
  <2> QED BY <2>1, <2>2
<1>4. T = {}
  <2> SUFFICES ASSUME T # {} PROVE FALSE
    OBVIOUS
  <2>1. T \subseteq Nat
    OBVIOUS
  <2>2. PICK n \in T : \A m \in T : n <= m
    <3> HIDE DEF T
    <3> QED BY <2>1, Least
  <2> HIDE DEF AddsUpto
  <2> QED BY <1>3, <2>2
<1>5. Cardinality(S) \in Nat
  BY FS_CardinalityType
<1>6. PICK f : AddsUpto(f, Cardinality(S))
  <2> HIDE DEF AddsUpto
  <2> QED BY <1>4, <1>5
<1>7. \A s \in SUBSET S :
          f[s] = IF s = {} THEN 0
                 ELSE w[CHOOSE x \in s : TRUE] + f[s \ {CHOOSE x \in s : TRUE}]
  BY <1>1, <1>6
<1>8. \E g : g = [s \in SUBSET S |-> f[s]]
  OBVIOUS
<1>9. PICK g : g = [s \in SUBSET S |-> f[s]]
  BY <1>8
<1>10. ASSUME NEW s \in SUBSET S
       PROVE  f[s] = IF s = {} THEN 0
                     ELSE w[CHOOSE x \in s : TRUE] + g[s \ {CHOOSE x \in s : TRUE}]
  <2>1. CASE s = {}
    BY <1>7, <2>1
  <2>2. CASE s # {}
    <3>1. g[s \ {CHOOSE x \in s : TRUE}] = f[s \ {CHOOSE x \in s : TRUE}]
      BY <1>2, <1>9, <2>2
    <3> QED BY <1>7, <2>2, <3>1
  <2> QED BY <2>1, <2>2
<1>11. g = [s \in SUBSET S |-> IF s = {} THEN 0
                 ELSE w[CHOOSE x \in s : TRUE] + g[s \ {CHOOSE x \in s : TRUE}]]
  BY <1>9, <1>10
<1> QED BY <1>11 DEF Adds

\* What a function that adds can be.
LEMMA SumIs ==
  ASSUME NEW S, IsFiniteSet(S), NEW w, \A x \in S : w[x] \in Int, NEW f, Adds(f, S, w)
  PROVE  /\ f[S] \in Int
         /\ (\A x \in S : w[x] >= 0) => f[S] >= 0
         /\ (\A x \in S : w[x] <= 0) => f[S] <= 0
         /\ \A x \in S : (\A y \in S : w[y] >= 0) /\ w[x] > 0 => f[S] > 0
<1> DEFINE Good(s) == /\ f[s] \in Int
                      /\ (\A x \in s : w[x] >= 0) => f[s] >= 0
                      /\ (\A x \in s : w[x] <= 0) => f[s] <= 0
                      /\ \A x \in s : (\A y \in s : w[y] >= 0) /\ w[x] > 0 => f[s] > 0
           T == {n \in Nat : \E s \in SUBSET S : Cardinality(s) = n /\ ~Good(s)}
<1>1. ASSUME NEW s \in SUBSET S, ~Good(s), \A m \in T : Cardinality(s) <= m PROVE FALSE
  <2>1. CASE s = {}
    <3>1. f[s] = 0
      BY <2>1 DEF Adds
    <3> QED BY <1>1, <2>1, <3>1
  <2>2. CASE s # {}
    <3> DEFINE y == CHOOSE x \in s : TRUE
               u == s \ {y}
    <3>1. /\ y \in s /\ Cardinality(s) \in Nat \ {0} /\ Cardinality(u) = Cardinality(s) - 1
          /\ u \in SUBSET S
      BY <2>2, OneLess
    <3>2. f[s] = w[y] + f[u]
      BY <2>2 DEF Adds
    <3> HIDE DEF y
    <3>3. Good(u)
      <4>1. Cardinality(u) \in Nat /\ ~(Cardinality(s) <= Cardinality(u))
        BY <3>1
      <4>2. Cardinality(u) \notin T
        <5> HIDE DEF T
        <5> QED BY <1>1, <4>1
      <4> HIDE DEF Good, u
      <4> QED BY <3>1, <4>1, <4>2
    <3>4. w[y] \in Int /\ \A x \in s : x = y \/ x \in u
      BY <3>1
    <3>5. \A x \in u : x \in s
      OBVIOUS
    <3> HIDE DEF u
    <3>6. Good(s)
      <4>1. f[s] \in Int
        BY <3>2, <3>3, <3>4
      <4>2. (\A x \in s : w[x] >= 0) => f[s] >= 0
        BY <3>1, <3>2, <3>3, <3>4, <3>5
      <4>3. (\A x \in s : w[x] <= 0) => f[s] <= 0
        BY <3>1, <3>2, <3>3, <3>4, <3>5
      <4>4. ASSUME NEW x \in s, \A z \in s : w[z] >= 0, w[x] > 0 PROVE f[s] > 0
        <5>1. f[u] >= 0 /\ w[y] >= 0 /\ f[u] \in Int
          BY <3>1, <3>3, <3>5, <4>4
        <5>2. x = y => w[y] > 0
          BY <4>4
        <5>3. x \in u => f[u] > 0
          BY <3>3, <3>5, <4>4
        <5> QED BY <3>2, <3>4, <5>1, <5>2, <5>3
      <4> QED BY <4>1, <4>2, <4>3, <4>4
    <3> QED BY <1>1, <3>6
  <2> QED BY <2>1, <2>2
<1>2. T = {}
  <2> SUFFICES ASSUME T # {} PROVE FALSE
    OBVIOUS
  <2>1. T \subseteq Nat
    OBVIOUS
  <2>2. PICK n \in T : \A m \in T : n <= m
    <3> HIDE DEF T
    <3> QED BY <2>1, Least
  <2>3. PICK s \in SUBSET S : Cardinality(s) = n /\ ~Good(s)
    BY <2>2
  <2> HIDE DEF T, Good
  <2> QED BY <1>1, <2>2, <2>3
<1>3. Cardinality(S) \in Nat
  BY FS_CardinalityType
<1>4. Good(S)
  <2> HIDE DEF Good
  <2> QED BY <1>2, <1>3
<1> QED BY <1>4
LEMMA MulLe ==
  ASSUME NEW k \in Nat, NEW a \in Int, NEW b \in Int, a <= b
  PROVE  k * a <= k * b
OBVIOUS

LEMMA MulLt ==
  ASSUME NEW k \in Nat \ {0}, NEW a \in Int, NEW b \in Int, a < b
  PROVE  k * a < k * b
OBVIOUS

\* A rounded ratio is within a half of the ratio.
LEMMA RoundIs ==
  ASSUME NEW part \in Int, NEW whole \in Nat \ {0}
  PROVE  /\ Learned!Round(part, whole) \in Int
         /\ 2 * (whole * Learned!Round(part, whole)) - whole <= 2 * part
         /\ 2 * part < 2 * (whole * Learned!Round(part, whole)) + whole
<1> DEFINE q == (2 * part + whole) \div (2 * whole)
<1>1. 2 * part + whole \in Int /\ 2 * whole \in Nat \ {0}
  OBVIOUS
<1>2. \A a \in Int, b \in Nat \ {0} : a \div b \in Int /\ b * (a \div b) <= a /\ a < b * (a \div b) + b
  OBVIOUS
<1>3. q \in Int /\ (2 * whole) * q <= 2 * part + whole /\ 2 * part + whole < (2 * whole) * q + 2 * whole
  BY <1>1, <1>2
<1> HIDE DEF q
<1>4. (2 * whole) * q = 2 * (whole * q)
  BY <1>3
<1>5. whole * q \in Int
  BY <1>3
<1> QED BY <1>3, <1>4, <1>5 DEF Learned!Round, q

\* What rounding leaves of two CTRs: b and c are rounded, and the clicks and
\* impressions before and after are those they were rounded from.
LEMMA CtrsAre ==
  ASSUME NEW P \in Nat \ {0}, NEW cb \in Nat, NEW ib \in Nat \ {0}, NEW cc \in Nat, NEW ic \in Nat \ {0}
  PROVE  LET b == Learned!Round(P * cb, ib)
             c == Learned!Round(P * cc, ic)
             W == ib * ic
             A == cc * ib
             B == cb * ic
         IN  /\ b \in Nat /\ c \in Nat /\ {A, B} \subseteq Nat /\ W \in Nat \ {0}
             /\ {P * A, P * B, b * W, c * W} \subseteq Nat
             /\ 2 * (b * W) - W <= 2 * (P * B) /\ 2 * (P * B) <= 2 * (b * W) + W
             /\ 2 * (c * W) - W <= 2 * (P * A) /\ 2 * (P * A) <= 2 * (c * W) + W
             /\ c > b => A > B
             /\ c < b => A < B
<1> DEFINE b == Learned!Round(P * cb, ib)
           c == Learned!Round(P * cc, ic)
           W == ib * ic
           A == cc * ib
           B == cb * ic
<1>1. P * cb \in Nat /\ P * cc \in Nat
  OBVIOUS
<1>2. b \in Int /\ 2 * (ib * b) - ib <= 2 * (P * cb) /\ 2 * (P * cb) < 2 * (ib * b) + ib
  BY <1>1, RoundIs
<1>3. c \in Int /\ 2 * (ic * c) - ic <= 2 * (P * cc) /\ 2 * (P * cc) < 2 * (ic * c) + ic
  BY <1>1, RoundIs
<1> HIDE DEF b, c
<1>4. \A r \in Int, i \in Nat \ {0} : 0 < 2 * (i * r) + i => r >= 0
  OBVIOUS
<1>5. b \in Nat /\ c \in Nat
  BY <1>1, <1>2, <1>3, <1>4
<1>6. A \in Nat /\ B \in Nat /\ W \in Nat \ {0}
  OBVIOUS
<1>7. P * A \in Nat /\ P * B \in Nat /\ b * W \in Nat /\ c * W \in Nat
  BY <1>5, <1>6
<1>8. /\ ic * (2 * (ib * b) - ib) = 2 * (b * W) - W /\ ic * (2 * (ib * b) + ib) = 2 * (b * W) + W
      /\ ic * (2 * (P * cb)) = 2 * (P * B)
  BY <1>5
<1>9. /\ ib * (2 * (ic * c) - ic) = 2 * (c * W) - W /\ ib * (2 * (ic * c) + ic) = 2 * (c * W) + W
      /\ ib * (2 * (P * cc)) = 2 * (P * A)
  BY <1>5
<1>10. /\ 2 * (ib * b) - ib \in Int /\ 2 * (ib * b) + ib \in Int /\ 2 * (P * cb) \in Int
       /\ 2 * (ic * c) - ic \in Int /\ 2 * (ic * c) + ic \in Int /\ 2 * (P * cc) \in Int
  BY <1>5
<1>11. 2 * (b * W) - W <= 2 * (P * B) /\ 2 * (P * B) < 2 * (b * W) + W
  <2>1. ic * (2 * (ib * b) - ib) <= ic * (2 * (P * cb)) /\ ic * (2 * (P * cb)) < ic * (2 * (ib * b) + ib)
    BY <1>2, <1>10, MulLe, MulLt
  <2> QED BY <1>8, <2>1
<1>12. 2 * (c * W) - W <= 2 * (P * A) /\ 2 * (P * A) < 2 * (c * W) + W
  <2>1. ib * (2 * (ic * c) - ic) <= ib * (2 * (P * cc)) /\ ib * (2 * (P * cc)) < ib * (2 * (ic * c) + ic)
    BY <1>3, <1>10, MulLe, MulLt
  <2> QED BY <1>9, <2>1
<1> HIDE DEF A, B, W
<1>13. ASSUME NEW m \in Nat, NEW n \in Nat, m > n PROVE m * W >= n * W + W
  <2>1. W * (n + 1) <= W * m
    BY <1>6, <1>13, MulLe
  <2> QED BY <1>6, <2>1
<1>14. c > b => P * A > P * B
  BY <1>5, <1>6, <1>7, <1>11, <1>12, <1>13
<1>15. c < b => P * A < P * B
  BY <1>5, <1>6, <1>7, <1>11, <1>12, <1>13
<1>16. (P * A > P * B => A > B) /\ (P * A < P * B => A < B)
  <2>1. A <= B => P * A <= P * B
    BY <1>6, MulLe
  <2>2. B <= A => P * B <= P * A
    BY <1>6, MulLe
  <2> QED BY <1>6, <1>7, <2>1, <2>2
<1> QED BY <1>5, <1>6, <1>7, <1>11, <1>12, <1>14, <1>15, <1>16 DEF A, B, W, b, c

\* The change in CTR against its threshold: what rounding may hide of it.
LEMMA ChangeIs ==
  ASSUME NEW P \in Nat, P >= 1000, P % 10 = 0, NEW b \in Nat \ {0}, NEW c \in Nat
  PROVE  LET q == Learned!Round(P * (c - b), b) IN
         /\ q \in Int
         /\ q > 0 => c > b
         /\ q < 0 => c < b
         /\ 10 * q >= P => q > 0 /\ 10 * (P * c) >= 11 * (P * b) - 5 * b
         /\ ~(10 * q >= P) => 10 * (P * c) <= 11 * (P * b)
         /\ 10 * q < -P => q < 0 /\ 10 * (P * c) <= 9 * (P * b)
         /\ ~(10 * q < -P) => 10 * (P * c) >= 9 * (P * b) - 5 * b
<1> DEFINE q == Learned!Round(P * (c - b), b)
<1>1. PICK k \in Nat : P = 10 * k
  <2>1. P \div 10 \in Nat /\ P = 10 * (P \div 10)
    OBVIOUS
  <2> QED BY <2>1
<1>2. P * (c - b) = P * c - P * b /\ P * (c - b) \in Int /\ P * c \in Nat /\ P * b \in Nat
  OBVIOUS
<1>3. q \in Int /\ 2 * (b * q) - b <= 2 * (P * c - P * b) /\ 2 * (P * c - P * b) < 2 * (b * q) + b
  BY <1>2, RoundIs
<1> HIDE DEF q
<1>4. b * k \in Nat /\ P * b = 10 * (b * k) /\ b * q \in Int /\ k > 0
  BY <1>1, <1>3
<1>5. \A m \in Int : (q >= m => b * q >= b * m) /\ (q <= m => b * q <= b * m)
  BY <1>3, MulLe
<1>6. ASSUME q > 0 PROVE c > b
  <2>1. b * q >= b * 1 /\ b * 1 = b
    BY <1>3, <1>5, <1>6
  <2>2. P * c > P * b
    BY <1>2, <1>3, <1>4, <2>1
  <2>3. c <= b => P * c <= P * b
    BY MulLe
  <2> QED BY <1>2, <2>2, <2>3
<1>7. ASSUME q < 0 PROVE c < b
  <2>1. b * q <= b * (-1) /\ b * (-1) = -b
    BY <1>3, <1>5, <1>7
  <2>2. P * c < P * b
    BY <1>2, <1>3, <1>4, <2>1
  <2>3. b <= c => P * b <= P * c
    BY MulLe
  <2> QED BY <1>2, <2>2, <2>3
<1>8. ASSUME 10 * q >= P PROVE q > 0 /\ 10 * (P * c) >= 11 * (P * b) - 5 * b
  <2>1. q >= k
    BY <1>1, <1>3, <1>8
  <2>2. b * q >= b * k
    BY <1>1, <1>5, <2>1
  <2> QED BY <1>1, <1>2, <1>3, <1>4, <2>1, <2>2
<1>9. ASSUME ~(10 * q >= P) PROVE 10 * (P * c) <= 11 * (P * b)
  <2>1. q <= k - 1
    BY <1>1, <1>3, <1>9
  <2>2. b * q <= b * (k - 1) /\ b * (k - 1) = b * k - b
    BY <1>1, <1>5, <2>1
  <2> QED BY <1>1, <1>2, <1>3, <1>4, <2>2
<1>10. ASSUME 10 * q < -P PROVE q < 0 /\ 10 * (P * c) <= 9 * (P * b)
  <2>1. q <= -k - 1
    BY <1>1, <1>3, <1>10
  <2>2. b * q <= b * (-k - 1) /\ b * (-k - 1) = -(b * k) - b
    BY <1>1, <1>5, <2>1
  <2> QED BY <1>1, <1>2, <1>3, <1>4, <2>1, <2>2
<1>11. ASSUME ~(10 * q < -P) PROVE 10 * (P * c) >= 9 * (P * b) - 5 * b
  <2>1. q >= -k
    BY <1>1, <1>3, <1>11
  <2>2. b * q >= b * (-k) /\ b * (-k) = -(b * k)
    BY <1>1, <1>5, <2>1
  <2> QED BY <1>1, <1>2, <1>3, <1>4, <2>2
<1> QED BY <1>3, <1>6, <1>7, <1>8, <1>9, <1>10, <1>11 DEF q

\* The same for the CTRs before rounding, where the one before has 120 units or more.
LEMMA CtrsMoved ==
  ASSUME NEW P \in Nat, P >= 1000, NEW b \in Nat, NEW c \in Nat, NEW W \in Nat \ {0},
         NEW A \in Nat, NEW B \in Nat,
         2 * (b * W) - W <= 2 * (P * B), 2 * (P * B) <= 2 * (b * W) + W,
         2 * (c * W) - W <= 2 * (P * A), 2 * (P * A) <= 2 * (c * W) + W,
         P * B >= 120 * W
  PROVE  /\ 10 * (P * c) >= 11 * (P * b) - 5 * b => 100 * A >= 109 * B
         /\ 10 * (P * c) <= 11 * (P * b) => ~(100 * A >= 111 * B)
         /\ 10 * (P * c) <= 9 * (P * b) => 100 * A <= 91 * B
         /\ 10 * (P * c) >= 9 * (P * b) - 5 * b => ~(100 * A <= 89 * B)
<1> DEFINE X == c * W
           Y == b * W
           PA == P * A
           PB == P * B
           PX == P * X
           PY == P * Y
<1>1. {X, Y, PA, PB, PX, PY} \subseteq Nat
  OBVIOUS
<1>2. W * (P * c) = PX /\ W * (P * b) = PY /\ P * c \in Nat /\ P * b \in Nat
  OBVIOUS
<1>3. P * b >= 1000 * b
  <2>1. b * 1000 <= b * P
    BY MulLe
  <2> QED BY <2>1
<1>4. ASSUME NEW m \in Int, NEW n \in Int, m <= n PROVE W * m <= W * n
  BY <1>4, MulLe
<1>5. ASSUME NEW m \in Int, NEW n \in Int, P * m <= P * n PROVE m <= n
  <2>1. n < m => P * n < P * m
    BY MulLt
  <2> QED BY <1>5, <2>1
<1>6. ASSUME NEW m \in Int, NEW n \in Int, P * m < P * n PROVE m < n
  <2>1. n <= m => P * n <= P * m
    BY MulLe
  <2> QED BY <1>6, <2>1
<1>7. ASSUME NEW i \in Nat, NEW j \in Nat, i * (P * c) <= j * (P * b) PROVE i * X <= j * Y
  <2>1. W * (i * (P * c)) <= W * (j * (P * b))
    BY <1>2, <1>4, <1>7
  <2>2. W * (i * (P * c)) = P * (i * X) /\ W * (j * (P * b)) = P * (j * Y)
    OBVIOUS
  <2> QED BY <1>1, <1>5, <2>1, <2>2
<1>8. ASSUME NEW i \in Nat, NEW j \in Nat, i * (P * c) >= j * (P * b) PROVE i * X >= j * Y
  <2>1. W * (j * (P * b)) <= W * (i * (P * c))
    BY <1>2, <1>4, <1>8
  <2>2. W * (i * (P * c)) = P * (i * X) /\ W * (j * (P * b)) = P * (j * Y)
    OBVIOUS
  <2> QED BY <1>1, <1>5, <2>1, <2>2
<1>9. 2 * Y - W <= 2 * PB /\ 2 * PB <= 2 * Y + W /\ 2 * X - W <= 2 * PA /\ 2 * PA <= 2 * X + W
      /\ PB >= 120 * W
  OBVIOUS
<1>10. \A i, j \in Nat : P * (i * A) = i * PA /\ P * (j * B) = j * PB
  OBVIOUS
<1> HIDE DEF X, Y, PA, PB, PX, PY
<1>11. ASSUME 10 * (P * c) >= 11 * (P * b) - 5 * b PROVE 100 * A >= 109 * B
  <2>1. 2000 * (P * c) >= 2199 * (P * b)
    BY <1>2, <1>3, <1>11
  <2>2. 2000 * X >= 2199 * Y
    BY <1>8, <2>1
  <2>3. 100 * PA >= 109 * PB
    BY <1>1, <1>9, <2>2
  <2> QED BY <1>5, <1>10, <2>3
<1>12. ASSUME 10 * (P * c) <= 11 * (P * b) PROVE 100 * A < 111 * B
  <2>1. 10 * X <= 11 * Y
    BY <1>7, <1>12
  <2>2. 100 * PA < 111 * PB
    BY <1>1, <1>9, <2>1
  <2> QED BY <1>6, <1>10, <2>2
<1>13. ASSUME 10 * (P * c) <= 9 * (P * b) PROVE 100 * A <= 91 * B
  <2>1. 10 * X <= 9 * Y
    BY <1>7, <1>13
  <2>2. 100 * PA <= 91 * PB
    BY <1>1, <1>9, <2>1
  <2> QED BY <1>5, <1>10, <2>2
<1>14. ASSUME 10 * (P * c) >= 9 * (P * b) - 5 * b PROVE 89 * B < 100 * A
  <2>1. 2000 * (P * c) >= 1799 * (P * b)
    BY <1>2, <1>3, <1>14
  <2>2. 2000 * X >= 1799 * Y
    BY <1>8, <2>1
  <2>3. 89 * PB < 100 * PA
    BY <1>1, <1>9, <2>2
  <2> QED BY <1>6, <1>10, <2>3
<1> QED BY <1>11, <1>12, <1>13, <1>14

\* The days of a window.
ChangeWindows == UNION {{c.baseline, c.current} : c \in Changes}

\* What a sum is that Python's sum() makes of a window or of the events.
LEMMA SumOfIs ==
  ASSUME NEW S, IsFiniteSet(S), NEW w, \A x \in S : w[x] \in Int,
         NEW f, f = CHOOSE g : Adds(g, S, w)
  PROVE  /\ f[S] \in Int
         /\ (\A x \in S : w[x] >= 0) => f[S] >= 0
         /\ (\A x \in S : w[x] <= 0) => f[S] <= 0
         /\ \A x \in S : (\A y \in S : w[y] >= 0) /\ w[x] > 0 => f[S] > 0
<1>1. \E g : Adds(g, S, w)
  BY SumIsDefined
<1>2. Adds(f, S, w)
  <2> HIDE DEF Adds
  <2> QED BY <1>1
<1> HIDE DEF Adds
<1> QED BY <1>2, SumIs

LEMMA DaySums ==
  ASSUME NEW days \in ChangeWindows
  PROVE  /\ Len(days) \in Nat \ {0} /\ 5 * Len(days) < 2 * PRECISION
         /\ Learned!Cardinality(Learned!Known(days)) \in 0..Len(days)
         /\ Learned!Clicks(days) \in Nat /\ Learned!Impressions(days) \in Nat
         /\ Learned!Impressions(days) = 0 => Learned!Clicks(days) = 0
<1> DEFINE K == Learned!Known(days)
<1>1. /\ days \in Seq([status : {"observed", "expected_zero", "unknown"},
                       impressions : Nat, clicks : Nat])
      /\ 0 < Len(days) /\ 5 * Len(days) < 2 * PRECISION
      /\ \A d \in DOMAIN days : days[d].clicks <= days[d].impressions
  BY LearningAssumption DEF ChangeWindows
<1>2. Len(days) \in Nat /\ DOMAIN days = 1..Len(days)
  BY <1>1, LenProperties
<1>3. \A d \in DOMAIN days : days[d] \in [status : {"observed", "expected_zero", "unknown"},
                                          impressions : Nat, clicks : Nat]
  BY <1>1, <1>2, ElementOfSeq
<1>4. K \subseteq 1..Len(days)
  BY <1>2 DEF Learned!Known
<1>5. \A d \in K : /\ days[d].clicks \in Nat /\ days[d].impressions \in Nat
                   /\ days[d].clicks <= days[d].impressions
  BY <1>1, <1>3 DEF Learned!Known
<1> HIDE DEF K
<1>6. IsFiniteSet(K) /\ Cardinality(K) \in 0..Len(days)
  <2>1. ASSUME NEW n \in Nat PROVE IsFiniteSet(1..n) /\ Cardinality(1..n) = n
    BY FS_Interval
  <2>3. IsFiniteSet(1..Len(days)) /\ Cardinality(1..Len(days)) = Len(days)
    BY <1>2, <2>1
  <2>4. K \in SUBSET (1..Len(days))
    BY <1>4
  <2>2. IsFiniteSet(K) /\ Cardinality(K) <= Len(days)
    BY <2>3, <2>4, FS_Subset
  <2> QED BY <1>2, <2>2, FS_CardinalityType
<1> DEFINE wc == [d \in K |-> days[d].clicks]
           wi == [d \in K |-> days[d].impressions]
           fc == CHOOSE f : Adds(f, K, wc)
           fi == CHOOSE f : Adds(f, K, wi)
<1>7. Learned!Clicks(days) = fc[K]
  <2>1. \A f : Adds(f, K, wc) <=>
                 f = [s \in SUBSET K |-> IF s = {} THEN 0
                        ELSE days[CHOOSE x \in s : TRUE].clicks + f[s \ {CHOOSE x \in s : TRUE}]]
    <3>1. \A s \in SUBSET K : s # {} =>
             wc[CHOOSE x \in s : TRUE] = days[CHOOSE x \in s : TRUE].clicks
      OBVIOUS
    <3> HIDE DEF wc
    <3> QED BY <3>1 DEF Adds
  <2>2. fc = CHOOSE f : f = [s \in SUBSET K |-> IF s = {} THEN 0
                        ELSE days[CHOOSE x \in s : TRUE].clicks + f[s \ {CHOOSE x \in s : TRUE}]]
    <3> HIDE DEF wc, Adds
    <3> QED BY <2>1
  <2> HIDE DEF fc
  <2> QED BY <2>2, Zenon DEF Learned!Clicks, Learned!MapThenSumSet, Learned!MapThenFoldSet, K
<1>8. Learned!Impressions(days) = fi[K]
  <2>1. \A f : Adds(f, K, wi) <=>
                 f = [s \in SUBSET K |-> IF s = {} THEN 0
                        ELSE days[CHOOSE x \in s : TRUE].impressions + f[s \ {CHOOSE x \in s : TRUE}]]
    <3>1. \A s \in SUBSET K : s # {} =>
             wi[CHOOSE x \in s : TRUE] = days[CHOOSE x \in s : TRUE].impressions
      OBVIOUS
    <3> HIDE DEF wi
    <3> QED BY <3>1 DEF Adds
  <2>2. fi = CHOOSE f : f = [s \in SUBSET K |-> IF s = {} THEN 0
                        ELSE days[CHOOSE x \in s : TRUE].impressions + f[s \ {CHOOSE x \in s : TRUE}]]
    <3> HIDE DEF wi, Adds
    <3> QED BY <2>1
  <2> HIDE DEF fi
  <2> QED BY <2>2, Zenon DEF Learned!Impressions, Learned!MapThenSumSet, Learned!MapThenFoldSet, K
<1>9. /\ \A d \in K : wc[d] \in Nat /\ wi[d] \in Nat /\ wc[d] <= wi[d]
  BY <1>5
<1> HIDE DEF wc, wi
<1>10. \E f : f = fc
  OBVIOUS
<1>11. \E f : f = fi
  OBVIOUS
<1>12. fc[K] \in Int /\ fc[K] >= 0 /\ ((\A x \in K : wc[x] <= 0) => fc[K] <= 0)
  BY <1>6, <1>9, SumOfIs
<1>13. fi[K] \in Int /\ fi[K] >= 0 /\ \A x \in K : wi[x] > 0 => fi[K] > 0
  BY <1>6, <1>9, SumOfIs
<1> HIDE DEF fc, fi
<1>14. fi[K] = 0 => fc[K] = 0
  BY <1>9, <1>12, <1>13
<1>15. Learned!Cardinality(K) \in 0..Len(days)
  <2>1. \A S : Learned!Cardinality(S) = Cardinality(S)
    BY DEF Learned!Cardinality, Cardinality
  <2> QED BY <1>6, <2>1
<1> QED BY <1>1, <1>2, <1>7, <1>8, <1>12, <1>13, <1>14, <1>15 DEF K

LEMMA SummaryIs ==
  \A days : Learned!Summary(days) =
      [completeness |-> Learned!Round(PRECISION * Learned!Cardinality(Learned!Known(days)), Len(days)),
       ctr |-> IF Learned!Impressions(days) = 0 THEN 0
               ELSE Learned!Round(PRECISION * Learned!Clicks(days), Learned!Impressions(days))]
BY Zenon DEF Learned!Summary, Learned!Known, Learned!Impressions, Learned!Clicks

\* The share of known days is rounded too, but a window is too short for that
\* to hide a day.
LEMMA CompleteIs ==
  ASSUME NEW days \in ChangeWindows
  PROVE  10 * Learned!Summary(days).completeness >= 8 * PRECISION
            <=> 5 * Learned!Cardinality(Learned!Known(days)) >= 4 * Len(days)
<1> DEFINE n == Len(days)
           k == Learned!Cardinality(Learned!Known(days))
           q == Learned!Round(PRECISION * k, n)
<1>1. n \in Nat \ {0} /\ 5 * n < 2 * PRECISION /\ k \in 0..n
  BY DaySums
<1>2. PICK j \in Nat : PRECISION = 10 * j
  <2>1. PRECISION \div 10 \in Nat /\ PRECISION = 10 * (PRECISION \div 10)
    BY LearningAssumption
  <2> QED BY <2>1
<1>3. Learned!Summary(days).completeness = q
  BY SummaryIs
<1> HIDE DEF n, k
<1>4. k \in Nat /\ PRECISION * k = 10 * (j * k) /\ PRECISION * k \in Int /\ j * k \in Nat /\ j * n \in Nat
  BY <1>1, <1>2
<1>5. q \in Int /\ 2 * (n * q) - n <= 2 * (PRECISION * k) /\ 2 * (PRECISION * k) < 2 * (n * q) + n
  BY <1>1, <1>4, RoundIs
<1> HIDE DEF q
<1>6. n * q \in Int /\ n * (8 * j) = 8 * (j * n) /\ n * (8 * j - 1) = 8 * (j * n) - n
  BY <1>1, <1>5
<1>7. ASSUME q >= 8 * j PROVE 5 * k >= 4 * n
  <2>1. n * q >= 8 * (j * n)
    BY <1>1, <1>5, <1>6, <1>7, MulLe
  <2>2. 16 * (j * n) - n <= 20 * (j * k)
    BY <1>1, <1>4, <1>5, <1>6, <2>1
  <2>3. ASSUME 5 * k <= 4 * n - 1 PROVE FALSE
    <3>1. j * (5 * k) <= j * (4 * n - 1) /\ j * (5 * k) = 5 * (j * k)
          /\ j * (4 * n - 1) = 4 * (j * n) - j
      BY <1>1, <1>4, <2>3, MulLe
    <3> QED BY <1>1, <1>2, <1>4, <2>2, <3>1
  <2> QED BY <1>1, <1>4, <2>3
<1>8. ASSUME 5 * k >= 4 * n PROVE q >= 8 * j
  <2>1. ASSUME q <= 8 * j - 1 PROVE FALSE
    <3>1. n * q <= 8 * (j * n) - n
      BY <1>1, <1>5, <1>6, <2>1, MulLe
    <3>2. j * (4 * n) <= j * (5 * k) /\ j * (5 * k) = 5 * (j * k) /\ j * (4 * n) = 4 * (j * n)
      BY <1>1, <1>4, <1>8, MulLe
    <3> QED BY <1>1, <1>4, <1>5, <1>6, <3>1, <3>2
  <2> QED BY <1>5, <2>1
<1>9. 10 * q >= 8 * PRECISION <=> q >= 8 * j
  BY <1>2, <1>5
<1> QED BY <1>3, <1>7, <1>8, <1>9 DEF n, k

\* What the outcome of a change says of its days.
LEMMA VerdictIs ==
  ASSUME NEW c \in Changes
  PROVE  LET o == Learned!Outcome(Learned!Measurement(c))
             known == o.status \in {"success", "failure"} \/ o.band
         IN  /\ o.status = "success" => /\ Learned!Whole(c) /\ ~Learned!Fell(c, 0)
                                        /\ Learned!Legible(c) => Learned!Rose(c, 9)
             /\ o.status = "failure" => /\ Learned!Whole(c) /\ ~Learned!Rose(c, 0)
                                        /\ Learned!Legible(c) => Learned!Fell(c, 9)
             /\ o.band => /\ Learned!Whole(c)
                          /\ Learned!Legible(c) => ~Learned!Rose(c, 11) /\ ~Learned!Fell(c, 11)
             /\ known => /\ Learned!Whole(c) /\ o.relative \in Int
                         /\ o.relative > 0 => ~Learned!Fell(c, 0)
                         /\ o.relative < 0 => ~Learned!Rose(c, 0)
             /\ Learned!Whole(c) /\ Learned!Legible(c) => known
<1> DEFINE o == Learned!Outcome(Learned!Measurement(c))
           P == PRECISION
           cb == Learned!Clicks(c.baseline)
           ib == Learned!Impressions(c.baseline)
           cc == Learned!Clicks(c.current)
           ic == Learned!Impressions(c.current)
           b == Learned!Summary(c.baseline).ctr
           d == Learned!Summary(c.current).ctr
           q == Learned!Round(P * (d - b), b)
           ready == Learned!Measurement(c).ready
           W == ib * ic
           A == cc * ib
           B == cb * ic
<1>1. c.baseline \in ChangeWindows /\ c.current \in ChangeWindows
  BY DEF ChangeWindows
<1>2. /\ {cb, ib, cc, ic} \subseteq Nat /\ (ib = 0 => cb = 0) /\ (ic = 0 => cc = 0)
  BY <1>1, DaySums
<1>3. /\ b = IF ib = 0 THEN 0 ELSE Learned!Round(P * cb, ib)
      /\ d = IF ic = 0 THEN 0 ELSE Learned!Round(P * cc, ic)
  BY SummaryIs
<1>4. P \in Nat /\ P >= 1000 /\ P % 10 = 0 /\ None \notin Int
  BY LearningAssumption
<1>5. /\ Learned!Whole(c) <=> ready /\ cb > 0
      /\ Learned!Rose(c, 0) <=> ic > 0 /\ 100 * cc * ib >= (100 + 0) * cb * ic
      /\ Learned!Rose(c, 9) <=> ic > 0 /\ 100 * cc * ib >= (100 + 9) * cb * ic
      /\ Learned!Rose(c, 11) <=> ic > 0 /\ 100 * cc * ib >= (100 + 11) * cb * ic
      /\ Learned!Fell(c, 0) <=> 100 * cc * ib <= (100 - 0) * cb * ic
      /\ Learned!Fell(c, 9) <=> 100 * cc * ib <= (100 - 9) * cb * ic
      /\ Learned!Fell(c, 11) <=> 100 * cc * ib <= (100 - 11) * cb * ic
      /\ Learned!Legible(c) <=> P * cb >= 120 * ib
  <2>1. ready <=> /\ 10 * Learned!Summary(c.baseline).completeness >= 8 * PRECISION
                  /\ 10 * Learned!Summary(c.current).completeness >= 8 * PRECISION
    BY DEF Learned!Measurement
  <2>2. Learned!Whole(c) <=> ready /\ cb > 0
    BY <1>1, <2>1, CompleteIs DEF Learned!Whole
  <2> HIDE DEF ready
  <2> QED BY <2>2 DEF Learned!Rose, Learned!Fell, Learned!Legible
<1>6. Learned!Measurement(c).relative = IF b = 0 THEN None ELSE q
  BY DEF Learned!Measurement, Learned!Relative
<1> HIDE DEF ready, b, d, q, cb, ib, cc, ic, P
<1>7. {A, B, W} \subseteq Nat
  BY <1>2
<1>8. /\ 100 * cc * ib = 100 * A
      /\ (100 + 0) * cb * ic = 100 * B /\ (100 + 9) * cb * ic = 109 * B
      /\ (100 + 11) * cb * ic = 111 * B /\ (100 - 0) * cb * ic = 100 * B
      /\ (100 - 9) * cb * ic = 91 * B /\ (100 - 11) * cb * ic = 89 * B
  BY <1>2
<1> HIDE DEF A, B, W
<1>9. d \in Nat /\ b \in Nat
  <2>1. ASSUME NEW x \in Nat, NEW y \in Nat \ {0} PROVE Learned!Round(P * x, y) \in Nat
    <3>1. P \in Nat \ {0}
      BY <1>4
    <3> QED BY <3>1, CtrsAre
  <2> QED BY <1>2, <1>3, <2>1
<1>10. ASSUME b # 0 PROVE cb > 0 /\ ib > 0
  <2>1. ib # 0
    BY <1>3, <1>10
  <2>2. cb # 0
    <3>1. \A y \in Nat \ {0} : Learned!Round(P * 0, y) = 0
      <4> SUFFICES ASSUME NEW y \in Nat \ {0} PROVE Learned!Round(P * 0, y) = 0
        OBVIOUS
      <4>1. P * 0 = 0 /\ 0 \in Int
        BY <1>4
      <4>2. y \div (2 * y) = 0
        OBVIOUS
      <4> QED BY <4>1, <4>2 DEF Learned!Round
    <3> QED BY <1>2, <1>3, <1>10, <2>1, <3>1
  <2> QED BY <1>2, <2>1, <2>2
<1>11. ASSUME ib # 0, ic # 0
       PROVE  /\ W \in Nat \ {0}
              /\ 2 * (b * W) - W <= 2 * (P * B) /\ 2 * (P * B) <= 2 * (b * W) + W
              /\ 2 * (d * W) - W <= 2 * (P * A) /\ 2 * (P * A) <= 2 * (d * W) + W
              /\ d > b => A > B
              /\ d < b => A < B
  <2>1. /\ P \in Nat \ {0} /\ cb \in Nat /\ cc \in Nat /\ ib \in Nat \ {0} /\ ic \in Nat \ {0}
        /\ b = Learned!Round(P * cb, ib) /\ d = Learned!Round(P * cc, ic)
    BY <1>2, <1>3, <1>4, <1>11
  <2> QED BY <2>1, CtrsAre DEF W, A, B
<1>12. ASSUME b # 0
       PROVE  /\ q \in Int
              /\ q > 0 => d > b
              /\ q < 0 => d < b
              /\ 10 * q >= P => q > 0 /\ 10 * (P * d) >= 11 * (P * b) - 5 * b
              /\ ~(10 * q >= P) => 10 * (P * d) <= 11 * (P * b)
              /\ 10 * q < -P => q < 0 /\ 10 * (P * d) <= 9 * (P * b)
              /\ ~(10 * q < -P) => 10 * (P * d) >= 9 * (P * b) - 5 * b
  BY <1>4, <1>9, <1>12, ChangeIs DEF q
<1>13. ASSUME b # 0, q > 0 PROVE ~Learned!Fell(c, 0) /\ ic > 0
  <2>1. d > b
    BY <1>12, <1>13
  <2>2. ic # 0
    BY <1>3, <1>9, <2>1
  <2> QED BY <1>2, <1>5, <1>7, <1>8, <1>10, <1>11, <1>13, <2>1, <2>2
<1>14. ASSUME b # 0, q < 0 PROVE ~Learned!Rose(c, 0)
  <2>1. d < b
    BY <1>12, <1>14
  <2> QED BY <1>2, <1>5, <1>7, <1>8, <1>10, <1>11, <1>14, <2>1
<1>15. ASSUME b # 0, Learned!Legible(c), ic # 0
       PROVE  /\ 10 * (P * d) >= 11 * (P * b) - 5 * b => 100 * A >= 109 * B
              /\ 10 * (P * d) <= 11 * (P * b) => ~(100 * A >= 111 * B)
              /\ 10 * (P * d) <= 9 * (P * b) => 100 * A <= 91 * B
              /\ 10 * (P * d) >= 9 * (P * b) - 5 * b => ~(100 * A <= 89 * B)
  <2>1. P * B >= 120 * W
    <3>1. ic * (120 * ib) <= ic * (P * cb)
      BY <1>2, <1>4, <1>5, <1>15, MulLe
    <3>2. ic * (120 * ib) = 120 * W /\ ic * (P * cb) = P * B
      BY <1>2, <1>4 DEF W, B
    <3> QED BY <3>1, <3>2
  <2>2. ib # 0
    BY <1>2, <1>10, <1>15
  <2> QED BY <1>4, <1>7, <1>9, <1>11, <1>15, <2>1, <2>2, CtrsMoved
<1>16. ASSUME Learned!Whole(c), Learned!Legible(c) PROVE b # 0
  <2>1. P * cb >= 120 * ib /\ cb > 0 /\ ib # 0
    BY <1>2, <1>5, <1>16
  <2>2. 2 * (P * cb) < 2 * (ib * b) + ib
    BY <1>2, <1>3, <1>4, <2>1, RoundIs
  <2> QED BY <1>2, <1>4, <2>1, <2>2
<1>17. /\ o.status = "success" => ready /\ b # 0 /\ 10 * q >= P
       /\ o.status = "failure" => ready /\ b # 0 /\ 10 * q < -P
       /\ o.band => ready /\ b # 0 /\ ~(10 * q < -P) /\ ~(10 * q >= P)
       /\ b # 0 => o.relative = q
       /\ ready /\ b # 0 => o.status \in {"success", "failure"} \/ o.band
  BY <1>4, <1>6, <1>12 DEF Learned!Outcome, Learned!Regressed, Learned!Improved, ready, P
<1> HIDE DEF o
<1>18. ASSUME b # 0, ic = 0, ~(10 * q < -P) PROVE FALSE
  <2>1. d = 0 /\ P * d = 0
    BY <1>3, <1>4, <1>18
  <2>2. b * 1000 <= b * P /\ b * P = P * b
    BY <1>4, <1>9, MulLe
  <2> QED BY <1>4, <1>9, <1>12, <1>18, <2>1, <2>2
<1>19. ASSUME o.status = "success"
       PROVE  /\ Learned!Whole(c) /\ ~Learned!Fell(c, 0)
              /\ Learned!Legible(c) => Learned!Rose(c, 9)
  BY <1>2, <1>5, <1>8, <1>10, <1>12, <1>13, <1>15, <1>17, <1>19
<1>20. ASSUME o.status = "failure"
       PROVE  /\ Learned!Whole(c) /\ ~Learned!Rose(c, 0)
              /\ Learned!Legible(c) => Learned!Fell(c, 9)
  <2>1. ready /\ b # 0 /\ 10 * q < -P /\ q < 0
    BY <1>12, <1>17, <1>20
  <2>2. CASE ic # 0
    BY <1>5, <1>8, <1>10, <1>12, <1>14, <1>15, <2>1, <2>2
  <2>3. CASE ic = 0
    <3>1. A = 0 /\ B \in Nat
      BY <1>2, <1>7, <2>3 DEF A
    <3> QED BY <1>5, <1>8, <1>10, <1>14, <2>1, <3>1
  <2> QED BY <2>2, <2>3
<1>21. ASSUME o.band
       PROVE  /\ Learned!Whole(c)
              /\ Learned!Legible(c) => ~Learned!Rose(c, 11) /\ ~Learned!Fell(c, 11)
  BY <1>5, <1>8, <1>10, <1>12, <1>15, <1>17, <1>18, <1>21
<1>22. ASSUME o.status \in {"success", "failure"} \/ o.band
       PROVE  /\ Learned!Whole(c) /\ o.relative \in Int
              /\ o.relative > 0 => ~Learned!Fell(c, 0)
              /\ o.relative < 0 => ~Learned!Rose(c, 0)
  BY <1>5, <1>10, <1>12, <1>13, <1>14, <1>17, <1>22
<1>23. Learned!Whole(c) /\ Learned!Legible(c) => o.status \in {"success", "failure"} \/ o.band
  BY <1>5, <1>16, <1>17
<1> QED BY <1>19, <1>20, <1>21, <1>22, <1>23 DEF o

LEMMA VerdictPromise == LearningInv => Learned!VerdictIsTrue
<1> SUFFICES ASSUME LearningInv, NEW a \in Actions, outcome[a] # None
             PROVE  LET c == change[a] IN
                    /\ outcome[a].status = "success" =>
                          /\ Learned!Whole(c) /\ ~Learned!Fell(c, 0)
                          /\ Learned!Legible(c) => Learned!Rose(c, 9)
                    /\ outcome[a].status = "failure" =>
                          /\ Learned!Whole(c) /\ ~Learned!Rose(c, 0)
                          /\ Learned!Legible(c) => Learned!Fell(c, 9)
                    /\ outcome[a].band =>
                          /\ Learned!Whole(c)
                          /\ Learned!Legible(c) => ~Learned!Rose(c, 11) /\ ~Learned!Fell(c, 11)
  BY DEF Learned!VerdictIsTrue
<1>1. change[a] \in Changes /\ outcome[a] = Learned!Outcome(Learned!Measurement(change[a]))
  BY DEF LearningInv, Learned!TypeOK
<1> QED BY <1>1, VerdictIs

\* What a tenant's lesson is made of: its settled changes for single queries,
\* and of those the ones with a verdict or within the noise band.
LEMMA EventsAre ==
  ASSUME LearningInv, NEW t
  PROVE  LET own == {a \in Actions : Owner[a] = t /\ outcome[a] # None /\ change[a].level = "query"}
             M == Learned!Measured(t)
         IN  /\ Learned!Events(t) = own /\ M \subseteq own /\ IsFiniteSet(own) /\ IsFiniteSet(M)
             /\ \A a \in M : /\ Learned!Whole(change[a]) /\ feedback[a].relative \in Int
                             /\ feedback[a].relative > 0 => ~Learned!Fell(change[a], 0)
                             /\ feedback[a].relative < 0 => ~Learned!Rose(change[a], 0)
             /\ \A a \in own : Learned!Whole(change[a]) /\ Learned!Legible(change[a]) => a \in M
<1> DEFINE own == {a \in Actions : Owner[a] = t /\ outcome[a] # None /\ change[a].level = "query"}
           M == Learned!Measured(t)
<1>1. ASSUME NEW a \in Actions
      PROVE  /\ change[a] \in Changes /\ change[a].level \in {"page", "query"}
             /\ outcome[a] # None => outcome[a] = Learned!Outcome(Learned!Measurement(change[a]))
             /\ feedback[a] = IF change[a].level = "page" THEN None ELSE outcome[a]
  BY LearningAssumption DEF LearningInv, Learned!TypeOK, Learned!Feedback
<1>2. \A a \in Actions : feedback[a] # None <=> outcome[a] # None /\ change[a].level = "query"
  BY <1>1
<1>3. Learned!Events(t) = own
  BY <1>2 DEF Learned!Events
<1>4. M \subseteq own
  BY <1>3 DEF Learned!Measured
<1>5. IsFiniteSet(own) /\ IsFiniteSet(M)
  <2>1. IsFiniteSet(Actions) /\ own \subseteq Actions /\ M \subseteq Actions
    BY <1>4, LearningAssumption
  <2> QED BY <2>1, FS_Subset
<1>6. ASSUME NEW a \in own
      PROVE  /\ feedback[a] = Learned!Outcome(Learned!Measurement(change[a]))
             /\ change[a] \in Changes
             /\ a \in M <=> feedback[a].status \in {"success", "failure"} \/ feedback[a].band
  BY <1>1, <1>3 DEF Learned!Measured
<1>7. ASSUME NEW a \in M
      PROVE  /\ Learned!Whole(change[a]) /\ feedback[a].relative \in Int
             /\ feedback[a].relative > 0 => ~Learned!Fell(change[a], 0)
             /\ feedback[a].relative < 0 => ~Learned!Rose(change[a], 0)
  BY <1>4, <1>6, VerdictIs
<1>8. ASSUME NEW a \in own, Learned!Whole(change[a]), Learned!Legible(change[a])
      PROVE  a \in M
  BY <1>6, <1>8, VerdictIs
<1> QED BY <1>3, <1>4, <1>5, <1>7, <1>8

\* The sum of the changes in CTR is up only where one of them is, and down so.
LEMMA LessonSum ==
  ASSUME LearningInv, NEW t
  PROVE  LET M == Learned!Measured(t)
             sum == Learned!Performance(t).sum
         IN  /\ sum \in Int
             /\ sum > 0 => \E a \in M : feedback[a].relative > 0
             /\ sum < 0 => \E a \in M : feedback[a].relative < 0
<1> DEFINE M == Learned!Measured(t)
           w == [a \in M |-> feedback[a].relative]
           f == CHOOSE g : Adds(g, M, w)
<1>1. IsFiniteSet(M) /\ \A a \in M : feedback[a].relative \in Int
  BY EventsAre
<1> HIDE DEF M
<1>2. Learned!Performance(t).sum = f[M]
  <2>1. \A g : Adds(g, M, w) <=>
                 g = [s \in SUBSET M |-> IF s = {} THEN 0
                        ELSE feedback[CHOOSE x \in s : TRUE].relative + g[s \ {CHOOSE x \in s : TRUE}]]
    <3>1. \A s \in SUBSET M : s # {} =>
             w[CHOOSE x \in s : TRUE] = feedback[CHOOSE x \in s : TRUE].relative
      OBVIOUS
    <3> HIDE DEF w
    <3> QED BY <3>1 DEF Adds
  <2>2. f = CHOOSE g : g = [s \in SUBSET M |-> IF s = {} THEN 0
                        ELSE feedback[CHOOSE x \in s : TRUE].relative + g[s \ {CHOOSE x \in s : TRUE}]]
    <3> HIDE DEF w, Adds
    <3> QED BY <2>1
  <2> HIDE DEF f
  <2>3. Learned!MapThenSumSet(LAMBDA a : feedback[a].relative, M) = f[M]
    BY <2>2, Zenon DEF Learned!MapThenSumSet, Learned!MapThenFoldSet
  <2> QED BY <2>3 DEF Learned!Performance, M
<1>3. \A a \in M : w[a] \in Int /\ w[a] = feedback[a].relative
  BY <1>1
<1> HIDE DEF w
<1>4. /\ f[M] \in Int
      /\ (\A a \in M : w[a] >= 0) => f[M] >= 0
      /\ (\A a \in M : w[a] <= 0) => f[M] <= 0
  BY <1>1, <1>3, SumOfIs
<1> HIDE DEF f
<1> QED BY <1>2, <1>3, <1>4 DEF M

LEMMA LessonPromise == LearningInv => Learned!LessonIsTrue
<1> SUFFICES ASSUME LearningInv, NEW t \in {Owner[a] : a \in Actions}, Learned!Adjustment(t) # 0
             PROVE  LET own == {a \in Actions : Owner[a] = t /\ outcome[a] # None
                                                /\ change[a].level = "query"}
                        whole == {a \in own : Learned!Whole(change[a])}
                        adjustment == Learned!Adjustment(t)
                    IN  /\ 10 * adjustment \in -PRECISION..PRECISION
                        /\ Learned!Cardinality(whole) >= MIN_SAMPLES
                        /\ 2 * Learned!Cardinality(whole) >= Learned!Cardinality(own)
                        /\ adjustment > 0 => \E a \in whole : ~Learned!Fell(change[a], 0)
                        /\ adjustment < 0 => \E a \in whole : ~Learned!Rose(change[a], 0)
                        /\ {a \in whole : Learned!Legible(change[a])} \subseteq Learned!Measured(t)
  BY DEF Learned!LessonIsTrue
<1> DEFINE own == {a \in Actions : Owner[a] = t /\ outcome[a] # None /\ change[a].level = "query"}
           whole == {a \in own : Learned!Whole(change[a])}
           M == Learned!Measured(t)
           p == Learned!Performance(t)
           total == Cardinality(own)
           usable == Cardinality(M)
           sum == p.sum
           raw == Learned!Round(sum * p.confidence.part, 4 * p.usable * p.confidence.whole)
           most == PRECISION \div 10
           adjustment == Learned!Adjustment(t)
<1>1. /\ Learned!Events(t) = own /\ M \subseteq own /\ IsFiniteSet(own) /\ IsFiniteSet(M)
      /\ \A a \in M : /\ Learned!Whole(change[a]) /\ feedback[a].relative \in Int
                      /\ feedback[a].relative > 0 => ~Learned!Fell(change[a], 0)
                      /\ feedback[a].relative < 0 => ~Learned!Rose(change[a], 0)
      /\ \A a \in own : Learned!Whole(change[a]) /\ Learned!Legible(change[a]) => a \in M
  BY EventsAre
<1>2. /\ sum \in Int
      /\ sum > 0 => \E a \in M : feedback[a].relative > 0
      /\ sum < 0 => \E a \in M : feedback[a].relative < 0
  BY LessonSum
<1>3. M \subseteq whole /\ IsFiniteSet(whole)
  <2>1. M \subseteq whole /\ whole \subseteq own
    BY <1>1
  <2> HIDE DEF whole, own, M
  <2> QED BY <1>1, <2>1, FS_Subset
<1>4. usable \in Nat /\ total \in Nat /\ Cardinality(whole) \in Nat /\ usable <= Cardinality(whole)
  <2> HIDE DEF whole, own, M
  <2> QED BY <1>1, <1>3, FS_Subset, FS_CardinalityType
<1>5. \A S : Learned!Cardinality(S) = Cardinality(S)
  BY DEF Learned!Cardinality, Cardinality
<1>6. /\ p.established <=> usable >= MIN_SAMPLES
      /\ p.total = total /\ p.usable = usable
      /\ p.confidence.part = (IF usable < MIN_SAMPLES THEN usable ELSE MIN_SAMPLES) * usable
      /\ p.confidence.whole = MIN_SAMPLES * total
  <2> HIDE DEF own, M
  <2> QED BY <1>1, <1>5 DEF Learned!Performance, Learned!Confidence, M
<1>7. adjustment = IF Learned!Events(t) = {} \/ ~Learned!Eligible(p)
                      \/ Learned!Direction(p) \notin {"positive", "negative"} THEN 0
                   ELSE IF raw > most THEN most ELSE IF raw < -most THEN -most ELSE raw
  <2> HIDE DEF sum
  <2> QED BY DEF Learned!Adjustment, sum
<1>8. /\ Learned!Eligible(p)
      /\ adjustment = IF raw > most THEN most ELSE IF raw < -most THEN -most ELSE raw
  <2> HIDE DEF p, raw, most
  <2> QED BY <1>7
<1>9. /\ usable >= MIN_SAMPLES /\ total >= MIN_SAMPLES
      /\ 2 * p.confidence.part >= p.confidence.whole
  BY <1>6, <1>8 DEF Learned!Eligible
<1> HIDE DEF usable, total, p, sum, adjustment, own, M, whole
<1>10. MIN_SAMPLES \in Nat \ {0} /\ p.confidence.part = MIN_SAMPLES * usable
       /\ p.confidence.whole = MIN_SAMPLES * total
  BY <1>4, <1>6, <1>9, LearningAssumption
<1>11. 2 * usable >= total
  <2>1. ASSUME 2 * usable < total PROVE FALSE
    <3>1. MIN_SAMPLES * (2 * usable) < MIN_SAMPLES * total
      BY <1>4, <1>10, <2>1, MulLt
    <3>2. MIN_SAMPLES * (2 * usable) = 2 * (MIN_SAMPLES * usable)
      BY <1>4, <1>10
    <3> QED BY <1>4, <1>9, <1>10, <3>1, <3>2
  <2> QED BY <1>4, <2>1
<1>12. raw \in Int /\ (raw > 0 => sum > 0) /\ (raw < 0 => sum < 0)
  <2> DEFINE part == p.confidence.part
             k == 4 * p.usable * p.confidence.whole
  <2>1. part \in Nat \ {0} /\ k \in Nat \ {0}
    <3>1. usable \in Nat \ {0} /\ total \in Nat \ {0}
      BY <1>4, <1>9, <1>10
    <3>2. part \in Nat \ {0} /\ p.confidence.whole \in Nat \ {0}
      BY <1>10, <3>1
    <3> QED BY <1>6, <3>1, <3>2
  <2> HIDE DEF part, k
  <2>2. sum * part \in Int /\ (sum <= 0 => sum * part <= 0) /\ (sum >= 0 => sum * part >= 0)
    BY <1>2, <2>1
  <2>3. \A x \in Int : LET r == Learned!Round(x, k) IN
           /\ r \in Int /\ 2 * (k * r) - k <= 2 * x /\ 2 * x < 2 * (k * r) + k
    BY <2>1, RoundIs
  <2>4. ASSUME NEW x \in Int
        PROVE  LET r == Learned!Round(x, k) IN
               r \in Int /\ (x <= 0 => r <= 0) /\ (x >= 0 => r >= 0)
    <3> DEFINE r == Learned!Round(x, k)
    <3>1. r \in Int /\ 2 * (k * r) - k <= 2 * x /\ 2 * x < 2 * (k * r) + k
      BY <2>3
    <3> HIDE DEF r
    <3>2. ASSUME r >= 1 PROVE x > 0
      <4>1. k * 1 <= k * r
        BY <2>1, <3>1, <3>2, MulLe
      <4> QED BY <2>1, <3>1, <4>1
    <3>3. ASSUME r <= -1 PROVE x < 0
      <4>1. k * r <= k * (-1)
        BY <2>1, <3>1, <3>3, MulLe
      <4> QED BY <2>1, <3>1, <4>1
    <3> QED BY <3>1, <3>2, <3>3 DEF r
  <2>5. raw = Learned!Round(sum * part, k)
    BY DEF part, k
  <2> HIDE DEF raw
  <2> QED BY <1>2, <2>2, <2>4, <2>5
<1> HIDE DEF raw
<1>13. most \in Nat \ {0} /\ PRECISION \in Nat /\ 10 * most = PRECISION
  BY LearningAssumption
<1> HIDE DEF most
<1>14. /\ adjustment \in -most..most
       /\ adjustment > 0 => raw > 0
       /\ adjustment < 0 => raw < 0
  BY <1>8, <1>12, <1>13
<1>15. 10 * adjustment \in -PRECISION..PRECISION
  BY <1>13, <1>14
<1>16. /\ Learned!Cardinality(whole) >= MIN_SAMPLES
       /\ 2 * Learned!Cardinality(whole) >= Learned!Cardinality(own)
  BY <1>4, <1>5, <1>9, <1>10, <1>11 DEF total
<1>17. /\ adjustment > 0 => \E a \in whole : ~Learned!Fell(change[a], 0)
       /\ adjustment < 0 => \E a \in whole : ~Learned!Rose(change[a], 0)
  BY <1>1, <1>2, <1>3, <1>12, <1>14
<1>18. {a \in whole : Learned!Legible(change[a])} \subseteq M
  BY <1>1 DEF whole
<1> QED BY <1>15, <1>16, <1>17, <1>18 DEF adjustment, own, whole, M

LEMMA LearningPromise ==
  LearningInv => Learned!TypeOK /\ Learned!VerdictIsTrue /\ Learned!LessonIsTrue
BY VerdictPromise, LessonPromise DEF LearningInv
-----------------------------------------------------------------------------
(* The reading of a site (SiteCrawl). A sitemap that counts as read has its  *)
(* own pages among the listed ones, for it was the first of its tree to      *)
(* answer; an address that was asked and is passed over has nothing, unless  *)
(* it was silent or turned the scan away; and a page Google is kept from is  *)
(* told of as such wherever it stands in the queue that was read.            *)
CrawlSites == [holds : [Sitemaps -> Crawl!Content], closed : SUBSET (Pages \ {Home}),
               shut : SUBSET (Pages \ {Home})]
Phases == {"robots", "start", "tree", "queue", "pages", "done"}
NamedMaps == {<<>>} \cup {<<s>> : s \in Sitemaps \cup {Crawl!Elsewhere}}

CrawlTypes ==
    /\ site \in CrawlSites /\ phase \in Phases
    /\ robots \in [answer : Crawl!RobotsAnswer, names : NamedMaps]
    /\ starts \in Seq(Sitemaps) /\ pending \in Seq(Sitemaps) /\ seen \subseteq Sitemaps
    /\ opened \in 0..MAX_CHILD_SITEMAPS
    /\ tree \in [found : BOOLEAN, silent : BOOLEAN]
    /\ {guessing, silent, uncertain, rich, capped, late, turnedAway} \subseteq BOOLEAN
    /\ sitemapUrls \in Seq(Sitemaps) /\ sitemapPages \in Seq(Pages)
    /\ queue \in Seq(Pages) /\ position \in 0..Len(queue)
    /\ pages \in [DOMAIN pages -> Crawl!Verdict] /\ DOMAIN pages \subseteq Pages

\* What a sitemap lists is among the listed pages.
ListedOf(s) == \A p \in Pages : Crawl!Lists(s, p) => p \in Crawl!Range(sitemapPages)
EmptyAt(S) == \A s \in S : site.holds[s] = Crawl!Nothing

MapsHold ==
    /\ \A s \in Crawl!Range(sitemapUrls) : ListedOf(s)
    /\ \A i, j \in DOMAIN sitemapPages : sitemapPages[i] = sitemapPages[j] => i = j
    /\ Home \notin Crawl!Range(sitemapPages)

\* The first of a tree is still to be asked, or has answered, or is passed over.
TreeHolds ==
    /\ phase \in {"robots", "start"} => seen = {} /\ ~tree.found
    /\ phase = "tree" =>
        /\ starts # <<>>
        /\ \/ pending = <<Head(starts)>> /\ seen = {} /\ ~tree.found
           \/ /\ pending = <<>> /\ ~tree.found
              /\ tree.silent \/ turnedAway \/ EmptyAt({Head(starts)})
           \/ tree.found /\ ListedOf(Head(starts))

\* Nothing is at the addresses that were passed over.
Passed ==
    /\ phase = "robots" => ~guessing
    /\ phase \in {"start", "tree"} /\ ~silent /\ ~turnedAway /\ sitemapUrls = <<>> =>
          IF guessing
          THEN /\ EmptyAt(Crawl!Range(robots.names))
               /\ EmptyAt(Crawl!Range(COMMON_SITEMAPS) \ Crawl!Range(starts))
          ELSE EmptyAt(Crawl!Range(robots.names) \ Crawl!Range(starts))
    /\ phase \in {"queue", "pages", "done"} /\ ~uncertain /\ ~turnedAway /\ sitemapUrls = <<>> =>
          EmptyAt(Crawl!Range(robots.names) \cup Crawl!Range(COMMON_SITEMAPS))

PagesHold ==
    /\ phase \notin {"pages", "done"} => queue = <<>> /\ position = 0 /\ DOMAIN pages = {}
    /\ phase \in {"pages", "done"} => Crawl!Range(sitemapPages) \subseteq Crawl!Range(queue)
    /\ \A i, j \in DOMAIN queue : queue[i] = queue[j] => i = j
    /\ Len(queue) <= MAX_QUEUE + Len(sitemapPages) /\ Cardinality(DOMAIN pages) <= MAX_PAGES
    /\ \A p \in DOMAIN pages : Crawl!Closed(p) => pages[p] = "blocked"
    /\ \A i \in 1..position : Crawl!Closed(queue[i]) => queue[i] \in DOMAIN pages
    /\ phase = "done" /\ ~capped => position = Len(queue)

CrawlInv == CrawlTypes /\ MapsHold /\ TreeHolds /\ Passed /\ PagesHold

LEMMA RangeIs ==
  ASSUME NEW S, NEW s \in Seq(S)
  PROVE  /\ Crawl!Range(s) \subseteq S
         /\ \A e \in S : Crawl!Range(Append(s, e)) = Crawl!Range(s) \cup {e}
         /\ s # <<>> => /\ Head(s) \in S /\ Tail(s) \in Seq(S)
                        /\ Crawl!Range(s) = Crawl!Range(Tail(s)) \cup {Head(s)}
         /\ Crawl!Range(<<>>) = {}
<1>1. Crawl!Range(s) \subseteq S /\ Crawl!Range(<<>>) = {}
  BY DEF Crawl!Range
<1>2. ASSUME NEW e \in S PROVE Crawl!Range(Append(s, e)) = Crawl!Range(s) \cup {e}
  <2> DEFINE t == Append(s, e)  n == Len(s)
  <2>1. /\ n \in Nat /\ DOMAIN s = 1..n /\ DOMAIN t = 1..(n + 1) /\ t[n + 1] = e
        /\ \A i \in 1..n : t[i] = s[i]
    OBVIOUS
  <2> HIDE DEF t, n
  <2>2. \A i \in 1..(n + 1) : i \in 1..n \/ i = n + 1
    BY <2>1
  <2>3. n + 1 \in 1..(n + 1) /\ 1..n \subseteq 1..(n + 1)
    BY <2>1
  <2>4. Crawl!Range(t) = Crawl!Range(s) \cup {e}
    BY <2>1, <2>2, <2>3 DEF Crawl!Range
  <2> QED BY <2>4 DEF t
<1>3. ASSUME s # <<>>
      PROVE  /\ Head(s) \in S /\ Tail(s) \in Seq(S)
             /\ Crawl!Range(s) = Crawl!Range(Tail(s)) \cup {Head(s)}
  <2> DEFINE t == Tail(s)  n == Len(s)  h == Head(s)
  <2>1. /\ n \in Nat \ {0} /\ DOMAIN s = 1..n /\ DOMAIN t = 1..(n - 1) /\ h = s[1]
        /\ \A i \in 1..(n - 1) : t[i] = s[i + 1]
        /\ h \in S /\ t \in Seq(S)
    BY <1>3
  <2> HIDE DEF t, n, h
  <2>2. 1 \in 1..n /\ \A i \in 1..(n - 1) : i + 1 \in 1..n
    BY <2>1
  <2>3. \A i \in 1..n : i = 1 \/ (i - 1 \in 1..(n - 1) /\ (i - 1) + 1 = i)
    BY <2>1
  <2>4. ASSUME NEW i \in 1..n PROVE s[i] \in Crawl!Range(t) \cup {h}
    <3>1. CASE i = 1
      BY <3>1, <2>1
    <3>2. CASE i # 1
      <4>1. i - 1 \in 1..(n - 1) /\ t[i - 1] = s[i]
        BY <3>2, <2>1, <2>3
      <4> QED BY <4>1, <2>1 DEF Crawl!Range
    <3> QED BY <3>1, <3>2
  <2>5. Crawl!Range(s) \subseteq Crawl!Range(t) \cup {h}
    BY <2>1, <2>4 DEF Crawl!Range
  <2>6. Crawl!Range(t) \cup {h} \subseteq Crawl!Range(s)
    BY <2>1, <2>2 DEF Crawl!Range
  <2> QED BY <2>1, <2>5, <2>6 DEF t, h
<1> QED BY <1>1, <1>2, <1>3

\* What may be at a sitemap's address.
LEMMA ContentIs ==
  ASSUME CrawlTypes, NEW url \in Sitemaps
  PROVE  /\ site.holds[url] # Crawl!Nothing =>
               \/ site.holds[url].kind = "list" /\ site.holds[url].of \in Pages \ {Home}
               \/ site.holds[url].kind = "index" /\ site.holds[url].of \in Sitemaps
         /\ \A p \in Pages : Crawl!Lists(url, p) =>
               site.holds[url].kind = "list" /\ site.holds[url].of = p
         /\ site.holds[url] = Crawl!Nothing => \A p \in Pages : ~Crawl!Lists(url, p)
<1> DEFINE content == site.holds[url]
<1>1. content \in Crawl!Content
  BY DEF CrawlTypes, CrawlSites
<1> HIDE DEF content
<1>2. content # Crawl!Nothing =>
         \/ content.kind = "list" /\ content.of \in Pages \ {Home}
         \/ content.kind = "index" /\ content.of \in Sitemaps
  BY <1>1 DEF Crawl!Content
<1>3. \A p \in Pages : content = [kind |-> "list", of |-> p] => content.kind = "list" /\ content.of = p
  OBVIOUS
<1>4. content = Crawl!Nothing => content.kind = "nothing"
  BY DEF Crawl!Nothing
<1> QED BY <1>2, <1>3, <1>4 DEF content, Crawl!Lists

LEMMA CrawlStart == Crawl!Init => CrawlInv
<1> SUFFICES ASSUME Crawl!Init PROVE CrawlInv
  OBVIOUS
<1>1. site \in CrawlSites
  BY DEF Crawl!Init, CrawlSites
<1>2. robots \in [answer : Crawl!RobotsAnswer, names : NamedMaps]
  BY DEF Crawl!Init, Crawl!RobotsAnswer, NamedMaps
<1>3. /\ starts = <<>> /\ pending = <<>> /\ seen = {} /\ opened = 0 /\ phase = "robots"
      /\ guessing = FALSE /\ silent = FALSE /\ uncertain = FALSE /\ rich = FALSE
      /\ capped = FALSE /\ late = FALSE /\ turnedAway = FALSE
      /\ tree = [found |-> FALSE, silent |-> FALSE]
      /\ sitemapUrls = <<>> /\ sitemapPages = <<>> /\ queue = <<>> /\ position = 0
      /\ pages = [p \in {} |-> "out"]
  BY DEF Crawl!Init
<1>4. MAX_CHILD_SITEMAPS \in Nat /\ MAX_PAGES \in Nat /\ MAX_QUEUE \in Nat
  BY CrawlAssumption
<1>5. CrawlTypes
  <2>1. opened \in 0..MAX_CHILD_SITEMAPS /\ position \in 0..Len(queue)
    BY <1>3, <1>4
  <2>2. {guessing, silent, uncertain, rich, capped, late, turnedAway} \subseteq BOOLEAN
    BY <1>3
  <2>3. tree \in [found : BOOLEAN, silent : BOOLEAN]
    BY <1>3
  <2>4. pages \in [DOMAIN pages -> Crawl!Verdict] /\ DOMAIN pages \subseteq Pages
    BY <1>3
  <2>5. /\ starts \in Seq(Sitemaps) /\ pending \in Seq(Sitemaps) /\ seen \subseteq Sitemaps
        /\ sitemapUrls \in Seq(Sitemaps) /\ sitemapPages \in Seq(Pages) /\ queue \in Seq(Pages)
    BY <1>3
  <2>6. phase \in Phases
    BY <1>3 DEF Phases
  <2> QED BY <1>1, <1>2, <2>1, <2>2, <2>3, <2>4, <2>5, <2>6 DEF CrawlTypes
<1>6. MapsHold
  BY <1>3 DEF MapsHold, Crawl!Range
<1>7. TreeHolds /\ Passed
  BY <1>3 DEF TreeHolds, Passed
<1>8. PagesHold
  <2>1. DOMAIN pages = {} /\ Cardinality(DOMAIN pages) = 0 /\ Len(queue) = 0
    BY <1>3, FS_EmptySet
  <2>2. Cardinality(DOMAIN pages) <= MAX_PAGES /\ Len(queue) <= MAX_QUEUE + Len(sitemapPages)
    BY <1>3, <1>4, <2>1
  <2> QED BY <1>3, <2>1, <2>2 DEF PagesHold
<1> QED BY <1>5, <1>6, <1>7, <1>8 DEF CrawlInv

\* Before the pages are read nothing is queued.
LEMMA PagesBefore ==
  ASSUME CrawlInv, phase \notin {"pages", "done"}, phase' \notin {"pages", "done"},
         UNCHANGED <<queue, position, pages>>, Len(sitemapPages') \in Nat
  PROVE  PagesHold'
<1>1. queue = <<>> /\ position = 0 /\ DOMAIN pages = {} /\ Cardinality(DOMAIN pages) <= MAX_PAGES
  BY DEF CrawlInv, PagesHold
<1>2. Len(queue') <= MAX_QUEUE + Len(sitemapPages')
  <2>1. MAX_QUEUE \in Nat /\ Len(queue') = 0
    BY <1>1, CrawlAssumption
  <2> QED BY <2>1
<1> QED BY <1>1, <1>2 DEF PagesHold

LEMMA RobotsRead ==
  ASSUME CrawlInv, Crawl!ReadRobots
  PROVE  CrawlInv'
<1>1. PICK reply \in Crawl!RobotsAnswer, names \in NamedMaps :
         robots' = [answer |-> reply, names |-> names]
  BY DEF Crawl!ReadRobots, NamedMaps
<1>2. /\ phase = "robots" /\ phase' = "start" /\ starts' = Crawl!OfThisSite(names)
      /\ silent' = (Len(starts') < Len(names))
      /\ UNCHANGED <<site, guessing, pending, seen, opened, tree, sitemapUrls, sitemapPages,
                     uncertain, rich, queue, position, pages, capped, late, turnedAway>>
  BY <1>1 DEF Crawl!ReadRobots, Crawl!found, Crawl!reading
<1>3. robots' \in [answer : Crawl!RobotsAnswer, names : NamedMaps] /\ robots'.names = names
  BY <1>1
<1>4. \/ names = <<>> /\ starts' = <<>>
      \/ names = <<Crawl!Elsewhere>> /\ starts' = <<>> /\ silent'
      \/ \E s \in Sitemaps : names = <<s>> /\ starts' = <<s>>
  <2>1. <<Crawl!Elsewhere>> # <<>> /\ Len(<<Crawl!Elsewhere>>) = 1 /\ Len(<<>>) = 0
    OBVIOUS
  <2>2. names = <<>> \/ names = <<Crawl!Elsewhere>> \/ \E s \in Sitemaps : names = <<s>>
    BY DEF NamedMaps
  <2>3. ASSUME NEW s \in Sitemaps PROVE <<s>> # <<Crawl!Elsewhere>>
    BY CrawlAssumption DEF Crawl!Elsewhere
  <2>4. names = <<>> => starts' = <<>>
    BY <1>2, <2>1 DEF Crawl!OfThisSite
  <2>5. names = <<Crawl!Elsewhere>> => starts' = <<>>
    BY <1>2 DEF Crawl!OfThisSite
  <2>6. ASSUME names = <<Crawl!Elsewhere>> PROVE silent'
    <3>1. Len(starts') = 0 /\ Len(names) = 1
      BY <2>1, <2>5, <2>6
    <3>2. Len(starts') < Len(names)
      BY <3>1
    <3> QED BY <1>2, <3>2
  <2>7. ASSUME NEW s \in Sitemaps, names = <<s>> PROVE starts' = <<s>>
    BY <1>2, <2>3, <2>7 DEF Crawl!OfThisSite
  <2> QED BY <2>2, <2>4, <2>5, <2>6, <2>7
<1>5. starts' \in Seq(Sitemaps)
  <2>1. <<>> \in Seq(Sitemaps) /\ \A s \in Sitemaps : <<s>> \in Seq(Sitemaps)
    OBVIOUS
  <2> QED BY <1>4, <2>1
<1>6. silent' \in BOOLEAN
  BY <1>2
<1>7. Len(sitemapPages') \in Nat
  BY <1>2 DEF CrawlInv, CrawlTypes
<1>8. CrawlTypes'
  <2>1. {guessing', silent', uncertain', rich', capped', late', turnedAway'} \subseteq BOOLEAN
    BY <1>2, <1>6 DEF CrawlInv, CrawlTypes
  <2> QED BY <1>2, <1>3, <1>5, <2>1 DEF CrawlInv, CrawlTypes, Phases
<1>9. MapsHold'
  BY <1>2 DEF CrawlInv, MapsHold, ListedOf, Crawl!Lists
<1>10. TreeHolds'
  <2>1. seen = {} /\ ~tree.found
    BY <1>2 DEF CrawlInv, TreeHolds
  <2> QED BY <1>2, <2>1 DEF TreeHolds
<1>11. Passed'
  <2>1. ~guessing'
    BY <1>2 DEF CrawlInv, Passed
  <2>2. ~silent' => starts' = names
    BY <1>4
  <2>3. ~silent' => EmptyAt(Crawl!Range(robots.names) \ Crawl!Range(starts))'
    BY <1>3, <2>2 DEF EmptyAt
  <2> QED BY <1>2, <2>1, <2>3 DEF Passed
<1>12. PagesHold'
  BY <1>2, <1>7, PagesBefore
<1> QED BY <1>8, <1>9, <1>10, <1>11, <1>12 DEF CrawlInv

LEMMA TreeStarts ==
  ASSUME CrawlInv, Crawl!StartTree
  PROVE  CrawlInv'
<1>1. /\ phase = "start"
      /\ UNCHANGED <<site, robots, seen, opened, tree, sitemapUrls, sitemapPages, rich, queue,
                     position, pages, capped, late, turnedAway>>
  BY DEF Crawl!StartTree, Crawl!reading
<1>2. \/ /\ starts # <<>> /\ pending' = <<Head(starts)>> /\ phase' = "tree"
         /\ UNCHANGED <<starts, guessing, silent, uncertain>>
      \/ /\ starts = <<>> /\ (guessing \/ sitemapUrls # <<>>)
         /\ uncertain' = silent /\ phase' = "queue" /\ guessing' = FALSE /\ silent' = FALSE
         /\ UNCHANGED <<starts, pending>>
      \/ /\ starts = <<>> /\ ~guessing /\ sitemapUrls = <<>>
         /\ starts' = COMMON_SITEMAPS /\ guessing' = TRUE
         /\ UNCHANGED <<phase, pending, silent, uncertain>>
  BY DEF Crawl!StartTree
<1>3. CrawlTypes
  BY DEF CrawlInv
<1>4. CrawlTypes'
  <2>1. starts' \in Seq(Sitemaps) /\ pending' \in Seq(Sitemaps) /\ phase' \in Phases
    <3>1. starts # <<>> => Head(starts) \in Sitemaps
      BY <1>3, RangeIs DEF CrawlTypes
    <3>2. starts # <<>> => <<Head(starts)>> \in Seq(Sitemaps)
      BY <3>1
    <3> QED BY <1>1, <1>2, <1>3, <3>2, CrawlAssumption DEF CrawlTypes, Phases
  <2>2. {guessing', silent', uncertain', rich', capped', late', turnedAway'} \subseteq BOOLEAN
    BY <1>1, <1>2, <1>3 DEF CrawlTypes
  <2> QED BY <1>1, <1>3, <2>1, <2>2 DEF CrawlTypes
<1>5. MapsHold'
  BY <1>1 DEF CrawlInv, MapsHold, ListedOf, Crawl!Lists
<1>6. TreeHolds'
  <2>1. seen = {} /\ ~tree.found
    BY <1>1 DEF CrawlInv, TreeHolds
  <2> QED BY <1>1, <1>2, <2>1 DEF TreeHolds
<1>7. Passed'
  <2> DEFINE names == Crawl!Range(robots.names)  common == Crawl!Range(COMMON_SITEMAPS)
             rest == Crawl!Range(starts)  restNext == Crawl!Range(starts')
             Bare(S) == \A s \in S : site.holds[s] = Crawl!Nothing
  <2>1. /\ starts = <<>> => rest = {}
        /\ starts' = starts => restNext = rest
        /\ starts' = COMMON_SITEMAPS => restNext = common
    BY DEF Crawl!Range
  <2>2. ~silent /\ ~turnedAway /\ sitemapUrls = <<>> =>
           IF guessing THEN Bare(names) /\ Bare(common \ rest) ELSE Bare(names \ rest)
    BY <1>1 DEF CrawlInv, Passed, EmptyAt
  <2> HIDE DEF names, common, rest, restNext
  <2>3. phase' \in {"start", "tree"} /\ ~silent' /\ ~turnedAway /\ sitemapUrls = <<>> =>
           IF guessing' THEN Bare(names) /\ Bare(common \ restNext) ELSE Bare(names \ restNext)
    <3>1. CASE starts' = starts /\ guessing' = guessing /\ silent' = silent
      BY <2>1, <2>2, <3>1
    <3>2. CASE phase' = "queue"
      BY <3>2
    <3>3. CASE starts' = COMMON_SITEMAPS /\ guessing' = TRUE /\ starts = <<>> /\ ~guessing
               /\ silent' = silent
      <4>1. names \ rest = names /\ common \ restNext = {}
        BY <2>1, <3>3
      <4>2. ~silent /\ ~turnedAway /\ sitemapUrls = <<>> => Bare(names)
        BY <2>2, <3>3, <4>1
      <4> QED BY <3>3, <4>1, <4>2
    <3> QED BY <1>2, <3>1, <3>2, <3>3
  <2>4. phase' \in {"queue", "pages", "done"} /\ ~uncertain' /\ ~turnedAway /\ sitemapUrls = <<>> =>
           Bare(names \cup common)
    <3> SUFFICES ASSUME phase' = "queue", ~uncertain', ~turnedAway, sitemapUrls = <<>>
                 PROVE  Bare(names \cup common)
      BY <1>1, <1>2
    <3>1. starts = <<>> /\ guessing /\ ~silent
      BY <1>1, <1>2
    <3>2. Bare(names) /\ Bare(common \ rest) /\ common \ rest = common
      BY <2>1, <2>2, <3>1
    <3> QED BY <3>2
  <2>5. phase' # "robots"
    BY <1>1, <1>2
  <2>6. (~turnedAway' <=> ~turnedAway) /\ sitemapUrls' = sitemapUrls /\ site' = site
        /\ robots' = robots
    BY <1>1
  <2> QED BY <2>3, <2>4, <2>5, <2>6 DEF Passed, EmptyAt, names, common, rest, restNext
<1>8. PagesHold'
  <2>1. Len(sitemapPages') \in Nat /\ phase' \notin {"pages", "done"}
    BY <1>1, <1>2, <1>3 DEF CrawlTypes
  <2> QED BY <1>1, <2>1, PagesBefore
<1> QED BY <1>4, <1>5, <1>6, <1>7, <1>8 DEF CrawlInv

\* One answer of a sitemap's address, within its tree.
LEMMA SitemapRead ==
  ASSUME CrawlInv, Crawl!ReadSitemap
  PROVE  CrawlInv'
<1> DEFINE url == Head(pending)  content == site.holds[url]
<1>1. /\ phase = "tree" /\ pending # <<>> /\ opened < MAX_CHILD_SITEMAPS
      /\ UNCHANGED <<site, phase, robots, starts, guessing, silent, sitemapUrls, uncertain, queue,
                     position, pages, capped, late>>
  BY DEF Crawl!ReadSitemap, Crawl!TreeGoesOn, Crawl!reading
<1>2. \/ /\ url \in seen /\ pending' = Tail(pending)
         /\ UNCHANGED <<seen, opened, tree, sitemapPages, rich, turnedAway>>
      \/ /\ seen' = seen \cup {url} /\ opened' = opened + 1
         /\ \/ Crawl!NoUsableAnswer
            \/ Crawl!NotThere(url)
            \/ Crawl!Answered(url)
  BY DEF Crawl!ReadSitemap
<1>3. CrawlTypes
  BY DEF CrawlInv
<1>4. url \in Sitemaps /\ Tail(pending) \in Seq(Sitemaps)
  BY <1>1, <1>3, RangeIs DEF CrawlTypes
<1> HIDE DEF url
<1>5. /\ content # Crawl!Nothing =>
            \/ content.kind = "list" /\ content.of \in Pages \ {Home}
            \/ content.kind = "index" /\ content.of \in Sitemaps
      /\ \A p \in Pages : Crawl!Lists(url, p) => content.kind = "list" /\ content.of = p
      /\ content = Crawl!Nothing => \A p \in Pages : ~Crawl!Lists(url, p)
  BY <1>3, <1>4, ContentIs
<1> HIDE DEF content
\* What an answer does to the tree and the pages.
<1>6. /\ tree' \in [found : BOOLEAN, silent : BOOLEAN]
      /\ \/ UNCHANGED tree
         \/ tree'.silent /\ tree'.found = tree.found
         \/ tree'.found /\ content # Crawl!Nothing
  <2>1. tree \in [found : BOOLEAN, silent : BOOLEAN]
    BY <1>3 DEF CrawlTypes
  <2>2. CASE Crawl!NoUsableAnswer
    BY <2>1, <2>2 DEF Crawl!NoUsableAnswer
  <2>3. CASE Crawl!Answered(url)
    <3>1. tree' = [tree EXCEPT !.found = TRUE] /\ content # Crawl!Nothing
      BY <2>3 DEF Crawl!Answered, content
    <3> QED BY <2>1, <3>1
  <2>4. CASE UNCHANGED tree
    BY <2>1, <2>4
  <2> QED BY <1>2, <2>2, <2>3, <2>4 DEF Crawl!NotThere
<1>7. \/ UNCHANGED sitemapPages
      \/ /\ content # Crawl!Nothing /\ content.kind = "list"
         /\ content.of \notin Crawl!Range(sitemapPages)
         /\ sitemapPages' = Append(sitemapPages, content.of)
  BY <1>2 DEF Crawl!NoUsableAnswer, Crawl!NotThere, Crawl!Answered, content
<1>8. pending' \in Seq(Sitemaps)
  <2>1. CASE pending' = Tail(pending)
    BY <1>4, <2>1
  <2>2. CASE content # Crawl!Nothing /\ content.kind = "index"
             /\ pending' = Append(Tail(pending), content.of)
    <3>1. content.of \in Sitemaps
      BY <1>5, <2>2
    <3> QED BY <1>4, <2>2, <3>1
  <2> QED BY <1>2, <2>1, <2>2 DEF Crawl!NoUsableAnswer, Crawl!NotThere, Crawl!Answered, content
<1>9. rich' \in BOOLEAN /\ turnedAway' \in BOOLEAN /\ (turnedAway => turnedAway')
  <2>1. rich \in BOOLEAN /\ turnedAway \in BOOLEAN
    BY <1>3 DEF CrawlTypes
  <2>2. rich' \in BOOLEAN
    BY <1>2, <2>1 DEF Crawl!NoUsableAnswer, Crawl!NotThere, Crawl!Answered
  <2> QED BY <1>2, <2>1, <2>2 DEF Crawl!NoUsableAnswer, Crawl!NotThere, Crawl!Answered
<1>10. seen' \subseteq Sitemaps /\ opened' \in 0..MAX_CHILD_SITEMAPS
  <2>1. MAX_CHILD_SITEMAPS \in Nat /\ opened \in 0..MAX_CHILD_SITEMAPS /\ seen \subseteq Sitemaps
    BY <1>3, CrawlAssumption DEF CrawlTypes
  <2>2. opened + 1 \in 0..MAX_CHILD_SITEMAPS
    BY <1>1, <2>1
  <2> QED BY <1>2, <1>4, <2>1, <2>2
\* The pages listed so far.
<1>11. /\ sitemapPages' \in Seq(Pages)
       /\ Crawl!Range(sitemapPages) \subseteq Crawl!Range(sitemapPages)'
       /\ Home \notin Crawl!Range(sitemapPages)'
       /\ \A i, j \in DOMAIN sitemapPages' : sitemapPages'[i] = sitemapPages'[j] => i = j
  <2>1. /\ sitemapPages \in Seq(Pages) /\ Home \notin Crawl!Range(sitemapPages)
        /\ \A i, j \in DOMAIN sitemapPages : sitemapPages[i] = sitemapPages[j] => i = j
    BY <1>3 DEF CrawlInv, MapsHold, CrawlTypes
  <2>2. CASE UNCHANGED sitemapPages
    BY <2>1, <2>2 DEF Crawl!Range
  <2>3. CASE /\ content # Crawl!Nothing /\ content.kind = "list"
             /\ content.of \notin Crawl!Range(sitemapPages)
             /\ sitemapPages' = Append(sitemapPages, content.of)
    <3> DEFINE e == content.of  n == Len(sitemapPages)
    <3>1. e \in Pages \ {Home} /\ e \notin Crawl!Range(sitemapPages)
          /\ sitemapPages' = Append(sitemapPages, e)
      BY <1>5, <2>3
    <3> HIDE DEF e
    <3>2. sitemapPages' \in Seq(Pages)
      BY <2>1, <3>1
    <3>3. Crawl!Range(Append(sitemapPages, e)) = Crawl!Range(sitemapPages) \cup {e}
      BY <2>1, <3>1, RangeIs
    <3>4. Crawl!Range(sitemapPages)' = Crawl!Range(Append(sitemapPages, e))
      BY <3>1 DEF Crawl!Range
    <3>5. /\ n \in Nat /\ DOMAIN sitemapPages = 1..n /\ DOMAIN sitemapPages' = 1..(n + 1)
          /\ sitemapPages'[n + 1] = e /\ \A i \in 1..n : sitemapPages'[i] = sitemapPages[i]
      BY <2>1, <3>1
    <3> HIDE DEF n
    <3>6. \A i \in 1..(n + 1) : i \in 1..n \/ i = n + 1
      BY <3>5
    <3>7. \A i \in 1..n : sitemapPages[i] # e
      BY <3>1, <3>5 DEF Crawl!Range
    <3>8. \A i, j \in 1..(n + 1) : sitemapPages'[i] = sitemapPages'[j] => i = j
      BY <2>1, <3>5, <3>6, <3>7
    <3> QED BY <2>1, <3>1, <3>2, <3>3, <3>4, <3>5, <3>8
  <2> QED BY <1>7, <2>2, <2>3
<1>12. \A s : ListedOf(s) => ListedOf(s)'
  BY <1>1, <1>11 DEF ListedOf, Crawl!Lists
<1>13. MapsHold'
  <2>1. Crawl!Range(sitemapUrls)' = Crawl!Range(sitemapUrls)
    BY <1>1 DEF Crawl!Range
  <2> QED BY <1>11, <1>12, <2>1 DEF CrawlInv, MapsHold
<1>14. CrawlTypes'
  <2>1. {guessing', silent', uncertain', rich', capped', late', turnedAway'} \subseteq BOOLEAN
    BY <1>1, <1>3, <1>9 DEF CrawlTypes
  <2> QED BY <1>1, <1>3, <1>6, <1>8, <1>10, <1>11, <2>1 DEF CrawlTypes
<1>15. TreeHolds'
  <2> DEFINE first == Head(starts)
  <2>1. starts # <<>> /\ starts' = starts /\ phase' = "tree" /\ first' = first
    BY <1>1 DEF CrawlInv, TreeHolds
  <2>2. \/ pending = <<first>> /\ seen = {} /\ ~tree.found
        \/ pending = <<>>
        \/ tree.found /\ ListedOf(first)
    BY <1>1 DEF CrawlInv, TreeHolds
  <2> HIDE DEF first
  <2>3. CASE tree.found /\ ListedOf(first)
    <3>1. tree'.found
      BY <1>6, <2>3
    <3>2. ListedOf(first)'
      BY <1>12, <2>1, <2>3
    <3> QED BY <2>1, <3>1, <3>2 DEF TreeHolds, first
  <2>4. CASE pending = <<first>> /\ seen = {} /\ ~tree.found
    <3>1. url = first /\ Tail(pending) = <<>> /\ url \notin seen
      BY <2>4 DEF url
    <3>2. CASE Crawl!NoUsableAnswer
      <4>1. pending' = <<>> /\ tree'.silent /\ ~tree'.found
        BY <1>3, <2>4, <3>1, <3>2 DEF Crawl!NoUsableAnswer, CrawlTypes
      <4> QED BY <2>1, <4>1 DEF TreeHolds
    <3>3. CASE Crawl!NotThere(url)
      <4>1. pending' = <<>> /\ tree' = tree /\ (turnedAway' \/ content = Crawl!Nothing)
        BY <3>1, <3>3 DEF Crawl!NotThere, content
      <4>2. turnedAway' \/ EmptyAt({first})'
        BY <1>1, <2>1, <3>1, <4>1 DEF EmptyAt, content
      <4> QED BY <2>1, <2>4, <4>1, <4>2 DEF TreeHolds, first
    <3>4. CASE Crawl!Answered(url)
      <4>1. tree'.found
        BY <1>6, <2>4, <3>4, <1>3 DEF Crawl!Answered, CrawlTypes
      <4>2. ASSUME NEW p \in Pages, Crawl!Lists(first, p)'
            PROVE  p \in Crawl!Range(sitemapPages)'
        <5>1. Crawl!Lists(url, p)
          BY <1>1, <2>1, <3>1, <4>2 DEF Crawl!Lists
        <5>2. content.kind = "list" /\ content.of = p
          BY <1>5, <5>1
        <5>3. sitemapPages' = IF p \notin Crawl!Range(sitemapPages)
                              THEN Append(sitemapPages, p) ELSE sitemapPages
          BY <3>4, <5>2 DEF Crawl!Answered, content
        <5>4. Crawl!Range(Append(sitemapPages, p)) = Crawl!Range(sitemapPages) \cup {p}
          BY <1>3, RangeIs DEF CrawlTypes
        <5> QED BY <5>3, <5>4 DEF Crawl!Range
      <4>3. ListedOf(first)'
        BY <4>2 DEF ListedOf
      <4> QED BY <2>1, <4>1, <4>3 DEF TreeHolds, first
    <3> QED BY <1>2, <3>1, <3>2, <3>3, <3>4
  <2> QED BY <1>1, <2>2, <2>3, <2>4
<1>16. Passed'
  <2>1. ~silent /\ ~turnedAway /\ sitemapUrls = <<>> =>
              IF guessing
              THEN /\ EmptyAt(Crawl!Range(robots.names))
                   /\ EmptyAt(Crawl!Range(COMMON_SITEMAPS) \ Crawl!Range(starts))
              ELSE EmptyAt(Crawl!Range(robots.names) \ Crawl!Range(starts))
    BY <1>1 DEF CrawlInv, Passed
  <2>2. /\ (~turnedAway' => ~turnedAway) /\ phase' = "tree" /\ silent' = silent
        /\ guessing' = guessing /\ sitemapUrls' = sitemapUrls /\ site' = site
        /\ robots' = robots /\ starts' = starts
    BY <1>1, <1>9
  <2> QED BY <2>1, <2>2 DEF Passed, EmptyAt
<1>17. PagesHold'
  <2>1. Len(sitemapPages') \in Nat
    BY <1>11
  <2> QED BY <1>1, <2>1, PagesBefore
<1> QED BY <1>13, <1>14, <1>15, <1>16, <1>17 DEF CrawlInv

\* The end of a tree: its first is listed as read if it answered.
LEMMA TreeEnds ==
  ASSUME CrawlInv, Crawl!EndTree
  PROVE  CrawlInv'
<1> DEFINE quiet == tree.silent \/ pending # <<>>  first == Head(starts)
           rest == Crawl!Range(starts)  restNext == Crawl!Range(starts')
<1>1. /\ phase = "tree" /\ phase' = "start" /\ pending' = <<>> /\ seen' = {} /\ opened' = 0
      /\ tree' = [found |-> FALSE, silent |-> FALSE]
      /\ silent' = (silent \/ quiet)
      /\ UNCHANGED <<site, robots, guessing, sitemapPages, rich, queue, position, pages, capped,
                     late, turnedAway>>
  BY DEF Crawl!EndTree, Crawl!reading
<1>2. /\ tree.found => sitemapUrls' = Append(sitemapUrls, first)
      /\ ~tree.found => sitemapUrls' = sitemapUrls /\ starts' = Tail(starts)
                        /\ uncertain' = uncertain
      /\ starts' \in {<<>>, Tail(starts)}
      /\ uncertain' \in {uncertain, quiet \/ silent}
  BY DEF Crawl!EndTree
<1>3. CrawlTypes /\ starts # <<>>
  BY <1>1 DEF CrawlInv, TreeHolds
<1>4. /\ first \in Sitemaps /\ Tail(starts) \in Seq(Sitemaps)
      /\ rest = Crawl!Range(Tail(starts)) \cup {first}
  BY <1>3, RangeIs DEF CrawlTypes
<1>5. tree.silent \in BOOLEAN /\ quiet \in BOOLEAN /\ (quiet \/ silent) \in BOOLEAN
  BY <1>3 DEF CrawlTypes
<1>6. \/ tree.found /\ ListedOf(first)
      \/ ~tree.found /\ (quiet \/ turnedAway \/ EmptyAt({first}))
  <2>1. <<first>> # <<>>
    OBVIOUS
  <2> QED BY <1>1, <2>1 DEF CrawlInv, TreeHolds
<1> HIDE DEF quiet
<1>7. CrawlTypes'
  <2>1. 0 \in 0..MAX_CHILD_SITEMAPS
    <3>1. MAX_CHILD_SITEMAPS \in Nat
      BY CrawlAssumption
    <3> QED BY <3>1
  <2>2. {guessing', silent', uncertain', rich', capped', late', turnedAway'} \subseteq BOOLEAN
    BY <1>1, <1>2, <1>3, <1>5 DEF CrawlTypes
  <2>3. sitemapUrls' \in Seq(Sitemaps) /\ starts' \in Seq(Sitemaps)
    <3> HIDE DEF first
    <3>1. sitemapUrls \in Seq(Sitemaps) /\ <<>> \in Seq(Sitemaps)
      BY <1>3 DEF CrawlTypes
    <3>2. Append(sitemapUrls, first) \in Seq(Sitemaps)
      BY <1>4, <3>1
    <3>3. sitemapUrls' \in Seq(Sitemaps)
      BY <1>2, <3>1, <3>2
    <3> QED BY <1>2, <1>4, <3>1, <3>3
  <2>4. tree' \in [found : BOOLEAN, silent : BOOLEAN] /\ phase' \in Phases
        /\ pending' \in Seq(Sitemaps) /\ seen' \subseteq Sitemaps
    BY <1>1 DEF Phases
  <2> QED BY <1>1, <1>3, <2>1, <2>2, <2>3, <2>4 DEF CrawlTypes
<1>8. MapsHold'
  <2>1. sitemapUrls \in Seq(Sitemaps)
    BY <1>3 DEF CrawlTypes
  <2>2. Crawl!Range(sitemapUrls)' \subseteq
           Crawl!Range(sitemapUrls) \cup (IF tree.found THEN {first} ELSE {})
    <3>1. Crawl!Range(Append(sitemapUrls, first)) = Crawl!Range(sitemapUrls) \cup {first}
      BY <1>4, <2>1, RangeIs
    <3>2. CASE tree.found
      BY <1>2, <3>1, <3>2 DEF Crawl!Range
    <3>3. CASE ~tree.found
      BY <1>2, <3>3 DEF Crawl!Range
    <3> QED BY <3>2, <3>3
  <2>3. \A s \in Crawl!Range(sitemapUrls)' : ListedOf(s)
    BY <1>6, <2>2 DEF CrawlInv, MapsHold
  <2> QED BY <1>1, <2>3 DEF CrawlInv, MapsHold, ListedOf, Crawl!Lists, Crawl!Range
<1>9. TreeHolds'
  BY <1>1 DEF TreeHolds
<1>10. Passed'
  <2> DEFINE names == Crawl!Range(robots.names)  common == Crawl!Range(COMMON_SITEMAPS)
             Bare(S) == \A s \in S : site.holds[s] = Crawl!Nothing
  <2> SUFFICES ASSUME ~silent', ~turnedAway, sitemapUrls' = <<>>
               PROVE  IF guessing THEN Bare(names) /\ Bare(common \ restNext)
                                  ELSE Bare(names \ restNext)
    BY <1>1 DEF Passed, EmptyAt
  <2>1. ~silent /\ ~quiet
    BY <1>1
  <2>2. Append(sitemapUrls, first) # <<>>
    <3> HIDE DEF first
    <3>1. sitemapUrls \in Seq(Sitemaps)
      BY <1>3 DEF CrawlTypes
    <3>2. Len(Append(sitemapUrls, first)) = Len(sitemapUrls) + 1 /\ Len(sitemapUrls) \in Nat
      BY <1>4, <3>1
    <3> QED BY <3>2
  <2>3. ~tree.found /\ sitemapUrls = <<>> /\ starts' = Tail(starts)
    BY <1>2, <2>2
  <2>4. EmptyAt({first})
    BY <1>6, <2>1, <2>3
  <2>5. rest = restNext \cup {first}
    BY <1>4, <2>3
  <2>6. IF guessing THEN Bare(names) /\ Bare(common \ rest) ELSE Bare(names \ rest)
    BY <1>1, <2>1, <2>3 DEF CrawlInv, Passed, EmptyAt
  <2> HIDE DEF names, common, rest, restNext
  <2> QED BY <2>4, <2>5, <2>6 DEF EmptyAt
<1>11. PagesHold'
  <2>1. Len(sitemapPages') \in Nat /\ phase' \notin {"pages", "done"}
    BY <1>1, <1>3 DEF CrawlTypes
  <2> QED BY <1>1, <2>1, PagesBefore
<1> QED BY <1>7, <1>8, <1>9, <1>10, <1>11 DEF CrawlInv

\* What is known of the sitemaps does not change while pages are read.
LEMMA MapsStay ==
  ASSUME CrawlInv, phase \in {"queue", "pages", "done"}, phase' \in {"queue", "pages", "done"},
         UNCHANGED <<site, robots, sitemapUrls, sitemapPages, uncertain, turnedAway>>
  PROVE  MapsHold' /\ TreeHolds' /\ Passed'
<1>1. MapsHold'
  BY DEF CrawlInv, MapsHold, ListedOf, Crawl!Lists, Crawl!Range
<1>2. TreeHolds'
  BY DEF TreeHolds
<1>3. Passed'
  BY DEF CrawlInv, Passed, EmptyAt
<1> QED BY <1>1, <1>2, <1>3

LEMMA PagesStart ==
  ASSUME CrawlInv, Crawl!StartPages
  PROVE  CrawlInv'
<1>1. /\ phase = "queue" /\ phase' = "pages" /\ queue' = <<Home>> \o sitemapPages
      /\ UNCHANGED <<site, robots, starts, guessing, pending, seen, opened, tree, silent,
                     sitemapUrls, sitemapPages, uncertain, rich, position, pages, capped, late,
                     turnedAway>>
  BY DEF Crawl!StartPages, Crawl!maps, Crawl!found
<1>2. CrawlTypes /\ position = 0 /\ DOMAIN pages = {} /\ Cardinality(DOMAIN pages) <= MAX_PAGES
      /\ Home \notin Crawl!Range(sitemapPages)
      /\ \A i, j \in DOMAIN sitemapPages : sitemapPages[i] = sitemapPages[j] => i = j
  BY <1>1 DEF CrawlInv, PagesHold, MapsHold
<1> DEFINE n == Len(sitemapPages)
<1>3. /\ sitemapPages \in Seq(Pages) /\ n \in Nat /\ DOMAIN sitemapPages = 1..n
      /\ Home \in Pages /\ MAX_QUEUE \in Nat \ {0}
  <2>1. sitemapPages \in Seq(Pages)
    BY <1>2 DEF CrawlTypes
  <2>2. Home \in Pages /\ MAX_QUEUE \in Nat \ {0}
    BY CrawlAssumption
  <2> QED BY <2>1, <2>2
<1>4. /\ queue' \in Seq(Pages) /\ Len(queue') = n + 1 /\ DOMAIN queue' = 1..(n + 1)
      /\ queue'[1] = Home /\ \A i \in 1..n : queue'[i + 1] = sitemapPages[i]
  BY <1>1, <1>3
<1> HIDE DEF n
<1>5. \A i \in 1..(n + 1) : i = 1 \/ (i - 1 \in 1..n /\ (i - 1) + 1 = i)
  BY <1>3
<1>6. \A i \in 1..n : sitemapPages[i] # Home
  BY <1>2, <1>3 DEF Crawl!Range
<1>7. ASSUME NEW i \in 1..(n + 1), NEW j \in 1..(n + 1), queue'[i] = queue'[j]
      PROVE  i = j
  <2>1. CASE i = 1
    <3>1. j = 1
      BY <1>4, <1>5, <1>6, <1>7, <2>1
    <3> QED BY <2>1, <3>1
  <2>2. CASE i # 1
    <3>1. /\ i - 1 \in 1..n /\ queue'[i] = sitemapPages[i - 1] /\ (i - 1) + 1 = i
      BY <1>4, <1>5, <2>2
    <3>2. j # 1
      BY <1>4, <1>6, <1>7, <3>1
    <3>3. j - 1 \in 1..n /\ queue'[j] = sitemapPages[j - 1] /\ (j - 1) + 1 = j
      BY <1>4, <1>5, <3>2
    <3>4. i - 1 = j - 1
      BY <1>2, <1>3, <1>7, <3>1, <3>3
    <3> QED BY <3>4
  <2> QED BY <2>1, <2>2
<1>8. Crawl!Range(sitemapPages)' \subseteq Crawl!Range(queue)'
  <2>1. ASSUME NEW i \in 1..n PROVE sitemapPages[i] \in Crawl!Range(queue)'
    <3>1. i + 1 \in 1..(n + 1)
      BY <1>3
    <3> QED BY <1>4, <3>1 DEF Crawl!Range
  <2> QED BY <1>1, <1>3, <2>1 DEF Crawl!Range
<1>9. PagesHold'
  <2>1. Len(queue') <= MAX_QUEUE + Len(sitemapPages')
    BY <1>1, <1>3, <1>4 DEF n
  <2>2. \A i \in 1..position' : FALSE
    BY <1>1, <1>2
  <2>3. phase' = "pages" /\ DOMAIN pages' = {} /\ Cardinality(DOMAIN pages') <= MAX_PAGES
    BY <1>1, <1>2
  <2> QED BY <1>4, <1>7, <1>8, <2>1, <2>2, <2>3 DEF PagesHold
<1>10. CrawlTypes'
  <2>1. position' \in 0..Len(queue')
    BY <1>1, <1>2, <1>3, <1>4
  <2> QED BY <1>1, <1>2, <1>4, <2>1 DEF CrawlTypes, Phases
<1> QED BY <1>1, <1>9, <1>10, MapsStay DEF CrawlInv

LEMMA PagesEnd ==
  ASSUME CrawlInv, Crawl!EndPages
  PROVE  CrawlInv'
<1>1. /\ phase = "pages" /\ phase' = "done" /\ capped' = (capped \/ position < Len(queue))
      /\ UNCHANGED <<site, robots, starts, guessing, pending, seen, opened, tree, silent,
                     sitemapUrls, sitemapPages, uncertain, rich, queue, position, pages, late,
                     turnedAway>>
  BY DEF Crawl!EndPages, Crawl!maps, Crawl!found
<1>2. CrawlTypes /\ PagesHold
  BY DEF CrawlInv
<1>3. capped' \in BOOLEAN
  BY <1>1, <1>2 DEF CrawlTypes
<1>4. CrawlTypes'
  <2>1. {guessing', silent', uncertain', rich', capped', late', turnedAway'} \subseteq BOOLEAN
    BY <1>1, <1>2, <1>3 DEF CrawlTypes
  <2> QED BY <1>1, <1>2, <2>1 DEF CrawlTypes, Phases
<1>5. ASSUME ~capped' PROVE position' = Len(queue')
  <2>1. Len(queue) \in Nat /\ position \in 0..Len(queue)
    BY <1>2 DEF CrawlTypes
  <2>2. ~(position < Len(queue))
    BY <1>1, <1>5
  <2>3. position = Len(queue)
    BY <2>1, <2>2
  <2> QED BY <1>1, <2>3
<1>6. PagesHold'
  BY <1>1, <1>2, <1>5 DEF PagesHold, Crawl!Closed, Crawl!Range
<1> QED BY <1>1, <1>4, <1>6, MapsStay DEF CrawlInv

LEMMA TimeRunsOut ==
  ASSUME CrawlInv, Crawl!TimeIsUp
  PROVE  CrawlInv'
<1>1. /\ late' = TRUE
      /\ UNCHANGED <<site, phase, robots, starts, guessing, pending, seen, opened, tree, silent,
                     sitemapUrls, sitemapPages, uncertain, rich, queue, position, pages, capped,
                     turnedAway>>
  BY DEF Crawl!TimeIsUp, Crawl!maps, Crawl!found, Crawl!reading
<1>2. CrawlTypes'
  <2>1. {guessing', silent', uncertain', rich', capped', late', turnedAway'} \subseteq BOOLEAN
    BY <1>1 DEF CrawlInv, CrawlTypes
  <2> QED BY <1>1, <2>1 DEF CrawlInv, CrawlTypes
<1>3. MapsHold'
  BY <1>1 DEF CrawlInv, MapsHold, ListedOf, Crawl!Lists, Crawl!Range
<1>4. TreeHolds'
  BY <1>1 DEF CrawlInv, TreeHolds, ListedOf, EmptyAt, Crawl!Lists, Crawl!Range
<1>5. Passed'
  BY <1>1 DEF CrawlInv, Passed, EmptyAt
<1>6. PagesHold'
  BY <1>1 DEF CrawlInv, PagesHold, Crawl!Closed, Crawl!Range
<1> QED BY <1>2, <1>3, <1>4, <1>5, <1>6 DEF CrawlInv

\* What a page adds to the queue is not there yet, and fits.
LEMMA FollowedIs ==
  ASSUME NEW waiting \in Seq(Pages), NEW links \in SUBSET Pages, NEW n \in Nat,
         NEW added \in [1..n -> links],
         \A i, j \in DOMAIN waiting : waiting[i] = waiting[j] => i = j,
         Crawl!Follows(waiting, links, added)
  PROVE  LET all == waiting \o added IN
         /\ all \in Seq(Pages) /\ Len(all) = Len(waiting) + n
         /\ \A i \in 1..Len(waiting) : all[i] = waiting[i]
         /\ \A i, j \in DOMAIN all : all[i] = all[j] => i = j
         /\ n = 0 \/ Len(all) <= MAX_QUEUE
<1> DEFINE m == Len(waiting)  all == waiting \o added
           before(i) == waiting \o SubSeq(added, 1, i - 1)
<1>1. added \in Seq(Pages) /\ Len(added) = n
  OBVIOUS
<1>2. /\ m \in Nat /\ DOMAIN waiting = 1..m /\ all \in Seq(Pages) /\ Len(all) = m + n
      /\ DOMAIN all = 1..(m + n)
      /\ \A i \in 1..m : all[i] = waiting[i]
      /\ \A i \in 1..n : all[m + i] = added[i]
  BY <1>1
<1>3. ASSUME NEW i \in 1..n
      PROVE  /\ m + (i - 1) < MAX_QUEUE
             /\ \A k \in 1..m : added[i] # waiting[k]
             /\ \A k \in 1..n : k < i => added[i] # added[k]
  <2> DEFINE some == SubSeq(added, 1, i - 1)  b == waiting \o some
  <2>1. Len(b) < MAX_QUEUE /\ ~Crawl!Known(added[i], b)
    BY <1>1 DEF Crawl!Follows
  <2>2. some \in Seq(Pages) /\ Len(some) = i - 1 /\ \A k \in 1..(i - 1) : some[k] = added[k]
    BY <1>1
  <2> HIDE DEF some
  <2>3. /\ Len(b) = m + (i - 1) /\ DOMAIN b = 1..(m + (i - 1))
        /\ \A k \in 1..m : b[k] = waiting[k]
        /\ \A k \in 1..(i - 1) : b[m + k] = some[k]
    BY <2>2
  <2> HIDE DEF b, m
  <2>4. added[i] \notin Crawl!Range(b)
    BY <2>1 DEF Crawl!Known
  <2>5. \A k \in 1..m : k \in 1..(m + (i - 1))
    BY <1>2
  <2>6. \A k \in 1..n : k < i => k \in 1..(i - 1) /\ m + k \in 1..(m + (i - 1))
    BY <1>2
  <2>7. \A k \in 1..(m + (i - 1)) : b[k] # added[i]
    BY <2>3, <2>4 DEF Crawl!Range
  <2>8. \A k \in 1..m : added[i] # waiting[k]
    BY <2>3, <2>5, <2>7
  <2>9. \A k \in 1..n : k < i => added[i] # added[k]
    BY <2>2, <2>3, <2>6, <2>7
  <2> QED BY <2>1, <2>3, <2>8, <2>9
<1> HIDE DEF m, all
<1>4. \A i \in 1..(m + n) : i \in 1..m \/ (i - m \in 1..n /\ m + (i - m) = i)
  BY <1>2
<1>5. ASSUME NEW i \in 1..(m + n), NEW j \in 1..(m + n), all[i] = all[j]
      PROVE  i = j
  <2>1. CASE i \in 1..m /\ j \in 1..m
    BY <1>2, <1>5, <2>1
  <2>2. CASE i \in 1..m /\ j \notin 1..m
    <3>1. j - m \in 1..n /\ all[j] = added[j - m]
      BY <1>2, <1>4, <2>2
    <3> QED BY <1>2, <1>3, <1>5, <2>2, <3>1
  <2>3. CASE i \notin 1..m /\ j \in 1..m
    <3>1. i - m \in 1..n /\ all[i] = added[i - m]
      BY <1>2, <1>4, <2>3
    <3> QED BY <1>2, <1>3, <1>5, <2>3, <3>1
  <2>4. CASE i \notin 1..m /\ j \notin 1..m
    <3>1. /\ i - m \in 1..n /\ all[i] = added[i - m]
          /\ j - m \in 1..n /\ all[j] = added[j - m]
      BY <1>2, <1>4, <2>4
    <3> DEFINE x == i - m  y == j - m
    <3>2. x \in 1..n /\ y \in 1..n /\ added[x] = added[y]
      BY <1>5, <3>1
    <3> HIDE DEF x, y
    <3>3. ~(x < y) /\ ~(y < x)
      BY <1>3, <3>2
    <3>4. x = y
      BY <3>2, <3>3
    <3> QED BY <1>2, <3>4 DEF x, y
  <2> QED BY <2>1, <2>2, <2>3, <2>4
<1>6. n = 0 \/ m + n <= MAX_QUEUE
  <2>1. CASE n # 0
    <3>1. n \in 1..n
      BY <2>1
    <3>2. m + (n - 1) < MAX_QUEUE
      BY <1>3, <3>1
    <3>3. MAX_QUEUE \in Nat
      BY CrawlAssumption
    <3> QED BY <1>2, <3>2, <3>3
  <2> QED BY <2>1
<1> QED BY <1>2, <1>5, <1>6 DEF m, all

LEMMA PageRead ==
  ASSUME CrawlInv, Crawl!ReadPage
  PROVE  CrawlInv'
<1> DEFINE p == queue[position + 1]  n == Len(queue)
           Judged(verdict) ==
              pages' = [q \in DOMAIN pages \cup {p} |-> IF q = p THEN verdict ELSE pages[q]]
<1>1. /\ phase = "pages" /\ position < n /\ Cardinality(DOMAIN pages) < MAX_PAGES
      /\ position' = position + 1
      /\ UNCHANGED <<site, phase, robots, starts, guessing, pending, seen, opened, tree, silent,
                     sitemapUrls, sitemapPages, uncertain, rich, late, turnedAway>>
  <2>1. /\ phase = "pages" /\ Crawl!PagesGoOn /\ position' = position + 1
        /\ UNCHANGED <<site, phase, robots, Crawl!maps, Crawl!found, late, turnedAway>>
    BY DEF Crawl!ReadPage
  <2>2. \A S : Crawl!Cardinality(S) = Cardinality(S)
    BY DEF Crawl!Cardinality, Cardinality
  <2> QED BY <2>1, <2>2 DEF Crawl!PagesGoOn, Crawl!maps, Crawl!found
<1>2. CrawlTypes /\ PagesHold
  BY DEF CrawlInv
<1>3. /\ queue \in Seq(Pages) /\ n \in Nat /\ DOMAIN queue = 1..n /\ position \in 0..n
      /\ position + 1 \in 1..n /\ p \in Pages
  <2>1. queue \in Seq(Pages) /\ position \in 0..Len(queue)
    BY <1>2 DEF CrawlTypes
  <2>2. n \in Nat /\ DOMAIN queue = 1..n
    BY <2>1
  <2>3. position + 1 \in 1..n
    BY <1>1, <2>1, <2>2
  <2> QED BY <2>1, <2>2, <2>3
<1>4. \/ \E verdict \in Crawl!Verdict : Judged(verdict) /\ (Crawl!Closed(p) => verdict = "blocked")
      \/ pages' = pages /\ ~Crawl!Closed(p)
  <2>1. {"noAnswer", "broken", "listable", "out", "blocked"} \subseteq Crawl!Verdict
    BY DEF Crawl!Verdict
  <2>2. CASE Crawl!Closed(p)
    BY <2>1, <2>2 DEF Crawl!ReadPage
  <2>3. CASE ~Crawl!Closed(p)
    <3>1. \/ pages' = pages
          \/ \E verdict \in {"noAnswer", "broken", "listable", "out"} : Judged(verdict)
      BY <2>3 DEF Crawl!ReadPage
    <3> QED BY <2>1, <2>3, <3>1
  <2> QED BY <2>2, <2>3
<1>5. \/ queue' = queue
      \/ \E links \in SUBSET Pages, k \in Nat : \E added \in [1..k -> links] :
            Crawl!Follows(queue, links, added) /\ queue' = queue \o added
  <2>1. ASSUME NEW links \in SUBSET Pages,
               NEW added \in UNION {[1..k -> links] : k \in 0..MAX_LINKS}
        PROVE  \E k \in Nat : added \in [1..k -> links]
    <3>1. MAX_LINKS \in Nat
      BY CrawlAssumption
    <3>2. PICK k \in 0..MAX_LINKS : added \in [1..k -> links]
      OBVIOUS
    <3> QED BY <3>1, <3>2
  <2>2. \/ queue' = queue
        \/ \E links \in SUBSET Pages : \E added \in UNION {[1..k -> links] : k \in 0..MAX_LINKS} :
              Crawl!Follows(queue, links, added) /\ queue' = queue \o added
    BY DEF Crawl!ReadPage
  <2> QED BY <2>1, <2>2
<1>6. capped' \in BOOLEAN
  <2>1. capped \in BOOLEAN
    BY <1>2 DEF CrawlTypes
  <2> QED BY <2>1 DEF Crawl!ReadPage
<1> HIDE DEF p
\* The pages judged.
<1>7. /\ pages' \in [DOMAIN pages' -> Crawl!Verdict] /\ DOMAIN pages' \subseteq Pages
      /\ DOMAIN pages \subseteq DOMAIN pages' /\ Cardinality(DOMAIN pages') <= MAX_PAGES
      /\ \A q \in DOMAIN pages' : Crawl!Closed(q) => pages'[q] = "blocked"
      /\ Crawl!Closed(p) => p \in DOMAIN pages'
  <2>1. /\ pages \in [DOMAIN pages -> Crawl!Verdict] /\ DOMAIN pages \subseteq Pages
        /\ \A q \in DOMAIN pages : Crawl!Closed(q) => pages[q] = "blocked"
    BY <1>2 DEF CrawlTypes, PagesHold
  <2>2. IsFiniteSet(DOMAIN pages) /\ Cardinality(DOMAIN pages) \in Nat /\ MAX_PAGES \in Nat
    BY <2>1, CrawlAssumption, FS_Subset, FS_CardinalityType
  <2>3. CASE pages' = pages /\ ~Crawl!Closed(p)
    BY <1>1, <2>1, <2>2, <2>3
  <2>4. ASSUME NEW verdict \in Crawl!Verdict, Judged(verdict),
               Crawl!Closed(p) => verdict = "blocked"
        PROVE  <1>7!:
    <3>1. DOMAIN pages' = DOMAIN pages \cup {p}
      BY <2>4
    <3>2. \A q \in DOMAIN pages' : pages'[q] = IF q = p THEN verdict ELSE pages[q]
      BY <2>4
    <3>3. Cardinality(DOMAIN pages') <= Cardinality(DOMAIN pages) + 1
          /\ Cardinality(DOMAIN pages') \in Nat
      <4> DEFINE D == DOMAIN pages  E == DOMAIN pages'
      <4>1. IsFiniteSet(D) /\ Cardinality(D) \in Nat /\ E = D \cup {p}
        BY <2>2, <3>1
      <4> HIDE DEF D, E
      <4>2. /\ IsFiniteSet(D \cup {p})
            /\ Cardinality(D \cup {p}) = IF p \in D THEN Cardinality(D) ELSE Cardinality(D) + 1
        BY <4>1, FS_AddElement
      <4>3. Cardinality(E) \in {Cardinality(D), Cardinality(D) + 1}
        BY <4>1, <4>2
      <4>4. Cardinality(E) <= Cardinality(D) + 1 /\ Cardinality(E) \in Nat
        BY <4>1, <4>3
      <4> QED BY <4>4 DEF D, E
    <3>4. Cardinality(DOMAIN pages') <= MAX_PAGES
      BY <1>1, <2>2, <3>3
    <3>5. pages' \in [DOMAIN pages' -> Crawl!Verdict]
      BY <2>1, <2>4, <3>1
    <3> QED BY <1>3, <2>1, <2>4, <3>1, <3>2, <3>4, <3>5
  <2> QED BY <1>4, <2>3, <2>4
\* The queue.
<1>8. /\ queue' \in Seq(Pages) /\ Len(queue') \in Nat /\ n <= Len(queue')
      /\ \A i \in 1..n : queue'[i] = queue[i]
      /\ \A i, j \in DOMAIN queue' : queue'[i] = queue'[j] => i = j
      /\ Len(queue') <= MAX_QUEUE + Len(sitemapPages)
  <2>1. /\ \A i, j \in DOMAIN queue : queue[i] = queue[j] => i = j
        /\ Len(queue) <= MAX_QUEUE + Len(sitemapPages) /\ Len(sitemapPages) \in Nat
        /\ MAX_QUEUE \in Nat
    <3>1. sitemapPages \in Seq(Pages)
      BY <1>2 DEF CrawlTypes
    <3>2. MAX_QUEUE \in Nat
      BY CrawlAssumption
    <3>3. \A i, j \in DOMAIN queue : queue[i] = queue[j] => i = j
      BY <1>2 DEF PagesHold
    <3>4. Len(queue) <= MAX_QUEUE + Len(sitemapPages)
      BY <1>2 DEF PagesHold
    <3> QED BY <3>1, <3>2, <3>3, <3>4
  <2>2. CASE queue' = queue
    BY <1>3, <2>1, <2>2
  <2>3. ASSUME NEW links \in SUBSET Pages, NEW k \in Nat, NEW added \in [1..k -> links],
               Crawl!Follows(queue, links, added), queue' = queue \o added
        PROVE  <1>8!:
    <3>1. /\ queue' \in Seq(Pages) /\ Len(queue') = n + k
          /\ \A i \in 1..n : queue'[i] = queue[i]
          /\ \A i, j \in DOMAIN queue' : queue'[i] = queue'[j] => i = j
          /\ k = 0 \/ Len(queue') <= MAX_QUEUE
      <4> DEFINE all == queue \o added
      <4>1. /\ all \in Seq(Pages) /\ Len(all) = Len(queue) + k
            /\ \A i \in 1..Len(queue) : all[i] = queue[i]
            /\ \A i, j \in DOMAIN all : all[i] = all[j] => i = j
            /\ k = 0 \/ Len(all) <= MAX_QUEUE
        BY <1>3, <2>1, <2>3, FollowedIs
      <4> HIDE DEF all
      <4>2. queue' = all
        BY <2>3 DEF all
      <4> QED BY <4>1, <4>2
    <3> QED BY <1>3, <2>1, <3>1
  <2> QED BY <1>5, <2>2, <2>3
<1> HIDE DEF n
<1>9. Crawl!Range(queue) \subseteq Crawl!Range(queue)'
  <2>1. DOMAIN queue' = 1..Len(queue') /\ 1..n \subseteq 1..Len(queue')
    BY <1>3, <1>8
  <2> QED BY <1>3, <1>8, <2>1 DEF Crawl!Range
<1>10. \A q : Crawl!Closed(q)' <=> Crawl!Closed(q)
  BY <1>1 DEF Crawl!Closed
<1>11. ASSUME NEW i \in 1..position', Crawl!Closed(queue'[i])
       PROVE  queue'[i] \in DOMAIN pages'
  <2>1. i \in 1..n /\ (i \in 1..position \/ i = position + 1)
    BY <1>1, <1>3
  <2>2. queue'[i] = queue[i]
    BY <1>8, <2>1
  <2>3. CASE i = position + 1
    BY <1>7, <1>11, <2>2, <2>3 DEF p
  <2>4. CASE i \in 1..position
    BY <1>2, <1>7, <1>11, <2>2, <2>4 DEF PagesHold
  <2> QED BY <2>1, <2>3, <2>4
<1>12. PagesHold'
  <2>1. Crawl!Range(sitemapPages)' \subseteq Crawl!Range(queue)'
    BY <1>1, <1>2, <1>9 DEF PagesHold, Crawl!Range
  <2>2. \A i \in 1..position' : Crawl!Closed(queue[i])' => queue'[i] \in DOMAIN pages'
    BY <1>1, <1>11 DEF Crawl!Closed
  <2>3. \A q \in DOMAIN pages' : Crawl!Closed(q)' => pages'[q] = "blocked"
    BY <1>7, <1>10
  <2> QED BY <1>1, <1>7, <1>8, <2>1, <2>2, <2>3 DEF PagesHold
<1>13. CrawlTypes'
  <2>1. {guessing', silent', uncertain', rich', capped', late', turnedAway'} \subseteq BOOLEAN
    BY <1>1, <1>2, <1>6 DEF CrawlTypes
  <2>2. position' \in 0..Len(queue')
    BY <1>1, <1>3, <1>8
  <2> QED BY <1>1, <1>2, <1>7, <1>8, <2>1, <2>2 DEF CrawlTypes
<1> QED BY <1>1, <1>12, <1>13, MapsStay DEF CrawlInv

LEMMA CrawlStep ==
  ASSUME CrawlInv, Crawl!Next \/ UNCHANGED Crawl!vars
  PROVE  CrawlInv'
<1>1. CASE Crawl!Next
  BY <1>1, RobotsRead, TreeStarts, SitemapRead, TreeEnds, PagesStart, PageRead, PagesEnd,
     TimeRunsOut DEF Crawl!Next
<1>2. CASE UNCHANGED Crawl!vars
  <2>1. UNCHANGED <<site, phase, robots, starts, guessing, pending, seen, opened, tree, silent,
                    sitemapUrls, sitemapPages, uncertain, rich, queue, position, pages, capped,
                    late, turnedAway>>
    BY <1>2 DEF Crawl!vars, Crawl!maps, Crawl!found, Crawl!reading
  <2>2. CrawlTypes'
    BY <2>1 DEF CrawlInv, CrawlTypes
  <2>3. MapsHold'
    BY <2>1 DEF CrawlInv, MapsHold, ListedOf, Crawl!Lists, Crawl!Range
  <2>4. TreeHolds'
    BY <2>1 DEF CrawlInv, TreeHolds, ListedOf, EmptyAt, Crawl!Lists, Crawl!Range
  <2>5. Passed'
    BY <2>1 DEF CrawlInv, Passed, EmptyAt
  <2>6. PagesHold'
    BY <2>1 DEF CrawlInv, PagesHold, Crawl!Closed, Crawl!Range
  <2> QED BY <2>2, <2>3, <2>4, <2>5, <2>6 DEF CrawlInv
<1> QED BY <1>1, <1>2

LEMMA CrawlPromise ==
  ASSUME CrawlInv
  PROVE  Crawl!TypeOK /\ Crawl!ProposalIsSound /\ Crawl!VisitedOnce
<1>1. CrawlTypes /\ MapsHold /\ Passed /\ PagesHold
  BY DEF CrawlInv
<1>2. Crawl!TypeOK
  BY <1>1 DEF CrawlTypes, Crawl!TypeOK, Phases
<1>3. Crawl!VisitedOnce
  <2>1. \A S : Crawl!Cardinality(S) = Cardinality(S)
    BY DEF Crawl!Cardinality, Cardinality
  <2>2. DOMAIN queue = 1..Len(queue)
    BY <1>1 DEF CrawlTypes
  <2> QED BY <1>1, <2>1, <2>2 DEF PagesHold, Crawl!VisitedOnce
<1>4. ASSUME phase = "done", Crawl!PlansFirst, ~turnedAway,
             NEW s \in Crawl!Range(robots.names \o COMMON_SITEMAPS)
      PROVE  site.holds[s] = Crawl!Nothing
  <2>1. ~uncertain /\ sitemapUrls = <<>>
    BY <1>4 DEF Crawl!PlansFirst, Crawl!Silent
  <2>2. EmptyAt(Crawl!Range(robots.names) \cup Crawl!Range(COMMON_SITEMAPS))
    BY <1>1, <1>4, <2>1 DEF Passed
  <2>3. robots.names \in Seq(Sitemaps \cup {Crawl!Elsewhere})
        /\ COMMON_SITEMAPS \in Seq(Sitemaps \cup {Crawl!Elsewhere})
    <3> DEFINE T == Sitemaps \cup {Crawl!Elsewhere}
    <3>1. <<>> \in Seq(T) /\ \A t \in T : <<t>> \in Seq(T)
      OBVIOUS
    <3>2. robots.names \in NamedMaps
      BY <1>1 DEF CrawlTypes
    <3>3. COMMON_SITEMAPS \in Seq(Sitemaps)
      BY CrawlAssumption
    <3>4. COMMON_SITEMAPS \in Seq(T)
      BY <3>3
    <3> QED BY <3>1, <3>2, <3>4 DEF NamedMaps
  <2> DEFINE a == robots.names  b == COMMON_SITEMAPS  m == Len(a)  n == Len(b)
  <2>4. /\ m \in Nat /\ n \in Nat /\ DOMAIN a = 1..m /\ DOMAIN b = 1..n
        /\ DOMAIN (a \o b) = 1..(m + n)
        /\ \A i \in 1..m : (a \o b)[i] = a[i]
        /\ \A i \in 1..n : (a \o b)[m + i] = b[i]
    BY <2>3
  <2>5. PICK i \in 1..(m + n) : s = (a \o b)[i]
    BY <2>4 DEF Crawl!Range
  <2> HIDE DEF a, b, m, n
  <2>6. i \in 1..m \/ (i - m \in 1..n /\ m + (i - m) = i)
    BY <2>4
  <2>7. s \in Crawl!Range(a) \cup Crawl!Range(b)
    BY <2>4, <2>5, <2>6 DEF Crawl!Range
  <2> QED BY <2>2, <2>7 DEF EmptyAt, a, b
<1>5. ASSUME Crawl!PlansBetter, NEW p \in Pages, Crawl!Lists(sitemapUrls[1], p)
      PROVE  p \in Crawl!ImprovedList \cup Crawl!Read({"blocked", "out"})
  <2>1. sitemapUrls \in Seq(Sitemaps) /\ sitemapUrls # <<>>
    BY <1>1, <1>5 DEF CrawlTypes, Crawl!PlansBetter
  <2>2. 1 \in DOMAIN sitemapUrls
    BY <2>1
  <2>3. ListedOf(sitemapUrls[1])
    BY <1>1, <2>2 DEF MapsHold, Crawl!Range
  <2>4. p \in Crawl!Range(sitemapPages)
    BY <1>5, <2>3 DEF ListedOf
  <2> QED BY <2>4 DEF Crawl!ImprovedList, Crawl!Dropped
\* A page Google is kept from was told of as such, if it was told of.
<1>6. ASSUME robots.answer = "text", NEW q \in site.closed
      PROVE  /\ q \notin Crawl!Read({"listable"})
             /\ q \in DOMAIN pages => q \in Crawl!Read({"blocked", "out"})
  <2>1. q \in DOMAIN pages => pages[q] = "blocked"
    BY <1>1, <1>6 DEF PagesHold, Crawl!Closed
  <2> QED BY <2>1 DEF Crawl!Read
<1>7. ASSUME phase = "done", Crawl!PlansBetter, NEW q \in Crawl!Range(sitemapPages),
             robots.answer = "text", q \in site.closed
      PROVE  q \in Crawl!Dropped
  <2>1. ~capped
    BY <1>7 DEF Crawl!PlansBetter
  <2>2. position = Len(queue) /\ Crawl!Range(sitemapPages) \subseteq Crawl!Range(queue)
    BY <1>1, <1>7, <2>1 DEF PagesHold
  <2>3. DOMAIN queue = 1..position
    BY <1>1, <2>2 DEF CrawlTypes
  <2>4. PICK i \in 1..position : q = queue[i]
    BY <2>2, <2>3 DEF Crawl!Range
  <2>5. q \in DOMAIN pages
    BY <1>1, <1>7, <2>4 DEF PagesHold, Crawl!Closed
  <2> QED BY <1>6, <1>7, <2>5 DEF Crawl!Dropped
<1>8. ASSUME phase = "done", Crawl!PlansFirst \/ Crawl!PlansBetter, robots.answer = "text"
      PROVE  Crawl!ProposedList \cap site.closed = {}
  <2>1. CASE Crawl!PlansFirst
    BY <1>6, <1>8, <2>1 DEF Crawl!ProposedList
  <2>2. CASE ~Crawl!PlansFirst
    <3>1. Crawl!ProposedList = Crawl!ImprovedList /\ Crawl!PlansBetter
      BY <1>8, <2>2 DEF Crawl!ProposedList
    <3>2. ASSUME NEW q \in Crawl!ImprovedList, q \in site.closed PROVE FALSE
      <4>1. \/ q \in Crawl!Range(sitemapPages) /\ q \notin Crawl!Dropped
            \/ q \in Crawl!Read({"listable"})
        BY DEF Crawl!ImprovedList, Crawl!Added
      <4> QED BY <1>6, <1>7, <1>8, <3>1, <3>2, <4>1
    <3> QED BY <3>1, <3>2
  <2> QED BY <2>1, <2>2
<1>9. Crawl!ProposalIsSound
  BY <1>4, <1>5, <1>8 DEF Crawl!ProposalIsSound
<1> QED BY <1>2, <1>3, <1>9
=============================================================================

-------------------------- MODULE SiteWork_proofs --------------------------
(***************************************************************************)
(* What the service's work on a site promises: that scans keep what the    *)
(* customer sees, runs and target words what was decided and paid for,     *)
(* lookups their budgets and the adapter the page that was asked for; and, *)
(* with SiteEvidence_proofs, that what is proposed rests on what was       *)
(* found: for any runs, words, requests, clients, posts, times and limits. *)
(*                                                                         *)
(* Each part has an inductive invariant of its own, whose argument stands  *)
(* at the head of its section; the last section joins them by the part in  *)
(* focus. The scans, the target words and the budgets rest on one thing:   *)
(* a save is refused or made again from the record unless the record is    *)
(* still what was read, so what it writes differs from the record in what  *)
(* the writer is about. The runs rest on the worker's one delivery at a    *)
(* time, the adapter on revisions that are only ever added.                *)
(***************************************************************************)
EXTENDS SiteEvidence_proofs

(* The scans (SiteScan). A file: whoever holds a copy of a change holds one  *)
(* whose text was agreed to when it waits, and agreement and showing are not *)
(* taken back. The last finished scan: the worker's save finds its own scan  *)
(* still under way, or a newer one that waits, so it never writes over a     *)
(* finished one; a newer scan that does keeps it first.                      *)
Sound(f, yes, put) ==
    /\ f \in Scan!SiteFile
    /\ f.status # "none" => f.text \in Texts
    /\ f.status = "waiting_for_customer" => f.text \in yes
    /\ f.status = "applied" => f.text \in yes \cap put

FilesSound ==
    /\ \A k \in Files : Sound(file[k], agreed[k], shown[k])
    /\ \A k \in Files : served[k] # Scan!NoText => served[k] \in shown[k]
    /\ worker.at \in {"merge", "look"} =>
          worker.kind \in Files /\ Sound(worker.file, agreed[worker.kind], shown[worker.kind])
    /\ worker.at = "look" => worker.file.status = "waiting_for_customer"
    /\ tab.write = "none" => tab = Scan!NoTab
    /\ tab.write # "none" =>
          /\ tab.kind \in Files /\ Sound(tab.file, agreed[tab.kind], shown[tab.kind])
          /\ tab.file.status # "none"
    /\ tab.write = "check" => tab.file.status = "waiting_for_customer"

JobsNumbered ==
    /\ \A j \in jobs : j.id \in 1..created /\ j.left # 0
    /\ worker.at # "idle" => worker.job.id \in 1..created
    /\ scan.job \in 0..created \/ scan.job = Scan!OldJob
    /\ scan.status = "completed" => scan.job # 0

SavesItsOwn ==
    /\ worker.at \in {"crawl", "completed", "failed"} =>
          scan.status \in {"running", "queued"} /\ worker.scan.job = worker.job.id
    /\ worker.at = "keep" => worker.scan.job = finished /\ finished # 0
    /\ Scan!FinishedIsKept

ScanInv == Scan!TypeOK /\ FilesSound /\ JobsNumbered /\ SavesItsOwn

ScanWorkers == [job : Scan!Job, at : Scan!Places, scan : Scan!Scan, kind : Files \cup {"scan"},
                file : Scan!SiteFile]

LEMMA ScanBounds ==
  /\ MaxJobs \in Nat /\ MaxClock \in Nat /\ MaxStops \in Nat
  /\ MaxAttempts \in Nat /\ MaxAttempts # 0
  /\ Scan!NoText \notin Texts
  /\ Scan!OldJob = MaxJobs + 1 /\ Scan!OldJob \in Nat /\ Scan!OldJob # 0
<1>1. MaxJobs \in Nat /\ MaxClock \in Nat /\ MaxStops \in Nat
  BY ScansAssumption
<1>2. MaxAttempts \in Nat /\ MaxAttempts # 0
  BY ScansAssumption
<1>3. Scan!NoText \notin Texts
  BY ScansAssumption DEF Scan!NoText
<1>4. Scan!OldJob = MaxJobs + 1
  BY DEF Scan!OldJob
<1> QED BY <1>1, <1>2, <1>3, <1>4

LEMMA ScanStart == Scan!Init => ScanInv
<1> SUFFICES ASSUME Scan!Init PROVE ScanInv
  OBVIOUS
<1>1. /\ MaxJobs \in Nat /\ MaxClock \in Nat /\ MaxStops \in Nat /\ MaxAttempts \in Nat
      /\ Scan!NoText \notin Texts /\ Scan!OldJob \in Nat \ {0}
  BY ScanBounds
<1>2. /\ Scan!NoScan \in Scan!Scan /\ Scan!NoScan.status = "none" /\ Scan!NoScan.job = 0
      /\ Scan!NoFile \in Scan!SiteFile /\ Scan!NoFile.status = "none"
      /\ Scan!NoJob \in Scan!Job
  BY DEF Scan!NoScan, Scan!Scan, Scan!ScanStatus, Scan!ScanTrigger, Scan!NoFile, Scan!SiteFile,
     Scan!SiteFileStatus, Scan!NoJob, Scan!Job
<1>3. \/ scan = Scan!NoScan /\ file = [k \in Files |-> Scan!NoFile]
      \/ /\ scan = [Scan!NoScan EXCEPT !.status = "completed", !.job = Scan!OldJob]
         /\ file \in [Files -> [status : {"proposed"}, text : Texts]]
  BY DEF Scan!Init
<1>4. /\ scan \in Scan!Scan
      /\ \/ scan.status = "none" /\ scan.job = 0
         \/ scan.status = "completed" /\ scan.job = Scan!OldJob
  BY <1>1, <1>2, <1>3 DEF Scan!Scan, Scan!ScanStatus
<1>5. /\ file \in [Files -> Scan!SiteFile]
      /\ \A k \in Files : \/ file[k].status = "none"
                          \/ file[k].status = "proposed" /\ file[k].text \in Texts
  BY <1>2, <1>3 DEF Scan!SiteFile, Scan!SiteFileStatus
<1>6. /\ worker = Scan!Idle /\ worker.at = "idle" /\ tab = Scan!NoTab /\ tab.write = "none"
      /\ worker \in ScanWorkers
      /\ tab \in [write : {"none", "approve", "reject", "check"}, kind : Files \cup {"scan"},
                  file : Scan!SiteFile]
  BY <1>2 DEF Scan!Init, Scan!Idle, Scan!NoTab, Scan!Places, ScanWorkers
<1>7. Scan!TypeOK
  <2>1. kept \in Scan!Kept
    BY DEF Scan!Init, Scan!Kept
  <2>2. 0 \in 0..MaxClock /\ 0 \in 0..MaxJobs /\ 0 \in 0..MaxStops
    BY <1>1
  <2>3. clock \in 0..MaxClock /\ created \in 0..MaxJobs /\ stops \in 0..MaxStops
    BY <2>2 DEF Scan!Init
  <2>4. /\ served \in [Files -> Texts \cup {Scan!NoText}] /\ jobs \subseteq Scan!Job
        /\ removed \in BOOLEAN /\ caller \in [Scan!ScanTrigger -> BOOLEAN] /\ torn \subseteq Nat
        /\ agreed \in [Files -> SUBSET Texts] /\ shown \in [Files -> SUBSET Texts]
    BY DEF Scan!Init
  <2>5. finished \in Nat
    BY <1>4 DEF Scan!Init, Scan!Scan
  <2> QED BY <1>4, <1>5, <1>6, <2>1, <2>3, <2>4, <2>5 DEF Scan!TypeOK, ScanWorkers
<1>8. FilesSound
  BY <1>5, <1>6 DEF Scan!Init, FilesSound, Sound
<1>9. JobsNumbered
  BY <1>1, <1>4, <1>6 DEF Scan!Init, JobsNumbered
<1>10. SavesItsOwn
  BY <1>1, <1>4, <1>6 DEF Scan!Init, SavesItsOwn, Scan!FinishedIsKept, Scan!Completed
<1> QED BY <1>7, <1>8, <1>9, <1>10 DEF ScanInv

\* What is held of the files rests when no file, copy or word of the customer does.
LEMMA FilesRest ==
  ASSUME FilesSound, UNCHANGED <<file, served, agreed, shown>>,
         UNCHANGED <<tab>> \/ tab' = Scan!NoTab,
         UNCHANGED <<worker>> \/ worker'.at \notin {"merge", "look"}
  PROVE  FilesSound'
<1>1. Scan!NoTab.write = "none"
  BY DEF Scan!NoTab
<1>2. /\ tab'.write = "none" => tab' = Scan!NoTab
      /\ tab'.write # "none" =>
          /\ tab'.kind \in Files /\ Sound(tab'.file, agreed'[tab'.kind], shown'[tab'.kind])
          /\ tab'.file.status # "none"
      /\ tab'.write = "check" => tab'.file.status = "waiting_for_customer"
  BY <1>1 DEF FilesSound
<1>3. /\ worker'.at \in {"merge", "look"} =>
          worker'.kind \in Files /\ Sound(worker'.file, agreed'[worker'.kind], shown'[worker'.kind])
      /\ worker'.at = "look" => worker'.file.status = "waiting_for_customer"
  BY DEF FilesSound
<1>4. /\ \A k \in Files : Sound(file'[k], agreed'[k], shown'[k])
      /\ \A k \in Files : served'[k] # Scan!NoText => served'[k] \in shown'[k]
  BY DEF FilesSound
<1>5. Scan!NoText' = Scan!NoText /\ Scan!NoTab' = Scan!NoTab
  BY DEF Scan!NoText, Scan!NoTab, Scan!NoFile
<1> QED BY <1>2, <1>3, <1>4, <1>5 DEF FilesSound

\* Jobs are added under the next number, and given back as they were.
LEMMA Numbers ==
  ASSUME ScanInv
  PROVE  created \in Nat /\ MaxJobs \in Nat /\ created <= MaxJobs /\ Scan!OldJob = MaxJobs + 1
         /\ created + 1 \in Nat /\ scan.job \in Nat
<1>1. created \in 0..MaxJobs /\ scan.job \in Nat
  BY DEF ScanInv, Scan!TypeOK, Scan!Scan
<1> QED BY <1>1, ScanBounds

\* The job under way is given back, while it has attempts left.
LEMMA GivenBack ==
  ASSUME ScanInv, Scan!Again, worker.at # "idle"
  PROVE  /\ worker' = Scan!Idle /\ worker'.at = "idle"
         /\ worker' \in ScanWorkers
         /\ jobs' \subseteq Scan!Job /\ \A j \in jobs' : j.id \in 1..created /\ j.left # 0
<1>1. worker' = Scan!Idle /\ jobs' = IF worker.job.left > 0 THEN jobs \cup {worker.job} ELSE jobs
  BY DEF Scan!Again
<1>2. worker.job \in Scan!Job /\ jobs \subseteq Scan!Job
  BY DEF ScanInv, Scan!TypeOK
<1>3. jobs' \subseteq Scan!Job
  BY <1>1, <1>2
<1>4. worker.job.left > 0 => worker.job.left # 0
  BY <1>2 DEF Scan!Job
<1>5. \A j \in jobs' : j.id \in 1..created /\ j.left # 0
  BY <1>1, <1>4 DEF ScanInv, JobsNumbered
<1>6. Scan!Idle.at = "idle"
         /\ Scan!Idle \in ScanWorkers
  BY DEF ScanWorkers, Scan!Idle, Scan!Places, Scan!NoJob, Scan!Job, Scan!NoScan, Scan!Scan, Scan!ScanStatus,
     Scan!ScanTrigger, Scan!NoFile, Scan!SiteFile, Scan!SiteFileStatus
<1> QED BY <1>1, <1>3, <1>5, <1>6

\* What is held of the scans rests when they do.
LEMMA SavesRest ==
  ASSUME ScanInv, UNCHANGED <<scan, kept, finished, torn, worker>>,
         \/ UNCHANGED <<jobs, created>>
         \/ /\ created' = created + 1
            /\ jobs' = jobs \cup {[id |-> created + 1, about |-> tab.kind, left |-> MaxAttempts]}
  PROVE  JobsNumbered' /\ SavesItsOwn'
<1>1. SavesItsOwn'
  BY DEF ScanInv, SavesItsOwn, Scan!FinishedIsKept, Scan!Completed
<1>2. created \in Nat /\ (created' = created \/ created' = created + 1)
  BY Numbers
<1>3. /\ \A j \in jobs : j.id \in 1..created /\ j.left # 0
      /\ worker.at # "idle" => worker.job.id \in 1..created
      /\ scan.job \in 0..created \/ scan.job = Scan!OldJob
      /\ scan.status = "completed" => scan.job # 0
  BY DEF ScanInv, JobsNumbered
<1>4. 1..created \subseteq 1..created' /\ 0..created \subseteq 0..created'
  BY <1>2
<1>5. \A j \in jobs' : j.id \in 1..created' /\ j.left # 0
  <2>1. CASE UNCHANGED <<jobs, created>>
    BY <1>3, <2>1
  <2>2. CASE /\ created' = created + 1
             /\ jobs' = jobs \cup {[id |-> created + 1, about |-> tab.kind, left |-> MaxAttempts]}
    <3>1. created + 1 \in 1..created'
      BY <1>2, <2>2
    <3> QED BY <1>3, <1>4, <2>2, <3>1, ScanBounds
  <2> QED BY <2>1, <2>2
<1>6. Scan!OldJob' = Scan!OldJob
  BY DEF Scan!OldJob
<1> QED BY <1>1, <1>3, <1>4, <1>5, <1>6 DEF JobsNumbered

LEMMA ScanDecides ==
  ASSUME ScanInv,
         \/ \E c \in Scan!ScanTrigger : Scan!Decide(c)
         \/ Scan!RemoveSite \/ Scan!Tick
  PROVE  ScanInv'
<1>1. /\ UNCHANGED <<scan, kept, finished, torn, worker, jobs, created, file, served, agreed, shown,
                     tab, stops>>
      /\ clock' \in 0..MaxClock /\ removed' \in BOOLEAN /\ caller' \in [Scan!ScanTrigger -> BOOLEAN]
  <2>1. /\ clock \in 0..MaxClock /\ removed \in BOOLEAN
        /\ caller \in [Scan!ScanTrigger -> BOOLEAN]
    BY DEF ScanInv, Scan!TypeOK
  <2>2. CASE \E c \in Scan!ScanTrigger : Scan!Decide(c)
    BY <2>1, <2>2 DEF Scan!Decide, Scan!records, Scan!history
  <2>3. CASE Scan!RemoveSite
    BY <2>1, <2>3 DEF Scan!RemoveSite, Scan!records, Scan!history
  <2>4. CASE Scan!Tick
    <3>1. clock' \in 0..MaxClock
      BY <2>1, <2>4, ScanBounds DEF Scan!Tick
    <3> QED BY <2>1, <2>4, <3>1 DEF Scan!Tick, Scan!records, Scan!history
  <2> QED BY <2>2, <2>3, <2>4
<1>2. Scan!TypeOK'
  BY <1>1 DEF ScanInv, Scan!TypeOK
<1>3. FilesSound'
  BY <1>1, FilesRest DEF ScanInv
<1>4. JobsNumbered' /\ SavesItsOwn'
  BY <1>1, SavesRest
<1> QED BY <1>2, <1>3, <1>4 DEF ScanInv

\* The customer's requests about a file, and what is put on the site.
LEMMA ScanFileRequests ==
  ASSUME ScanInv,
         \/ \E k \in Files, write \in {"approve", "reject", "check"} : Scan!OpenFile(k, write)
         \/ \E k \in Files : Scan!PutFile(k)
         \/ Scan!SaveFile
  PROVE  ScanInv'
<1>1. /\ file \in [Files -> Scan!SiteFile] /\ served \in [Files -> Texts \cup {Scan!NoText}]
      /\ agreed \in [Files -> SUBSET Texts] /\ shown \in [Files -> SUBSET Texts]
      /\ tab \in [write : {"none", "approve", "reject", "check"}, kind : Files \cup {"scan"},
                  file : Scan!SiteFile]
      /\ jobs \subseteq Scan!Job /\ created \in 0..MaxJobs
  BY DEF ScanInv, Scan!TypeOK
<1>2. /\ \A k \in Files : Sound(file[k], agreed[k], shown[k])
      /\ \A k \in Files : served[k] # Scan!NoText => served[k] \in shown[k]
      /\ worker.at \in {"merge", "look"} =>
            worker.kind \in Files /\ Sound(worker.file, agreed[worker.kind], shown[worker.kind])
      /\ worker.at = "look" => worker.file.status = "waiting_for_customer"
      /\ tab.write = "none" => tab = Scan!NoTab
      /\ tab.write # "none" =>
            /\ tab.kind \in Files /\ Sound(tab.file, agreed[tab.kind], shown[tab.kind])
            /\ tab.file.status # "none"
      /\ tab.write = "check" => tab.file.status = "waiting_for_customer"
  BY DEF ScanInv, FilesSound
<1>3. ASSUME NEW k \in Files, NEW write \in {"approve", "reject", "check"}, Scan!OpenFile(k, write)
      PROVE  ScanInv'
  <2>1. /\ tab' = [write |-> write, kind |-> k, file |-> file[k]]
        /\ UNCHANGED <<clock, removed, scan, kept, file, served, jobs, created, caller, worker,
                       finished, torn, agreed, shown, stops>>
        /\ file[k].status \in {"proposed", "rejected", "waiting_for_customer"}
        /\ write = "check" => file[k].status = "waiting_for_customer"
    BY <1>3 DEF Scan!OpenFile, Scan!records, Scan!history
  <2>2. tab' \in [write : {"none", "approve", "reject", "check"}, kind : Files \cup {"scan"},
                  file : Scan!SiteFile]
    BY <1>1, <2>1
  <2>3. Scan!TypeOK'
    BY <2>1, <2>2 DEF ScanInv, Scan!TypeOK
  <2>4. FilesSound'
    BY <1>2, <2>1 DEF FilesSound
  <2>5. JobsNumbered' /\ SavesItsOwn'
    BY <2>1, SavesRest
  <2> QED BY <2>3, <2>4, <2>5 DEF ScanInv
<1>4. ASSUME NEW k \in Files, Scan!PutFile(k) PROVE ScanInv'
  <2>1. /\ served' = [served EXCEPT ![k] = file[k].text]
        /\ shown' = [shown EXCEPT ![k] = @ \cup {file[k].text}]
        /\ UNCHANGED <<clock, removed, scan, kept, file, jobs, created, caller, worker, tab,
                       finished, torn, agreed, stops>>
        /\ file[k].status = "waiting_for_customer"
    BY <1>4 DEF Scan!PutFile, Scan!records
  <2>2. file[k].text \in Texts
    BY <1>2, <2>1 DEF Sound
  <2>3. shown' \in [Files -> SUBSET Texts] /\ served' \in [Files -> Texts \cup {Scan!NoText}]
    BY <1>1, <2>1, <2>2
  <2>4. Scan!TypeOK'
    BY <2>1, <2>3 DEF ScanInv, Scan!TypeOK
  <2>5. \A i \in Files : shown[i] \subseteq shown'[i]
    BY <1>1, <2>1
  <2>6. \A i \in Files : \A f : Sound(f, agreed[i], shown[i]) => Sound(f, agreed'[i], shown'[i])
    BY <2>1, <2>5 DEF Sound
  <2>7. \A i \in Files : served'[i] # Scan!NoText => served'[i] \in shown'[i]
    BY <1>1, <1>2, <2>1, <2>5
  <2>8. Scan!NoText' = Scan!NoText /\ Scan!NoTab' = Scan!NoTab
    BY DEF Scan!NoText, Scan!NoTab, Scan!NoFile
  <2>9. FilesSound'
    BY <1>2, <2>1, <2>6, <2>7, <2>8 DEF FilesSound
  <2>10. JobsNumbered' /\ SavesItsOwn'
    BY <2>1, SavesRest
  <2> QED BY <2>4, <2>9, <2>10 DEF ScanInv
<1>5. ASSUME Scan!SaveFile PROVE ScanInv'
  <2> DEFINE k == tab.kind
             status == CASE tab.write = "reject" -> "rejected" [] OTHER -> "waiting_for_customer"
             written == [tab.file EXCEPT !.status = status]
  <2>1. /\ tab # Scan!NoTab
        /\ file' = [file EXCEPT ![k] = written]
        /\ agreed' = IF tab.write = "approve" THEN [agreed EXCEPT ![k] = @ \cup {tab.file.text}]
                     ELSE agreed
        /\ tab' = Scan!NoTab
        /\ UNCHANGED <<clock, removed, scan, kept, served, caller, worker, finished, torn, shown,
                       stops>>
    BY <1>5 DEF Scan!SaveFile
  <2>2. /\ \/ UNCHANGED <<jobs, created>>
           \/ /\ created' = created + 1
              /\ jobs' = jobs \cup {[id |-> created + 1, about |-> k, left |-> MaxAttempts]}
        /\ (tab.write = "check" => created < MaxJobs)
        /\ (tab.write # "check" => UNCHANGED <<jobs, created>>)
    BY <1>5 DEF Scan!SaveFile
  <2>3. /\ tab.write # "none" /\ k \in Files /\ Sound(tab.file, agreed[k], shown[k])
        /\ tab.file.status # "none" /\ tab.file \in Scan!SiteFile /\ tab.file.text \in Texts
        /\ tab.write = "check" => tab.file.status = "waiting_for_customer"
        /\ tab.write \in {"approve", "reject", "check"}
    BY <1>1, <1>2, <2>1 DEF Sound
  <2>4. /\ agreed' \in [Files -> SUBSET Texts] /\ \A i \in Files : agreed[i] \subseteq agreed'[i]
        /\ tab.write = "approve" => tab.file.text \in agreed'[k]
    BY <1>1, <2>1, <2>3
  <2>5. \A i \in Files : \A f : Sound(f, agreed[i], shown[i]) => Sound(f, agreed'[i], shown'[i])
    BY <2>1, <2>4 DEF Sound
  <2>6. written \in Scan!SiteFile /\ Sound(written, agreed'[k], shown'[k])
    <3>1. status \in {"rejected", "waiting_for_customer"} /\ (tab.write = "reject" => status = "rejected")
      OBVIOUS
    <3> HIDE DEF status
    <3>2. written \in Scan!SiteFile /\ written.text = tab.file.text /\ written.status = status
      BY <2>3, <3>1 DEF Scan!SiteFile, Scan!SiteFileStatus
    <3>3. status = "waiting_for_customer" => tab.file.text \in agreed'[k]
      BY <2>3, <2>4, <3>1 DEF Sound
    <3> QED BY <2>3, <3>1, <3>2, <3>3 DEF Sound
  <2> HIDE DEF written, k
  <2>7. file' \in [Files -> Scan!SiteFile] /\ \A i \in Files : Sound(file'[i], agreed'[i], shown'[i])
    BY <1>1, <1>2, <2>1, <2>3, <2>5, <2>6
  <2>8. Scan!NoTab.write = "none" /\ Scan!NoText' = Scan!NoText /\ Scan!NoTab' = Scan!NoTab
        /\ Scan!NoTab \in [write : {"none", "approve", "reject", "check"}, kind : Files \cup {"scan"},
                           file : Scan!SiteFile]
    BY DEF Scan!NoText, Scan!NoTab, Scan!NoFile, Scan!SiteFile, Scan!SiteFileStatus
  <2>9. FilesSound'
    BY <1>2, <2>1, <2>5, <2>7, <2>8 DEF FilesSound
  <2>10. jobs' \subseteq Scan!Job /\ created' \in 0..MaxJobs
    <3>1. CASE UNCHANGED <<jobs, created>>
      BY <1>1, <3>1
    <3>2. CASE ~UNCHANGED <<jobs, created>>
      <4>1. /\ created' = created + 1 /\ created < MaxJobs
            /\ jobs' = jobs \cup {[id |-> created + 1, about |-> k, left |-> MaxAttempts]}
        BY <2>2, <3>2
      <4>2. [id |-> created + 1, about |-> k, left |-> MaxAttempts] \in Scan!Job
        BY <2>3, Numbers, ScanBounds DEF Scan!Job
      <4> QED BY <1>1, <4>1, <4>2, Numbers
    <3> QED BY <3>1, <3>2
  <2>11. Scan!TypeOK'
    BY <2>1, <2>4, <2>7, <2>8, <2>10 DEF ScanInv, Scan!TypeOK
  <2>12. JobsNumbered' /\ SavesItsOwn'
    BY <2>1, <2>2, SavesRest DEF k
  <2> QED BY <2>9, <2>11, <2>12 DEF ScanInv
<1> QED BY <1>3, <1>4, <1>5

LEMMA IdleWorker ==
  /\ Scan!Idle \in ScanWorkers /\ Scan!Idle.at = "idle" /\ Scan!NoTab.write = "none"
  /\ Scan!NoTab \in [write : {"none", "approve", "reject", "check"}, kind : Files \cup {"scan"},
                     file : Scan!SiteFile]
BY DEF ScanWorkers, Scan!Idle, Scan!Places, Scan!NoJob, Scan!Job, Scan!NoScan, Scan!Scan,
   Scan!ScanStatus, Scan!ScanTrigger, Scan!NoFile, Scan!SiteFile, Scan!SiteFileStatus, Scan!NoTab

\* A new scan is written with its job: a finished one without a record is kept.
LEMMA ScanQueues ==
  ASSUME ScanInv, NEW c \in Scan!ScanTrigger, Scan!QueueScan(c)
  PROVE  ScanInv'
<1> DEFINE again == c = "monthly" /\ scan.trigger = "monthly" /\ scan.status = "failed"
           fails == IF again THEN scan.failures + 1 ELSE 0
           written == [status |-> "queued", job |-> created + 1, trigger |-> c,
                       failures |-> fails, asked |-> clock, done |-> 0]
           new == [id |-> created + 1, about |-> "scan", left |-> MaxAttempts]
<1>1. /\ created < MaxJobs /\ scan' = written /\ kept' = Scan!KeptBefore(written)
      /\ created' = created + 1 /\ jobs' = jobs \cup {new}
      /\ caller' = [caller EXCEPT ![c] = FALSE]
      /\ UNCHANGED <<clock, removed, file, served, worker, tab, finished, torn, agreed, shown, stops>>
  BY DEF Scan!QueueScan, Scan!history
<1>2. /\ scan \in Scan!Scan /\ kept \in Scan!Kept /\ jobs \subseteq Scan!Job
      /\ created \in 0..MaxJobs /\ clock \in 0..MaxClock
      /\ caller \in [Scan!ScanTrigger -> BOOLEAN]
  BY DEF ScanInv, Scan!TypeOK
<1>3. fails \in Nat /\ clock \in Nat /\ created + 1 \in Nat
  BY <1>2, Numbers, ScanBounds DEF Scan!Scan
<1> HIDE DEF fails
<1>4. written \in Scan!Scan /\ written.job = created + 1 /\ written.status = "queued"
  BY <1>3 DEF Scan!Scan, Scan!ScanStatus
<1> HIDE DEF written
<1>5. scan.job # created + 1
  BY <1>1, Numbers, ScanBounds DEF ScanInv, JobsNumbered
<1>6. kept' = IF kept.job = 0 /\ scan.status = "completed"
              THEN [job |-> scan.job, at |-> scan.done] ELSE kept
  BY <1>1, <1>4, <1>5 DEF Scan!KeptBefore
<1>7. kept' \in Scan!Kept
  BY <1>2, <1>6 DEF Scan!Kept, Scan!Scan
<1>8. created' \in 0..MaxJobs
  BY <1>1, <1>2, ScanBounds
<1>9. new \in Scan!Job /\ new.id = created + 1 /\ new.left # 0
  BY <1>3, ScanBounds DEF Scan!Job
<1> HIDE DEF new
<1>10. Scan!TypeOK'
  <2>1. caller' \in [Scan!ScanTrigger -> BOOLEAN] /\ jobs' \subseteq Scan!Job /\ scan' \in Scan!Scan
    BY <1>1, <1>2, <1>4, <1>9
  <2> QED BY <1>1, <1>7, <1>8, <2>1 DEF ScanInv, Scan!TypeOK
<1>11. FilesSound'
  BY <1>1, FilesRest DEF ScanInv
<1>12. JobsNumbered'
  <2>1. 1..created \subseteq 1..created' /\ created' \in 1..created' /\ created' # 0
    BY <1>1, Numbers
  <2>2. \A j \in jobs' : j.id \in 1..created' /\ j.left # 0
    BY <1>1, <1>9, <2>1 DEF ScanInv, JobsNumbered
  <2>3. scan'.job \in 0..created' /\ scan'.status # "completed"
    BY <1>1, <1>4, <2>1, Numbers
  <2> QED BY <1>1, <2>1, <2>2, <2>3 DEF ScanInv, JobsNumbered
<1>13. SavesItsOwn'
  <2>1. Scan!Completed' = Scan!Completed \/ Scan!Completed'.job = Scan!Completed.job
    <3>1. CASE kept.job # 0
      BY <1>6, <3>1 DEF Scan!Completed
    <3>2. CASE kept.job = 0 /\ scan.status = "completed"
      <4>1. scan.job # 0
        BY <3>2 DEF ScanInv, JobsNumbered
      <4> QED BY <1>6, <3>2, <4>1 DEF Scan!Completed
    <3>3. CASE kept.job = 0 /\ scan.status # "completed"
      BY <1>1, <1>4, <1>6, <3>3 DEF Scan!Completed
    <3> QED BY <3>1, <3>2, <3>3
  <2> QED BY <1>1, <1>4, <2>1 DEF ScanInv, SavesItsOwn, Scan!FinishedIsKept
<1> QED BY <1>10, <1>11, <1>12, <1>13 DEF ScanInv

LEMMA ScanStops == ASSUME ScanInv, Scan!Stop PROVE ScanInv'
<1>1. /\ worker.at # "idle" /\ stops' = stops + 1 /\ stops < MaxStops
      /\ torn' = IF worker.at = "keep" THEN torn \cup {worker.scan.job} ELSE torn
      /\ Scan!Again /\ caller' = [c \in Scan!ScanTrigger |-> FALSE] /\ tab' = Scan!NoTab
      /\ UNCHANGED <<clock, removed, scan, kept, file, served, created, finished, agreed, shown>>
  BY DEF Scan!Stop, Scan!records
<1>2. /\ worker'.at = "idle" /\ worker' \in ScanWorkers
      /\ jobs' \subseteq Scan!Job /\ \A j \in jobs' : j.id \in 1..created /\ j.left # 0
  BY <1>1, GivenBack
<1>3. Scan!TypeOK'
  <2>1. torn \subseteq Nat /\ worker.scan \in Scan!Scan /\ stops \in 0..MaxStops
    BY DEF ScanInv, Scan!TypeOK
  <2>2. worker.scan.job \in Nat
    BY <2>1 DEF Scan!Scan
  <2>3. torn' \subseteq Nat
    BY <1>1, <2>1, <2>2
  <2>4. stops' \in 0..MaxStops
    BY <1>1, <2>1, ScanBounds
  <2>5. caller' \in [Scan!ScanTrigger -> BOOLEAN]
    BY <1>1
  <2> QED BY <1>1, <1>2, <2>3, <2>4, <2>5, IdleWorker DEF ScanInv, Scan!TypeOK, ScanWorkers
<1>4. FilesSound'
  BY <1>1, <1>2, FilesRest DEF ScanInv
<1>5. JobsNumbered'
  <2>1. Scan!OldJob' = Scan!OldJob
    BY DEF Scan!OldJob
  <2> QED BY <1>1, <1>2, <2>1 DEF ScanInv, JobsNumbered
<1>6. SavesItsOwn'
  BY <1>1, <1>2 DEF ScanInv, SavesItsOwn, Scan!FinishedIsKept, Scan!Completed
<1> QED BY <1>3, <1>4, <1>5, <1>6 DEF ScanInv

\* A job of the worker ends here, or goes on, with no change of the files' records.
LEMMA WorkerTypes ==
  ASSUME ScanInv
  PROVE  /\ worker \in ScanWorkers /\ worker.job \in Scan!Job /\ worker.scan \in Scan!Scan
         /\ worker.file \in Scan!SiteFile /\ worker.kind \in Files \cup {"scan"}
         /\ scan \in Scan!Scan /\ kept \in Scan!Kept /\ jobs \subseteq Scan!Job
         /\ finished \in Nat /\ scan.job \in Nat /\ clock \in Nat
<1>1. worker \in ScanWorkers /\ scan \in Scan!Scan /\ kept \in Scan!Kept /\ jobs \subseteq Scan!Job
      /\ finished \in Nat /\ clock \in 0..MaxClock
  BY DEF ScanInv, Scan!TypeOK, ScanWorkers
<1> QED BY <1>1, ScanBounds DEF ScanWorkers, Scan!Scan

LEMMA ScanTaken == ASSUME ScanInv, NEW j \in jobs, Scan!Take(j) PROVE ScanInv'
<1> DEFINE taken == [j EXCEPT !.left = @ - 1]
           new == [Scan!Idle EXCEPT !.job = taken, !.at = "read"]
<1>1. /\ worker.at = "idle" /\ jobs' = jobs \ {j} /\ worker' = new
      /\ UNCHANGED <<clock, removed, scan, kept, file, served, created, caller, tab, finished, torn,
                     agreed, shown, stops>>
  BY DEF Scan!Take, Scan!records, Scan!history
<1>2. j \in Scan!Job /\ j.id \in 1..created /\ j.left # 0
  BY WorkerTypes DEF ScanInv, JobsNumbered
<1>3. taken \in Scan!Job /\ taken.id = j.id
  <2>1. j.left - 1 \in Nat
    BY <1>2 DEF Scan!Job
  <2> QED BY <1>2, <2>1 DEF Scan!Job
<1> HIDE DEF taken
<1>4. new \in ScanWorkers /\ new.at = "read" /\ new.job = taken
  BY <1>3, IdleWorker DEF ScanWorkers, Scan!Places
<1> HIDE DEF new
<1>5. Scan!TypeOK'
  BY <1>1, <1>4 DEF ScanInv, Scan!TypeOK, ScanWorkers
<1>6. FilesSound'
  BY <1>1, <1>4, FilesRest DEF ScanInv
<1>7. JobsNumbered'
  BY <1>1, <1>2, <1>3, <1>4 DEF ScanInv, JobsNumbered, Scan!OldJob
<1>8. SavesItsOwn'
  BY <1>1, <1>4 DEF ScanInv, SavesItsOwn, Scan!FinishedIsKept, Scan!Completed
<1> QED BY <1>5, <1>6, <1>7, <1>8 DEF ScanInv

\* A step of the worker about the scan: no file, and no word of the customer.
LEMMA ScanWorks ==
  ASSUME ScanInv, UNCHANGED <<clock, removed, file, served, created, caller, tab, torn, agreed, shown,
                              stops>>,
         worker' \in ScanWorkers, worker'.at \notin {"merge", "look"},
         worker'.at # "idle" => worker'.job.id \in 1..created,
         jobs' \subseteq Scan!Job, \A j \in jobs' : j.id \in 1..created /\ j.left # 0,
         scan' \in Scan!Scan, kept' \in Scan!Kept, finished' \in Nat,
         scan'.job \in 0..created \/ scan'.job = Scan!OldJob,
         scan'.status = "completed" => scan'.job # 0,
         SavesItsOwn'
  PROVE  ScanInv'
<1>1. Scan!TypeOK'
  BY DEF ScanInv, Scan!TypeOK, ScanWorkers
<1>2. FilesSound'
  BY FilesRest DEF ScanInv
<1>3. JobsNumbered'
  BY DEF ScanInv, JobsNumbered, Scan!OldJob
<1> QED BY <1>1, <1>2, <1>3 DEF ScanInv

LEMMA FindsScan == ASSUME ScanInv, Scan!FindScan PROVE ScanInv'
<1>1. /\ worker.at = "read"
      /\ UNCHANGED <<clock, removed, file, served, created, caller, tab, finished, torn, agreed, shown,
                     stops>>
  BY DEF Scan!FindScan, Scan!history
<1>2. /\ worker.job.id \in 1..created /\ \A j \in jobs : j.id \in 1..created /\ j.left # 0
      /\ scan.job \in 0..created \/ scan.job = Scan!OldJob
      /\ scan.status = "completed" => scan.job # 0
      /\ Scan!FinishedIsKept
  BY <1>1 DEF ScanInv, JobsNumbered, SavesItsOwn
<1>3. CASE Scan!Done /\ UNCHANGED <<scan, kept>>
  <2>1. worker' = Scan!Idle /\ jobs' = jobs
    BY <1>3 DEF Scan!Done
  <2>2. SavesItsOwn'
    BY <1>1, <1>2, <1>3, <2>1, IdleWorker DEF SavesItsOwn, Scan!FinishedIsKept, Scan!Completed
  <2> QED BY <1>1, <1>2, <1>3, <2>1, <2>2, IdleWorker, WorkerTypes, ScanWorks
<1>4. CASE ~(Scan!Done /\ UNCHANGED <<scan, kept>>)
  <2>1. /\ scan.status \notin {"none", "completed"} /\ scan.job = worker.job.id
        /\ \/ /\ scan' = [scan EXCEPT !.status = "failed"]
              /\ kept' = Scan!KeptBefore(scan) /\ Scan!Done
           \/ /\ worker' = [worker EXCEPT !.at = "crawl", !.scan = [scan EXCEPT !.status = "running"]]
              /\ scan' = worker'.scan
              /\ kept' = Scan!KeptBefore(worker'.scan) /\ UNCHANGED jobs
    BY <1>4 DEF Scan!FindScan
  <2>2. kept' = kept
    BY <2>1 DEF Scan!KeptBefore
  <2>3. CASE scan' = [scan EXCEPT !.status = "failed"] /\ Scan!Done
    <3>1. worker' = Scan!Idle /\ jobs' = jobs
      BY <2>3 DEF Scan!Done
    <3>2. scan' \in Scan!Scan /\ scan'.status = "failed" /\ scan'.job = scan.job
      BY <2>3, WorkerTypes DEF Scan!Scan, Scan!ScanStatus
    <3>3. SavesItsOwn'
      BY <1>1, <1>2, <2>1, <2>2, <3>1, <3>2, IdleWorker
      DEF SavesItsOwn, Scan!FinishedIsKept, Scan!Completed
    <3> QED BY <1>1, <1>2, <2>2, <3>1, <3>2, <3>3, IdleWorker, WorkerTypes, ScanWorks
  <2>4. CASE /\ worker' = [worker EXCEPT !.at = "crawl", !.scan = [scan EXCEPT !.status = "running"]]
             /\ scan' = worker'.scan /\ UNCHANGED jobs
    <3> DEFINE running == [scan EXCEPT !.status = "running"]
    <3>1. running \in Scan!Scan /\ running.status = "running" /\ running.job = scan.job
      BY WorkerTypes DEF Scan!Scan, Scan!ScanStatus
    <3> HIDE DEF running
    <3>2. worker' = [worker EXCEPT !.at = "crawl", !.scan = running]
      BY <2>4 DEF running
    <3>3. /\ worker' \in ScanWorkers /\ worker'.at = "crawl" /\ worker'.scan = running
          /\ worker'.job = worker.job
      BY <3>1, <3>2, WorkerTypes DEF ScanWorkers, Scan!Places
    <3>4. scan' = running
      BY <2>4, <3>3
    <3>5. SavesItsOwn'
      BY <1>1, <1>2, <2>1, <2>2, <3>1, <3>3, <3>4
      DEF SavesItsOwn, Scan!FinishedIsKept, Scan!Completed
    <3> QED BY <1>1, <1>2, <2>2, <2>4, <3>1, <3>3, <3>4, <3>5, WorkerTypes, ScanWorks
  <2> QED BY <2>1, <2>3, <2>4
<1> QED BY <1>3, <1>4

LEMMA EndsCrawl == ASSUME ScanInv, Scan!CrawlEnds PROVE ScanInv'
<1>1. /\ worker.at = "crawl"
      /\ UNCHANGED <<clock, removed, scan, kept, file, served, created, caller, tab, finished, torn,
                     agreed, shown, stops>>
  BY DEF Scan!CrawlEnds, Scan!records, Scan!history
<1>2. /\ worker.job.id \in 1..created /\ \A j \in jobs : j.id \in 1..created /\ j.left # 0
      /\ scan.job \in 0..created \/ scan.job = Scan!OldJob
      /\ scan.status = "completed" => scan.job # 0
      /\ scan.status \in {"running", "queued"} /\ worker.scan.job = worker.job.id
      /\ Scan!FinishedIsKept
  BY <1>1 DEF ScanInv, JobsNumbered, SavesItsOwn
<1>3. CASE Scan!Done
  <2>1. worker' = Scan!Idle /\ jobs' = jobs
    BY <1>3 DEF Scan!Done
  <2>2. SavesItsOwn'
    BY <1>1, <1>2, <2>1, IdleWorker DEF SavesItsOwn, Scan!FinishedIsKept, Scan!Completed
  <2> QED BY <1>1, <1>2, <2>1, <2>2, IdleWorker, WorkerTypes, ScanWorks
<1>4. CASE \E end \in {"completed", "failed"} :
              worker' = [worker EXCEPT !.at = end] /\ UNCHANGED jobs
  <2>1. PICK end \in {"completed", "failed"} :
              worker' = [worker EXCEPT !.at = end] /\ UNCHANGED jobs
    BY <1>4
  <2>2. /\ worker' \in ScanWorkers /\ worker'.at = end /\ worker'.scan = worker.scan
        /\ worker'.job = worker.job
    BY <2>1, WorkerTypes DEF ScanWorkers, Scan!Places
  <2>3. SavesItsOwn'
    BY <1>1, <1>2, <2>1, <2>2 DEF SavesItsOwn, Scan!FinishedIsKept, Scan!Completed
  <2> QED BY <1>1, <1>2, <2>1, <2>2, <2>3, WorkerTypes, ScanWorks
<1> QED BY <1>3, <1>4 DEF Scan!CrawlEnds

LEMMA SavesCompleted == ASSUME ScanInv, Scan!SaveCompleted PROVE ScanInv'
<1> DEFINE written == [worker.scan EXCEPT !.status = "completed", !.done = clock]
           new == [worker EXCEPT !.at = "keep", !.scan = written]
<1>1. /\ worker.at = "completed" /\ scan' = written /\ kept' = Scan!KeptBefore(written)
      /\ finished' = written.job /\ worker' = new
      /\ UNCHANGED <<clock, removed, file, served, jobs, created, caller, tab, torn, agreed, shown, stops>>
  BY DEF Scan!SaveCompleted
<1>2. /\ worker.job.id \in 1..created /\ \A j \in jobs : j.id \in 1..created /\ j.left # 0
      /\ scan.status \in {"running", "queued"} /\ worker.scan.job = worker.job.id
  BY <1>1 DEF ScanInv, JobsNumbered, SavesItsOwn
<1>3. written \in Scan!Scan /\ written.job = worker.scan.job /\ written.status = "completed"
  BY WorkerTypes DEF Scan!Scan, Scan!ScanStatus
<1> HIDE DEF written
<1>4. new \in ScanWorkers /\ new.at = "keep" /\ new.scan = written /\ new.job = worker.job
  BY <1>3, WorkerTypes DEF ScanWorkers, Scan!Places
<1> HIDE DEF new
<1>5. kept' = kept
  BY <1>1, <1>2 DEF Scan!KeptBefore
<1>6. written.job \in 0..created /\ written.job # 0 /\ written.job \in Nat
  BY <1>2, <1>3, Numbers
<1>7. SavesItsOwn'
  BY <1>1, <1>4, <1>6 DEF SavesItsOwn, Scan!FinishedIsKept
<1> QED BY <1>1, <1>2, <1>3, <1>4, <1>5, <1>6, <1>7, WorkerTypes, ScanWorks

LEMMA KeepsCompleted == ASSUME ScanInv, Scan!KeepCompleted PROVE ScanInv'
<1>1. /\ worker.at = "keep" /\ kept' = [job |-> worker.scan.job, at |-> worker.scan.done]
      /\ worker' = [worker EXCEPT !.at = "refresh"]
      /\ UNCHANGED <<clock, removed, scan, file, served, jobs, created, caller, tab, finished, torn,
                     agreed, shown, stops>>
  BY DEF Scan!KeepCompleted, Scan!history
<1>2. /\ worker.job.id \in 1..created /\ \A j \in jobs : j.id \in 1..created /\ j.left # 0
      /\ scan.job \in 0..created \/ scan.job = Scan!OldJob
      /\ scan.status = "completed" => scan.job # 0
      /\ worker.scan.job = finished /\ finished # 0
  BY <1>1 DEF ScanInv, JobsNumbered, SavesItsOwn
<1>3. worker' \in ScanWorkers /\ worker'.at = "refresh" /\ worker'.job = worker.job
  BY <1>1, WorkerTypes DEF ScanWorkers, Scan!Places
<1>4. kept' \in Scan!Kept /\ kept'.job = finished
  BY <1>1, <1>2, WorkerTypes DEF Scan!Kept, Scan!Scan
<1>5. SavesItsOwn'
  BY <1>1, <1>2, <1>3, <1>4 DEF SavesItsOwn, Scan!FinishedIsKept, Scan!Completed
<1> QED BY <1>1, <1>2, <1>3, <1>4, <1>5, WorkerTypes, ScanWorks

LEMMA SavesFailed == ASSUME ScanInv, Scan!SaveFailed PROVE ScanInv'
<1> DEFINE written == [worker.scan EXCEPT !.status = "failed"]
<1>1. /\ worker.at = "failed" /\ scan' = written /\ kept' = Scan!KeptBefore(written)
      /\ Scan!Again \/ Scan!Done
      /\ UNCHANGED <<clock, removed, file, served, created, caller, tab, finished, torn, agreed, shown,
                     stops>>
  BY DEF Scan!SaveFailed, Scan!history
<1>2. /\ worker.job.id \in 1..created /\ \A j \in jobs : j.id \in 1..created /\ j.left # 0
      /\ scan.status \in {"running", "queued"} /\ worker.scan.job = worker.job.id
      /\ Scan!FinishedIsKept
  BY <1>1 DEF ScanInv, JobsNumbered, SavesItsOwn
<1>3. written \in Scan!Scan /\ written.job = worker.scan.job /\ written.status = "failed"
  BY WorkerTypes DEF Scan!Scan, Scan!ScanStatus
<1> HIDE DEF written
<1>4. kept' = kept
  BY <1>1, <1>2 DEF Scan!KeptBefore
<1>5. written.job \in 0..created
  BY <1>2, <1>3, Numbers
<1>6. /\ worker'.at = "idle" /\ worker' \in ScanWorkers
      /\ jobs' \subseteq Scan!Job /\ \A j \in jobs' : j.id \in 1..created /\ j.left # 0
  <2>1. CASE Scan!Again
    BY <1>1, <2>1, GivenBack
  <2>2. CASE Scan!Done
    BY <1>2, <2>2, IdleWorker, WorkerTypes DEF Scan!Done
  <2> QED BY <1>1, <2>1, <2>2
<1>7. SavesItsOwn'
  BY <1>1, <1>2, <1>3, <1>4, <1>6 DEF SavesItsOwn, Scan!FinishedIsKept, Scan!Completed
<1> QED BY <1>1, <1>2, <1>3, <1>4, <1>5, <1>6, <1>7, WorkerTypes, ScanWorks

\* A step of the worker about a file: no scan, and no word of the customer.
LEMMA FileWorks ==
  ASSUME ScanInv, worker.at \notin {"idle", "keep"},
         UNCHANGED <<clock, removed, scan, kept, served, jobs, created, caller, tab, finished, torn,
                     agreed, shown, stops>>,
         file' \in [Files -> Scan!SiteFile],
         \A k \in Files : Sound(file'[k], agreed[k], shown[k]),
         \/ worker' = Scan!Idle
         \/ /\ worker' \in ScanWorkers /\ worker'.job = worker.job
            /\ worker'.at \in {"refresh", "merge", "look"}
            /\ worker'.at \in {"merge", "look"} =>
                  /\ worker'.kind \in Files
                  /\ Sound(worker'.file, agreed[worker'.kind], shown[worker'.kind])
            /\ worker'.at = "look" => worker'.file.status = "waiting_for_customer"
  PROVE  ScanInv'
<1>1. worker' \in ScanWorkers /\ worker'.at \in {"idle", "refresh", "merge", "look"}
  BY IdleWorker
<1>2. Scan!TypeOK'
  BY <1>1 DEF ScanInv, Scan!TypeOK, ScanWorkers
<1>3. FilesSound'
  <2>1. Scan!NoText' = Scan!NoText /\ Scan!NoTab' = Scan!NoTab
    BY DEF Scan!NoText, Scan!NoTab, Scan!NoFile
  <2>2. /\ \A k \in Files : served[k] # Scan!NoText => served[k] \in shown[k]
        /\ tab.write = "none" => tab = Scan!NoTab
        /\ tab.write # "none" =>
              /\ tab.kind \in Files /\ Sound(tab.file, agreed[tab.kind], shown[tab.kind])
              /\ tab.file.status # "none"
        /\ tab.write = "check" => tab.file.status = "waiting_for_customer"
    BY DEF ScanInv, FilesSound
  <2>3. /\ worker'.at \in {"merge", "look"} =>
              /\ worker'.kind \in Files
              /\ Sound(worker'.file, agreed[worker'.kind], shown[worker'.kind])
        /\ worker'.at = "look" => worker'.file.status = "waiting_for_customer"
    BY IdleWorker
  <2> QED BY <2>1, <2>2, <2>3 DEF FilesSound
<1>4. JobsNumbered'
  BY <1>1, IdleWorker DEF ScanInv, JobsNumbered, Scan!OldJob
<1>5. SavesItsOwn'
  BY <1>1 DEF ScanInv, SavesItsOwn, Scan!FinishedIsKept, Scan!Completed
<1> QED BY <1>2, <1>3, <1>4, <1>5 DEF ScanInv

\* The worker reads a file: the copy is as sound as the record.
LEMMA ReadsFile ==
  ASSUME ScanInv, NEW k \in Files, NEW place \in {"merge", "look"}, worker.at \notin {"idle", "keep"},
         UNCHANGED <<clock, removed, scan, kept, file, served, jobs, created, caller, tab, finished,
                     torn, agreed, shown, stops>>,
         worker' = [worker EXCEPT !.at = place, !.kind = k, !.file = file[k]],
         place = "look" => file[k].status = "waiting_for_customer"
  PROVE  ScanInv'
<1>1. file \in [Files -> Scan!SiteFile] /\ \A i \in Files : Sound(file[i], agreed[i], shown[i])
  BY DEF ScanInv, Scan!TypeOK, FilesSound
<1>2. /\ worker' \in ScanWorkers /\ worker'.job = worker.job /\ worker'.at = place
      /\ worker'.kind = k /\ worker'.file = file[k]
  BY <1>1, WorkerTypes DEF ScanWorkers, Scan!Places
<1> QED BY <1>1, <1>2, FileWorks

LEMMA WorksOnFiles ==
  ASSUME ScanInv,
         \/ \E k \in Files : Scan!ReadProposal(k)
         \/ Scan!SaveProposal \/ Scan!ReadFile \/ Scan!LookAtFile
  PROVE  ScanInv'
<1>1. /\ file \in [Files -> Scan!SiteFile] /\ \A i \in Files : Sound(file[i], agreed[i], shown[i])
      /\ \A i \in Files : served[i] # Scan!NoText => served[i] \in shown[i]
      /\ worker.at \in {"merge", "look"} =>
            worker.kind \in Files /\ Sound(worker.file, agreed[worker.kind], shown[worker.kind])
      /\ worker.at = "look" => worker.file.status = "waiting_for_customer"
  BY DEF ScanInv, Scan!TypeOK, FilesSound
<1>2. ASSUME NEW k \in Files, Scan!ReadProposal(k) PROVE ScanInv'
  <2>1. /\ worker.at = "refresh"
        /\ worker' = [worker EXCEPT !.at = "merge", !.kind = k, !.file = file[k]]
        /\ UNCHANGED <<clock, removed, scan, kept, file, served, jobs, created, caller, tab, finished,
                       torn, agreed, shown, stops>>
    BY <1>2 DEF Scan!ReadProposal, Scan!records, Scan!history
  <2>2. "merge" \in {"merge", "look"}
    OBVIOUS
  <2> QED BY <2>1, <2>2, ReadsFile
<1>3. ASSUME Scan!SaveProposal PROVE ScanInv'
  <2>1. /\ worker.at = "merge"
        /\ \/ Scan!Done
           \/ worker' = [worker EXCEPT !.at = "refresh"] /\ UNCHANGED jobs
        /\ UNCHANGED <<clock, removed, scan, kept, served, created, caller, tab, finished, torn,
                       agreed, shown, stops>>
    BY <1>3 DEF Scan!SaveProposal, Scan!history
  <2>2. PICK written \in Scan!Merged(worker.kind, worker.file) :
              file' = [file EXCEPT ![worker.kind] = written]
    BY <1>3 DEF Scan!SaveProposal
  <2>3. worker.kind \in Files /\ Sound(worker.file, agreed[worker.kind], shown[worker.kind])
    BY <1>1, <2>1
  <2>4. \/ written = worker.file
        \/ written \in [status : {"proposed"}, text : Texts]
        \/ /\ worker.file.status \in {"proposed", "waiting_for_customer", "rejected"}
           /\ written = [worker.file EXCEPT !.status = "not_needed"]
    BY <2>2 DEF Scan!Merged
  <2>5. Sound(written, agreed[worker.kind], shown[worker.kind])
    <3>1. CASE written = worker.file
      BY <2>3, <3>1
    <3>2. CASE written \in [status : {"proposed"}, text : Texts]
      BY <3>2 DEF Sound, Scan!SiteFile, Scan!SiteFileStatus
    <3>3. CASE /\ worker.file.status \in {"proposed", "waiting_for_customer", "rejected"}
               /\ written = [worker.file EXCEPT !.status = "not_needed"]
      <4>1. written \in Scan!SiteFile /\ written.status = "not_needed" /\ written.text = worker.file.text
        BY <3>3, WorkerTypes DEF Scan!SiteFile, Scan!SiteFileStatus
      <4> QED BY <2>3, <3>3, <4>1 DEF Sound
    <3> QED BY <2>4, <3>1, <3>2, <3>3
  <2>6. /\ file' \in [Files -> Scan!SiteFile]
        /\ \A i \in Files : Sound(file'[i], agreed[i], shown[i])
    <3>1. written \in Scan!SiteFile
      BY <2>5 DEF Sound
    <3> QED BY <1>1, <2>2, <2>3, <2>5, <3>1
  <2>7. CASE Scan!Done
    BY <2>1, <2>6, <2>7, FileWorks DEF Scan!Done
  <2>8. CASE worker' = [worker EXCEPT !.at = "refresh"] /\ UNCHANGED jobs
    <3>1. worker' \in ScanWorkers /\ worker'.job = worker.job /\ worker'.at = "refresh"
      BY <2>8, WorkerTypes DEF ScanWorkers, Scan!Places
    <3> QED BY <2>1, <2>6, <2>8, <3>1, FileWorks
  <2> QED BY <2>1, <2>7, <2>8
<1>4. ASSUME Scan!ReadFile PROVE ScanInv'
  <2> DEFINE k == worker.job.about
  <2>1. /\ worker.at = "read" /\ k \in Files
        /\ UNCHANGED <<clock, removed, scan, kept, file, served, created, caller, tab, finished,
                       torn, agreed, shown, stops>>
        /\ \/ /\ file[k].status = "waiting_for_customer" /\ UNCHANGED jobs
              /\ worker' = [worker EXCEPT !.at = "look", !.kind = k, !.file = file[k]]
           \/ Scan!Done
    BY <1>4, WorkerTypes DEF Scan!ReadFile, Scan!records, Scan!history, Scan!Job
  <2> HIDE DEF k
  <2>2. CASE Scan!Done
    BY <1>1, <2>1, <2>2, FileWorks DEF Scan!Done
  <2>3. CASE ~Scan!Done
    <3>1. "look" \in {"merge", "look"}
      OBVIOUS
    <3> QED BY <2>1, <2>3, <3>1, ReadsFile
  <2> QED BY <2>2, <2>3
<1>5. ASSUME Scan!LookAtFile PROVE ScanInv'
  <2> DEFINE k == worker.kind
             f == worker.file
             written == IF served[k] = f.text THEN [f EXCEPT !.status = "applied"] ELSE f
  <2>1. /\ worker.at = "look" /\ file' = [file EXCEPT ![k] = written]
        /\ worker' = Scan!Idle /\ UNCHANGED jobs
        /\ UNCHANGED <<clock, removed, scan, kept, served, created, caller, tab, finished, torn,
                       agreed, shown, stops>>
    BY <1>5 DEF Scan!LookAtFile, Scan!Done, Scan!history
  <2>2. /\ k \in Files /\ Sound(f, agreed[k], shown[k]) /\ f.status = "waiting_for_customer"
        /\ f \in Scan!SiteFile
    BY <1>1, <2>1, WorkerTypes
  <2>3. f.text \in Texts /\ f.text \in agreed[k]
    BY <2>2 DEF Sound
  <2>4. written \in Scan!SiteFile /\ Sound(written, agreed[k], shown[k])
    <3>1. CASE served[k] = f.text
      <4>1. written = [f EXCEPT !.status = "applied"]
        BY <3>1
      <4>2. written \in Scan!SiteFile /\ written.status = "applied" /\ written.text = f.text
        BY <2>2, <4>1 DEF Scan!SiteFile, Scan!SiteFileStatus
      <4>3. f.text \in shown[k]
        BY <1>1, <2>2, <2>3, <3>1, ScanBounds
      <4> HIDE DEF written
      <4> QED BY <2>3, <4>2, <4>3 DEF Sound
    <3>2. CASE served[k] # f.text
      BY <2>2, <3>2
    <3> QED BY <3>1, <3>2
  <2> HIDE DEF written, f, k
  <2>5. /\ file' \in [Files -> Scan!SiteFile]
        /\ \A i \in Files : Sound(file'[i], agreed[i], shown[i])
    BY <1>1, <2>1, <2>2, <2>4
  <2> QED BY <2>1, <2>5, FileWorks
<1> QED BY <1>2, <1>3, <1>4, <1>5

LEMMA ScanStep ==
  ASSUME ScanInv, Scan!Next \/ UNCHANGED Scan!vars
  PROVE  ScanInv'
<1>1. CASE Scan!WorkerStep
  BY <1>1, ScanTaken, FindsScan, EndsCrawl, SavesCompleted, KeepsCompleted, SavesFailed, WorksOnFiles
  DEF Scan!WorkerStep
<1>2. CASE UNCHANGED Scan!vars
  <2>1. UNCHANGED <<clock, removed, scan, kept, file, served, jobs, created, caller, worker, tab,
                    finished, torn, agreed, shown, stops>>
    BY <1>2 DEF Scan!vars, Scan!records, Scan!history
  <2>2. Scan!TypeOK'
    BY <2>1 DEF ScanInv, Scan!TypeOK
  <2>3. FilesSound'
    BY <2>1, FilesRest DEF ScanInv
  <2>4. JobsNumbered' /\ SavesItsOwn'
    BY <2>1, SavesRest
  <2> QED BY <2>2, <2>3, <2>4 DEF ScanInv
<1>3. CASE \E c \in Scan!ScanTrigger : Scan!Decide(c) \/ Scan!QueueScan(c)
  BY <1>3, ScanDecides, ScanQueues
<1>4. CASE \E k \in Files :
          \/ Scan!PutFile(k)
          \/ \E write \in {"approve", "reject", "check"} : Scan!OpenFile(k, write)
  BY <1>4, ScanFileRequests
<1> QED BY <1>1, <1>2, <1>3, <1>4, ScanFileRequests, ScanDecides, ScanStops DEF Scan!Next

LEMMA ScanPromise ==
  ScanInv => Scan!TypeOK /\ Scan!FinishedIsKept /\ Scan!AppliedWasAgreedAndShown
BY DEF ScanInv, SavesItsOwn, FilesSound, Sound, Scan!AppliedWasAgreedAndShown
-----------------------------------------------------------------------------
(* The runs (SeoRun). One delivery works at a time, on a run that is marked  *)
(* as running: what it found when it comes to the inbox is what is stored,   *)
(* and it asks Google or the model only while nothing is stored.             *)
InHand(r) ==
    /\ r \in Runs /\ job[r].status # "none" /\ worker.at # "idle"
    /\ worker.at # "end" /\ Kind[r] # "description" => run[r] = "running"
    /\ worker.at = "analyse" => Kind[r] = "analysis"
    /\ worker.at \in {"propose", "search", "store", "complete"} => Kind[r] # "description"
    /\ worker.at \in {"search", "model"} =>
          /\ Kind[r] = "target" => proposal[r] = "none"
          /\ Kind[r] = "description" => action[r] = "none"
    /\ worker.at = "queue" /\ Kind[r] # "description" => worker.outcome = proposal[r]
    /\ worker.at = "complete" /\ Kind[r] = "target" /\ proposal[r] = "completed" =>
          action[r] # "none"

RunsInv ==
    /\ Run!TypeOK
    /\ Run!CompletedIsAnswered
    /\ \A r \in Runs : /\ job[r].status = "none" => run[r] = "none"
                       /\ job[r].status \in {"none", "queued"} => job[r].left # 0
    /\ worker = Run!Idle \/ InHand(worker.on)

RunWorkers == [on : Runs \cup {Run!Nobody}, at : Run!Steps, outcome : Run!TitleProposalStatus]
RunJob == [status : Run!JobStatus, left : Nat]

LEMMA RunBounds ==
  /\ Kind \in [Runs -> {"analysis", "target", "description"}] /\ Run!Nobody \notin Runs
  /\ Attempts \in [Runs -> Nat] /\ (\A r \in Runs : Attempts[r] # 0)
  /\ MaxFaults \in Nat /\ MaxStops \in Nat
  /\ Run!Idle \in RunWorkers /\ Run!Idle.at = "idle" /\ Run!Idle.on = Run!Nobody
  /\ Run!Idle.outcome = "none"
<1>1. MaxStops \in Nat
  BY ScansAssumption
<1>2. /\ Run!Idle \in RunWorkers /\ Run!Idle.at = "idle" /\ Run!Idle.on = Run!Nobody
      /\ Run!Idle.outcome = "none"
  BY DEF Run!Idle, RunWorkers, Run!Steps, Run!TitleProposalStatus
<1> QED BY <1>1, <1>2, RunsAssumption DEF Run!Nobody

LEMMA RunTypes ==
  ASSUME RunsInv
  PROVE  /\ run \in [Runs -> Run!SEORunStatus] /\ job \in [Runs -> RunJob]
         /\ proposal \in [Runs -> Run!TitleProposalStatus]
         /\ action \in [Runs -> {"none", "awaiting_approval", "decided"}]
         /\ worker \in RunWorkers /\ searches \in [Runs -> Nat] /\ answers \in [Runs -> Nat]
         /\ faults \in 0..MaxFaults /\ stops \in 0..MaxStops
BY DEF RunsInv, Run!TypeOK, RunWorkers, RunJob

LEMMA RunsStart == Run!Init => RunsInv
<1> SUFFICES ASSUME Run!Init PROVE RunsInv
  OBVIOUS
<1>1. Run!TypeOK
  <2>1. job \in [Runs -> RunJob]
    BY RunBounds DEF Run!Init, RunJob, Run!JobStatus
  <2>2. 0 \in 0..MaxFaults /\ 0 \in 0..MaxStops
    BY RunBounds
  <2> QED BY <2>1, <2>2, RunBounds
      DEF Run!Init, Run!TypeOK, RunWorkers, RunJob, Run!SEORunStatus, Run!TitleProposalStatus
<1> QED BY <1>1, RunBounds DEF RunsInv, Run!Init, Run!CompletedIsAnswered

\* A job of one run changes.
LEMMA RunJobs ==
  ASSUME job \in [Runs -> RunJob], NEW r \in Runs, NEW new \in RunJob,
         job' = [job EXCEPT ![r] = new]
  PROVE  /\ job' \in [Runs -> RunJob] /\ job'[r] = new
         /\ \A other \in Runs : other # r => job'[other] = job[other]
OBVIOUS

\* The delivery goes on: what it works on, and what it has found.
LEMMA RunGoes ==
  ASSUME RunsInv, worker.on \in Runs, NEW step \in Run!Steps,
         NEW outcome_ \in Run!TitleProposalStatus,
         worker' = [worker EXCEPT !.at = step, !.outcome = outcome_]
  PROVE  /\ worker' \in RunWorkers /\ worker'.on = worker.on /\ worker'.at = step
         /\ worker'.outcome = outcome_
BY RunTypes DEF RunWorkers

\* The job of the run in hand is over, or goes back in the queue.
LEMMA RunOver ==
  ASSUME RunsInv, NEW r \in Runs, job' = Run!JobOver(r)
  PROVE  /\ job' \in [Runs -> RunJob]
         /\ \A other \in Runs : other # r => job'[other] = job[other]
         /\ job'[r].status # "none" /\ (job'[r].status = "queued" => job'[r].left # 0)
<1> DEFINE status == IF job[r].status = "running" /\ job[r].left > 0 THEN "queued" ELSE "ended"
           new == [job[r] EXCEPT !.status = status]
<1>1. job \in [Runs -> RunJob] /\ job[r] \in RunJob
  BY RunTypes
<1>2. job' = [job EXCEPT ![r] = new]
  BY <1>1 DEF Run!JobOver
<1>3. status \in {"queued", "ended"} /\ (status = "queued" => job[r].left > 0)
  OBVIOUS
<1> HIDE DEF status
<1>4. new \in RunJob /\ new.status = status /\ new.left = job[r].left
  BY <1>1, <1>3 DEF RunJob, Run!JobStatus
<1> HIDE DEF new
<1>5. job[r].left > 0 => job[r].left # 0
  BY <1>1 DEF RunJob
<1> QED BY <1>1, <1>2, <1>3, <1>4, <1>5, RunJobs

\* The handler raised: nothing of what is stored changes.
LEMMA RunRaises ==
  ASSUME RunsInv, NEW r \in Runs, worker.on = r, worker # Run!Idle, worker.at # "end", Run!Raise(r),
         UNCHANGED <<proposal, action, searches, answers, stops>>, faults' \in 0..MaxFaults
  PROVE  RunsInv' /\ Run!PaidOnceStep
<1>1. /\ run' = IF Kind[r] = "description" THEN run ELSE [run EXCEPT ![r] = "failed"]
      /\ job' = Run!JobOver(r) /\ worker' = Run!Idle
  BY DEF Run!Raise
<1>2. /\ run' \in [Runs -> Run!SEORunStatus]
      /\ \A s \in Runs : run'[s] = run[s] \/ (s = r /\ run'[s] = "failed" /\ run[s] = "running")
  BY <1>1, RunTypes DEF RunsInv, InHand, Run!SEORunStatus
<1>3. /\ job' \in [Runs -> RunJob]
      /\ \A other \in Runs : other # r => job'[other] = job[other]
      /\ job'[r].status # "none" /\ (job'[r].status = "queued" => job'[r].left # 0)
  BY <1>1, RunOver
<1>4. Run!TypeOK'
  BY <1>1, <1>2, <1>3, RunTypes, RunBounds DEF Run!TypeOK, RunWorkers, RunJob
<1>5. \A s \in Runs : /\ job'[s].status = "none" => run'[s] = "none"
                      /\ job'[s].status \in {"none", "queued"} => job'[s].left # 0
  BY <1>2, <1>3 DEF RunsInv
<1>6. Run!CompletedIsAnswered'
  BY <1>2 DEF RunsInv, Run!CompletedIsAnswered
<1>7. Run!PaidOnceStep
  BY <1>2 DEF Run!PaidOnceStep
<1>8. worker' = Run!Idle'
  BY <1>1 DEF Run!Idle, Run!Nobody
<1> QED BY <1>4, <1>5, <1>6, <1>7, <1>8 DEF RunsInv

\* A run is created, or its job delivered.
LEMMA RunBegins ==
  ASSUME RunsInv, NEW r \in Runs, Run!Create(r) \/ Run!Deliver(r)
  PROVE  RunsInv' /\ Run!PaidOnceStep
<1>1. CASE Run!Create(r)
  <2> DEFINE new == [job[r] EXCEPT !.status = "queued"]
  <2>1. /\ job[r].status = "none" /\ job' = [job EXCEPT ![r] = new]
        /\ run' = IF Kind[r] = "description" THEN run ELSE [run EXCEPT ![r] = "queued"]
        /\ UNCHANGED <<proposal, action, worker, searches, answers, faults, stops>>
    BY <1>1, RunTypes DEF Run!Create, Run!paid
  <2>2. new \in RunJob /\ new.status = "queued" /\ new.left = job[r].left
    BY RunTypes DEF RunJob, Run!JobStatus
  <2> HIDE DEF new
  <2>3. /\ job' \in [Runs -> RunJob] /\ job'[r] = new
        /\ \A other \in Runs : other # r => job'[other] = job[other]
    BY <2>1, <2>2, RunTypes, RunJobs
  <2>4. /\ run' \in [Runs -> Run!SEORunStatus] /\ run[r] = "none"
        /\ \A s \in Runs : run'[s] = run[s] \/ (s = r /\ run'[s] = "queued")
    BY <2>1, RunTypes DEF RunsInv, Run!SEORunStatus
  <2>5. Run!TypeOK'
    BY <2>1, <2>3, <2>4, RunTypes DEF Run!TypeOK, RunWorkers, RunJob
  <2>6. Run!CompletedIsAnswered'
    BY <2>1, <2>4 DEF RunsInv, Run!CompletedIsAnswered
  <2>7. \A s \in Runs : /\ job'[s].status = "none" => run'[s] = "none"
                        /\ job'[s].status \in {"none", "queued"} => job'[s].left # 0
    BY <2>1, <2>2, <2>3, <2>4 DEF RunsInv
  <2>8. (worker = Run!Idle \/ InHand(worker.on))'
    <3>1. CASE worker = Run!Idle
      BY <2>1, <3>1 DEF Run!Idle, Run!Nobody
    <3>2. CASE InHand(worker.on)
      <4>1. worker.on # r /\ worker.on \in Runs
        BY <2>1, <3>2 DEF InHand
      <4>2. job'[worker.on] = job[worker.on] /\ run'[worker.on] = run[worker.on]
        BY <2>3, <2>4, <4>1
      <4> QED BY <2>1, <3>2, <4>2 DEF InHand
    <3> QED BY <3>1, <3>2 DEF RunsInv
  <2>9. Run!PaidOnceStep
    BY <2>1, <2>4 DEF Run!PaidOnceStep
  <2> QED BY <2>5, <2>6, <2>7, <2>8, <2>9 DEF RunsInv
<1>2. CASE Run!Deliver(r)
  <2> DEFINE new == [status |-> "running", left |-> job[r].left - 1]
             step == IF Run!NothingToDo(r) THEN "end"
                     ELSE CASE Kind[r] = "analysis" -> "analyse"
                            [] Kind[r] = "target" -> "propose"
                            [] Kind[r] = "description" -> "model"
  <2>1. /\ job[r].status = "queued" /\ job' = [job EXCEPT ![r] = new]
        /\ UNCHANGED <<proposal, action, searches, answers, faults, stops>>
    BY <1>2, RunTypes DEF Run!Deliver, Run!paid
  <2>2. new \in RunJob /\ new.status = "running"
    <3>1. job[r].left # 0 /\ job[r].left \in Nat
      BY <2>1, RunTypes DEF RunsInv, RunJob
    <3> QED BY <3>1 DEF RunJob, Run!JobStatus
  <2> HIDE DEF new
  <2>3. /\ job' \in [Runs -> RunJob] /\ job'[r].status = "running"
        /\ \A other \in Runs : other # r => job'[other] = job[other]
    BY <2>1, <2>2, RunTypes, RunJobs
  <2>4. worker' = [Run!Idle EXCEPT !.on = r, !.at = step]
    BY <1>2 DEF Run!Deliver
  <2>5. /\ step \in Run!Steps /\ step # "idle"
        /\ step = "end" \/ (~Run!NothingToDo(r) /\ step \in {"analyse", "propose", "model"})
        /\ step = "analyse" => Kind[r] = "analysis"
        /\ step = "propose" => Kind[r] = "target"
        /\ step = "model" => Kind[r] = "description"
    <3>1. Kind[r] \in {"analysis", "target", "description"}
      BY RunBounds
    <3> QED BY <3>1 DEF Run!Steps
  <2> HIDE DEF step
  <2>6. /\ worker' \in RunWorkers /\ worker'.on = r /\ worker'.at = step
    BY <2>4, <2>5, RunBounds DEF RunWorkers
  <2>7. run' = IF Run!NothingToDo(r) \/ Kind[r] = "description" THEN run
               ELSE [run EXCEPT ![r] = "running"]
    BY <1>2 DEF Run!Deliver
  <2>8. /\ run' \in [Runs -> Run!SEORunStatus]
        /\ \A s \in Runs : run'[s] = run[s] \/ (s = r /\ run[s] # "completed" /\ run'[s] = "running")
        /\ step # "end" /\ Kind[r] # "description" => run'[r] = "running"
    BY <2>5, <2>7, RunTypes DEF Run!NothingToDo, Run!SEORunStatus
  <2>9. Run!TypeOK'
    BY <2>1, <2>3, <2>6, <2>8, RunTypes DEF Run!TypeOK, RunWorkers, RunJob
  <2>10. Run!CompletedIsAnswered'
    BY <2>1, <2>8 DEF RunsInv, Run!CompletedIsAnswered
  <2>11. \A s \in Runs : /\ job'[s].status = "none" => run'[s] = "none"
                         /\ job'[s].status \in {"none", "queued"} => job'[s].left # 0
    BY <2>3, <2>8 DEF RunsInv
  <2>12. InHand(worker.on)'
    BY <2>1, <2>3, <2>5, <2>6, <2>8 DEF InHand, Run!NothingToDo
  <2>13. Run!PaidOnceStep
    BY <2>1, <2>8 DEF Run!PaidOnceStep
  <2> QED BY <2>9, <2>10, <2>11, <2>12, <2>13 DEF RunsInv
<1> QED BY <1>1, <1>2

\* What holds of a run that another one's step does not touch is only of that other.
LEMMA RunMoves ==
  ASSUME RunsInv, NEW r \in Runs, worker.on = r, worker # Run!Idle,
         NEW step \in Run!Steps \ {"idle"}, NEW outcome_ \in Run!TitleProposalStatus,
         worker' = [worker EXCEPT !.at = step, !.outcome = outcome_],
         UNCHANGED <<run, job, faults, stops>>,
         proposal' \in [Runs -> Run!TitleProposalStatus],
         action' \in [Runs -> {"none", "awaiting_approval", "decided"}],
         searches' \in [Runs -> Nat], answers' \in [Runs -> Nat],
         \A s \in Runs : s # r =>
            /\ proposal'[s] = proposal[s] /\ action'[s] = action[s]
            /\ searches'[s] = searches[s] /\ answers'[s] = answers[s],
         proposal[r] # "none" => proposal'[r] = proposal[r],
         action[r] # "none" => action'[r] = action[r],
         Kind[r] # "description" /\ action'[r] # "none" => proposal'[r] = "completed",
         proposal'[r] # proposal[r] => Kind[r] # "description" /\ worker.at # "end",
         (Kind[r] = "target" /\ proposal[r] # "none") \/ (Kind[r] = "description" /\ action[r] # "none")
            => searches'[r] = searches[r] /\ answers'[r] = answers[r],
         step # "end" /\ Kind[r] # "description" => worker.at # "end",
         step = "analyse" => Kind[r] = "analysis",
         step \in {"propose", "search", "store", "complete"} => Kind[r] # "description",
         step \in {"search", "model"} =>
            /\ Kind[r] = "target" => proposal'[r] = "none"
            /\ Kind[r] = "description" => action'[r] = "none",
         step = "queue" /\ Kind[r] # "description" => outcome_ = proposal'[r],
         step = "complete" /\ Kind[r] = "target" /\ proposal'[r] = "completed" => action'[r] # "none"
  PROVE  RunsInv' /\ Run!PaidOnceStep
<1>1. /\ worker' \in RunWorkers /\ worker'.on = r /\ worker'.at = step /\ worker'.outcome = outcome_
  BY RunGoes
<1>2. InHand(r)
  BY DEF RunsInv
<1>3. Run!TypeOK'
  BY <1>1, RunTypes DEF Run!TypeOK, RunWorkers, RunJob
<1>4. InHand(worker.on)'
  BY <1>1, <1>2 DEF InHand
<1>5. Run!CompletedIsAnswered'
  <2> SUFFICES ASSUME NEW s \in Runs
               PROVE  /\ Kind[s] = "target" /\ run[s] = "completed" /\ proposal'[s] = "completed" =>
                            action'[s] # "none"
                      /\ Kind[s] # "description" /\ action'[s] # "none" => proposal'[s] = "completed"
    BY DEF Run!CompletedIsAnswered
  <2>1. /\ Kind[s] = "target" /\ run[s] = "completed" /\ proposal[s] = "completed" => action[s] # "none"
        /\ Kind[s] # "description" /\ action[s] # "none" => proposal[s] = "completed"
    BY DEF RunsInv, Run!CompletedIsAnswered
  <2>2. CASE s # r
    BY <2>1, <2>2
  <2>3. CASE s = r
    <3>1. CASE proposal'[r] = proposal[r]
      BY <2>1, <2>3, <3>1
    <3>2. CASE proposal'[r] # proposal[r]
      BY <1>2, <2>3, <3>2 DEF InHand
    <3> QED BY <3>1, <3>2
  <2> QED BY <2>2, <2>3
<1>6. Run!PaidOnceStep
  BY DEF Run!PaidOnceStep
<1> QED BY <1>3, <1>4, <1>5, <1>6 DEF RunsInv

\* The work on a run: each step goes on as RunMoves says, or raises.
LEMMA RunIsWorkedOn ==
  ASSUME RunsInv, NEW r \in Runs,
         \/ Run!Analyse(r) \/ Run!Propose(r) \/ Run!Search(r) \/ Run!AskModel(r)
         \/ Run!StoreProposal(r) \/ Run!QueueForApproval(r)
  PROVE  RunsInv' /\ Run!PaidOnceStep
<1>1. /\ worker.on = r /\ worker # Run!Idle
      /\ worker.at \in {"analyse", "propose", "search", "model", "store", "queue"}
      /\ faults' = faults /\ stops' = stops
  BY RunBounds DEF Run!Analyse, Run!Propose, Run!Search, Run!AskModel, Run!StoreProposal,
     Run!QueueForApproval, Run!At
<1>2. InHand(r) /\ Kind[r] \in {"analysis", "target", "description"}
  BY <1>1, RunBounds DEF RunsInv
<1>3. /\ proposal \in [Runs -> Run!TitleProposalStatus] /\ searches \in [Runs -> Nat]
      /\ action \in [Runs -> {"none", "awaiting_approval", "decided"}] /\ answers \in [Runs -> Nat]
      /\ worker \in RunWorkers /\ worker.outcome \in Run!TitleProposalStatus
      /\ proposal[r] \in Run!TitleProposalStatus
      /\ Kind[r] # "description" /\ action[r] # "none" => proposal[r] = "completed"
      /\ faults \in 0..MaxFaults
  BY RunTypes DEF RunWorkers, RunsInv, Run!CompletedIsAnswered
<1> PICK now \in Run!TitleProposalStatus : now = worker.outcome
  BY <1>3
<1>4. \A step \in Run!Steps : Run!Goto(step) =>
          worker' = [worker EXCEPT !.at = step, !.outcome = now]
  BY <1>3 DEF Run!Goto, RunWorkers
<1>5. \A step, found_ : Run!Found(step, found_) =>
          worker' = [worker EXCEPT !.at = step, !.outcome = found_]
  BY DEF Run!Found
<1>6. /\ {"analyse", "propose", "search", "model", "store", "queue", "complete", "end"}
            \subseteq Run!Steps \ {"idle"}
      /\ {"none", "blocked", "failed", "completed"} = Run!TitleProposalStatus
  BY DEF Run!Steps, Run!TitleProposalStatus
<1>7. ASSUME Run!Raise(r), UNCHANGED <<proposal, action, searches, answers>>
      PROVE  RunsInv' /\ Run!PaidOnceStep
  BY <1>1, <1>3, <1>7, RunRaises
<1>8. CASE Run!Analyse(r)
  <2>1. /\ worker.at = "analyse" /\ UNCHANGED <<proposal, action, searches, answers>>
        /\ \/ Run!Goto("complete") /\ UNCHANGED <<run, job>>
           \/ Run!Goto("propose") /\ UNCHANGED <<run, job>>
           \/ Run!Raise(r)
    BY <1>8 DEF Run!Analyse, Run!At, Run!paid
  <2>2. Kind[r] = "analysis"
    BY <1>2, <2>1 DEF InHand
  <2>3. CASE Run!Goto("complete") /\ UNCHANGED <<run, job>>
    <3>1. "complete" \in Run!Steps \ {"idle"}
      BY <1>6
    <3>2. worker' = [worker EXCEPT !.at = "complete", !.outcome = now]
      BY <1>3, <1>4, <2>1, <2>2, <2>3, <3>1
    <3> QED BY <1>1, <1>3, <2>1, <2>2, <2>3, <3>1, <3>2, RunMoves
  <2>4. CASE Run!Goto("propose") /\ UNCHANGED <<run, job>>
    <3>1. "propose" \in Run!Steps \ {"idle"}
      BY <1>6
    <3>2. worker' = [worker EXCEPT !.at = "propose", !.outcome = now]
      BY <1>3, <1>4, <2>1, <2>2, <2>4, <3>1
    <3> QED BY <1>1, <1>3, <2>1, <2>2, <2>4, <3>1, <3>2, RunMoves
  <2> QED BY <1>7, <2>1, <2>3, <2>4
<1>9. CASE Run!Propose(r)
  <2>1. /\ worker.at = "propose" /\ UNCHANGED <<run, job, proposal, action, searches, answers>>
        /\ IF Kind[r] = "target" /\ proposal[r] # "none"
           THEN Run!Found("queue", proposal[r]) ELSE Run!Goto("search")
    BY <1>9 DEF Run!Propose, Run!At, Run!paid
  <2>2. Kind[r] # "description"
    BY <1>2, <2>1 DEF InHand
  <2>3. CASE Kind[r] = "target" /\ proposal[r] # "none"
    <3>1. "queue" \in Run!Steps \ {"idle"}
      BY <1>6
    <3>2. worker' = [worker EXCEPT !.at = "queue", !.outcome = proposal[r]]
      BY <1>3, <1>5, <2>1, <2>2, <2>3, <3>1
    <3> QED BY <1>1, <1>3, <2>1, <2>2, <2>3, <3>1, <3>2, RunMoves
  <2>4. CASE ~(Kind[r] = "target" /\ proposal[r] # "none")
    <3>1. "search" \in Run!Steps \ {"idle"}
      BY <1>6
    <3>2. worker' = [worker EXCEPT !.at = "search", !.outcome = now]
      BY <1>3, <1>4, <2>1, <2>2, <2>4, <3>1
    <3> QED BY <1>1, <1>3, <2>1, <2>2, <2>4, <3>1, <3>2, RunMoves
  <2> QED BY <2>3, <2>4
<1>10. CASE Run!Search(r)
  <2>1. /\ worker.at = "search" /\ UNCHANGED <<run, job, proposal, action, answers>>
        /\ searches' = [searches EXCEPT ![r] = @ + 1]
        /\ Run!Found("store", "blocked") \/ Run!Goto("model")
    BY <1>10 DEF Run!Search, Run!At
  <2>2. Kind[r] # "description" /\ (Kind[r] = "target" => proposal[r] = "none")
    BY <1>2, <2>1 DEF InHand
  <2>3. searches' \in [Runs -> Nat] /\ \A s \in Runs : s # r => searches'[s] = searches[s]
    BY <1>3, <2>1
  <2>4. CASE Run!Found("store", "blocked")
    <3>1. "store" \in Run!Steps \ {"idle"} /\ "blocked" \in Run!TitleProposalStatus
      BY <1>6
    <3>2. worker' = [worker EXCEPT !.at = "store", !.outcome = "blocked"]
      BY <1>3, <1>5, <2>1, <2>2, <2>3, <2>4, <3>1
    <3> QED BY <1>1, <1>3, <2>1, <2>2, <2>3, <2>4, <3>1, <3>2, RunMoves
  <2>5. CASE Run!Goto("model")
    <3>1. "model" \in Run!Steps \ {"idle"}
      BY <1>6
    <3>2. worker' = [worker EXCEPT !.at = "model", !.outcome = now]
      BY <1>3, <1>4, <2>1, <2>2, <2>3, <2>5, <3>1
    <3>3. UNCHANGED <<run, job, proposal, action, answers>> /\ worker.at # "end"
      BY <2>1
    <3> QED BY <1>1, <1>3, <2>2, <2>3, <3>1, <3>2, <3>3, RunMoves
  <2> QED BY <2>1, <2>4, <2>5
<1>11. CASE Run!AskModel(r)
  <2>1. /\ worker.at = "model" /\ UNCHANGED <<run, job, proposal, action, searches>>
        /\ answers' = [answers EXCEPT ![r] = @ + 1]
        /\ IF Kind[r] = "description"
           THEN Run!Found("queue", "completed") \/ Run!Goto("end")
           ELSE Run!Found("store", "completed") \/ Run!Found("store", "failed")
    BY <1>11 DEF Run!AskModel, Run!At
  <2>2. /\ Kind[r] = "target" => proposal[r] = "none"
        /\ Kind[r] = "description" => action[r] = "none"
    BY <1>2, <2>1 DEF InHand
  <2>3. answers' \in [Runs -> Nat] /\ \A s \in Runs : s # r => answers'[s] = answers[s]
    BY <1>3, <2>1
  <2>4. CASE Kind[r] = "description" /\ Run!Found("queue", "completed")
    <3>1. "queue" \in Run!Steps \ {"idle"} /\ "completed" \in Run!TitleProposalStatus
      BY <1>6
    <3>2. worker' = [worker EXCEPT !.at = "queue", !.outcome = "completed"]
      BY <1>3, <1>5, <2>1, <2>2, <2>3, <2>4, <3>1
    <3> QED BY <1>1, <1>3, <2>1, <2>2, <2>3, <2>4, <3>1, <3>2, RunMoves
  <2>5. CASE Kind[r] = "description" /\ Run!Goto("end")
    <3>1. "end" \in Run!Steps \ {"idle"}
      BY <1>6
    <3>2. worker' = [worker EXCEPT !.at = "end", !.outcome = now]
      BY <1>3, <1>4, <2>1, <2>2, <2>3, <2>5, <3>1
    <3>3. UNCHANGED <<run, job, proposal, action, searches>> /\ Kind[r] = "description"
      BY <2>1, <2>5
    <3> QED BY <1>1, <1>3, <2>2, <2>3, <3>1, <3>2, <3>3, RunMoves
  <2>6. ASSUME Kind[r] # "description", NEW found_ \in {"completed", "failed"}, Run!Found("store", found_)
        PROVE  RunsInv' /\ Run!PaidOnceStep
    <3>1. "store" \in Run!Steps \ {"idle"} /\ found_ \in Run!TitleProposalStatus
      BY <1>6
    <3>2. worker' = [worker EXCEPT !.at = "store", !.outcome = found_]
      BY <1>3, <1>5, <2>1, <2>2, <2>3, <2>6, <3>1
    <3> QED BY <1>1, <1>3, <2>1, <2>2, <2>3, <2>6, <3>1, <3>2, RunMoves
  <2> QED BY <2>1, <2>4, <2>5, <2>6
<1>12. CASE Run!StoreProposal(r)
  <2>1. worker.at = "store" /\ UNCHANGED <<action, searches, answers>>
    BY <1>12 DEF Run!StoreProposal, Run!At, Run!paid
  <2>2. Kind[r] # "description"
    BY <1>2, <2>1 DEF InHand
  <2>3. CASE proposal[r] = "none"
    <3>1. /\ proposal' = [proposal EXCEPT ![r] = worker.outcome]
          /\ Run!Goto("queue") /\ UNCHANGED <<run, job>>
      BY <1>12, <2>3 DEF Run!StoreProposal
    <3>2. /\ proposal' \in [Runs -> Run!TitleProposalStatus] /\ proposal'[r] = worker.outcome
          /\ \A s \in Runs : s # r => proposal'[s] = proposal[s]
      BY <1>3, <3>1
    <3>3. "queue" \in Run!Steps \ {"idle"} /\ action[r] = "none"
      BY <1>3, <1>6, <2>2, <2>3
    <3>4. worker' = [worker EXCEPT !.at = "queue", !.outcome = now]
      BY <1>3, <1>4, <2>1, <2>2, <2>3, <3>1, <3>2, <3>3
    <3>5. /\ UNCHANGED <<run, job, action, searches, answers>> /\ worker.at # "end"
          /\ proposal'[r] = now
      BY <2>1, <3>1, <3>2
    <3> QED BY <1>1, <1>3, <2>2, <2>3, <3>2, <3>3, <3>4, <3>5, RunMoves
  <2>4. CASE proposal[r] # "none"
    <3>1. Run!Raise(r) /\ UNCHANGED proposal
      BY <1>12, <2>4 DEF Run!StoreProposal
    <3> QED BY <1>7, <2>1, <3>1
  <2> QED BY <2>3, <2>4
<1>13. CASE Run!QueueForApproval(r)
  <2> DEFINE step == IF Kind[r] = "description" THEN "end" ELSE "complete"
  <2>1. /\ worker.at = "queue" /\ UNCHANGED <<run, job, proposal, searches, answers>>
        /\ action' = IF worker.outcome = "completed" /\ action[r] = "none"
                     THEN [action EXCEPT ![r] = "awaiting_approval"] ELSE action
        /\ Run!Goto(step)
    BY <1>13 DEF Run!QueueForApproval, Run!At, Run!paid
  <2>2. Kind[r] # "description" => worker.outcome = proposal[r]
    BY <1>2, <2>1 DEF InHand
  <2>3. /\ action' \in [Runs -> {"none", "awaiting_approval", "decided"}]
        /\ \A s \in Runs : s # r => action'[s] = action[s]
        /\ action[r] # "none" => action'[r] = action[r]
        /\ worker.outcome = "completed" => action'[r] # "none"
        /\ worker.outcome # "completed" => action'[r] = action[r]
    BY <1>3, <2>1
  <2>4. /\ step \in Run!Steps \ {"idle"} /\ (step = "end" <=> Kind[r] = "description")
        /\ step \in {"end", "complete"}
    BY <1>6
  <2> HIDE DEF step
  <2>5. worker' = [worker EXCEPT !.at = step, !.outcome = now]
    BY <1>4, <2>1, <2>4
  <2> QED BY <1>1, <1>3, <2>1, <2>2, <2>3, <2>4, <2>5, RunMoves
<1> QED BY <1>8, <1>9, <1>10, <1>11, <1>12, <1>13

\* The delivery is over, one way or the other, or the customer decides.
LEMMA RunEnds ==
  ASSUME RunsInv, NEW r \in Runs, Run!Complete(r) \/ Run!End(r) \/ Run!Fail(r) \/ Run!Decide(r)
  PROVE  RunsInv' /\ Run!PaidOnceStep
<1>1. CASE Run!Complete(r)
  <2>1. /\ worker.on = r /\ worker.at = "complete" /\ run' = [run EXCEPT ![r] = "completed"]
        /\ worker' = [worker EXCEPT !.at = "end"]
        /\ UNCHANGED <<job, proposal, action, searches, answers, faults, stops>>
    BY <1>1 DEF Run!Complete, Run!At, Run!Goto, Run!paid
  <2>2. InHand(r)
    BY <2>1, RunBounds DEF RunsInv
  <2>3. /\ worker' \in RunWorkers /\ worker'.on = r /\ worker'.at = "end"
    BY <2>1, RunTypes DEF RunWorkers, Run!Steps
  <2>4. /\ run' \in [Runs -> Run!SEORunStatus] /\ run'[r] = "completed"
        /\ \A s \in Runs : s # r => run'[s] = run[s]
    BY <2>1, RunTypes DEF Run!SEORunStatus
  <2>5. Run!TypeOK'
    BY <2>1, <2>3, <2>4, RunTypes DEF Run!TypeOK, RunWorkers, RunJob
  <2>6. Run!CompletedIsAnswered'
    BY <2>1, <2>2, <2>4 DEF RunsInv, InHand, Run!CompletedIsAnswered
  <2>7. InHand(worker.on)'
    BY <2>1, <2>2, <2>3 DEF InHand
  <2>8. Run!PaidOnceStep
    BY <2>1, <2>4 DEF Run!PaidOnceStep
  <2>9. \A s \in Runs : /\ job'[s].status = "none" => run'[s] = "none"
                        /\ job'[s].status \in {"none", "queued"} => job'[s].left # 0
    BY <2>1, <2>2, <2>4 DEF RunsInv, InHand
  <2> QED BY <2>5, <2>6, <2>7, <2>8, <2>9 DEF RunsInv
<1>2. CASE Run!End(r)
  <2> DEFINE new == [job[r] EXCEPT !.status = "ended"]
  <2>1. /\ worker' = Run!Idle /\ job' = [job EXCEPT ![r] = new]
        /\ UNCHANGED <<run, proposal, action, searches, answers, faults, stops>>
    BY <1>2, RunTypes DEF Run!End, Run!paid
  <2>2. new \in RunJob /\ new.status = "ended"
    BY RunTypes DEF RunJob, Run!JobStatus
  <2> HIDE DEF new
  <2>3. /\ job' \in [Runs -> RunJob] /\ job'[r].status = "ended"
        /\ \A other \in Runs : other # r => job'[other] = job[other]
    BY <2>1, <2>2, RunTypes, RunJobs
  <2>4. Run!TypeOK'
    BY <2>1, <2>3, RunTypes, RunBounds DEF Run!TypeOK, RunWorkers, RunJob
  <2>5. \A s \in Runs : /\ job'[s].status = "none" => run'[s] = "none"
                        /\ job'[s].status \in {"none", "queued"} => job'[s].left # 0
    BY <2>1, <2>3 DEF RunsInv
  <2>6. Run!CompletedIsAnswered' /\ Run!PaidOnceStep /\ worker' = Run!Idle'
    BY <2>1 DEF RunsInv, Run!CompletedIsAnswered, Run!PaidOnceStep, Run!Idle, Run!Nobody
  <2> QED BY <2>4, <2>5, <2>6 DEF RunsInv
<1>3. CASE Run!Fail(r)
  <2>1. /\ worker.on = r /\ worker.at # "end" /\ Run!Raise(r)
        /\ UNCHANGED <<proposal, action, searches, answers, stops>>
        /\ faults < MaxFaults /\ faults' = faults + 1
    BY <1>3 DEF Run!Fail, Run!paid
  <2>2. faults' \in 0..MaxFaults
    BY <2>1, RunTypes, RunBounds
  <2>3. worker # Run!Idle
    BY <2>1, RunBounds
  <2> QED BY <2>1, <2>2, <2>3, RunRaises
<1>4. CASE Run!Decide(r)
  <2>1. /\ action[r] = "awaiting_approval" /\ action' = [action EXCEPT ![r] = "decided"]
        /\ UNCHANGED <<run, job, proposal, worker, searches, answers, faults, stops>>
    BY <1>4 DEF Run!Decide, Run!paid
  <2>2. /\ action' \in [Runs -> {"none", "awaiting_approval", "decided"}]
        /\ \A s \in Runs : action'[s] = action[s] \/ (s = r /\ action[s] = "awaiting_approval"
                                                         /\ action'[s] = "decided")
    BY <2>1, RunTypes
  <2>3. Run!TypeOK'
    BY <2>1, <2>2, RunTypes DEF Run!TypeOK, RunWorkers, RunJob
  <2>4. Run!CompletedIsAnswered' /\ Run!PaidOnceStep
    BY <2>1, <2>2 DEF RunsInv, Run!CompletedIsAnswered, Run!PaidOnceStep
  <2>5. (worker = Run!Idle \/ InHand(worker.on))'
    <3>1. CASE worker = Run!Idle
      BY <2>1, <3>1 DEF Run!Idle, Run!Nobody
    <3>2. CASE InHand(worker.on)
      BY <2>1, <2>2, <3>2 DEF InHand
    <3> QED BY <3>1, <3>2 DEF RunsInv
  <2>6. \A s \in Runs : /\ job'[s].status = "none" => run'[s] = "none"
                        /\ job'[s].status \in {"none", "queued"} => job'[s].left # 0
    BY <2>1 DEF RunsInv
  <2> QED BY <2>3, <2>4, <2>5, <2>6 DEF RunsInv
<1> QED BY <1>1, <1>2, <1>3, <1>4

LEMMA RunStops == ASSUME RunsInv, Run!Stop PROVE RunsInv' /\ Run!PaidOnceStep
<1> DEFINE r == worker.on
<1>1. /\ worker # Run!Idle /\ stops < MaxStops /\ stops' = stops + 1
      /\ job' = Run!JobOver(r) /\ worker' = Run!Idle
      /\ UNCHANGED <<run, proposal, action, searches, answers, faults>>
  BY DEF Run!Stop, Run!paid
<1>2. InHand(r) /\ r \in Runs
  BY <1>1 DEF RunsInv, InHand
<1> HIDE DEF r
<1>3. /\ job' \in [Runs -> RunJob]
      /\ \A other \in Runs : other # r => job'[other] = job[other]
      /\ job'[r].status # "none" /\ (job'[r].status = "queued" => job'[r].left # 0)
  BY <1>1, <1>2, RunOver
<1>4. stops' \in 0..MaxStops
  BY <1>1, RunTypes, RunBounds
<1>5. Run!TypeOK'
  BY <1>1, <1>3, <1>4, RunTypes, RunBounds DEF Run!TypeOK, RunWorkers, RunJob
<1>6. \A s \in Runs : /\ job'[s].status = "none" => run'[s] = "none"
                      /\ job'[s].status \in {"none", "queued"} => job'[s].left # 0
  BY <1>1, <1>3 DEF RunsInv
<1>7. Run!CompletedIsAnswered' /\ Run!PaidOnceStep /\ worker' = Run!Idle'
  BY <1>1 DEF RunsInv, Run!CompletedIsAnswered, Run!PaidOnceStep, Run!Idle, Run!Nobody
<1> QED BY <1>5, <1>6, <1>7 DEF RunsInv

LEMMA RunsStep ==
  ASSUME RunsInv, Run!Next \/ UNCHANGED Run!vars
  PROVE  RunsInv' /\ Run!PaidOnceStep
<1>1. CASE UNCHANGED Run!vars
  <2>1. UNCHANGED <<run, job, proposal, action, worker, searches, answers, faults, stops>>
    BY <1>1 DEF Run!vars, Run!paid
  <2>2. Run!TypeOK' /\ Run!CompletedIsAnswered' /\ Run!PaidOnceStep
    BY <2>1 DEF RunsInv, Run!TypeOK, Run!CompletedIsAnswered, Run!PaidOnceStep
  <2>3. (worker = Run!Idle \/ InHand(worker.on))'
    BY <2>1 DEF RunsInv, InHand, Run!Idle, Run!Nobody
  <2> QED BY <2>1, <2>2, <2>3 DEF RunsInv
<1> QED BY <1>1, RunBegins, RunIsWorkedOn, RunEnds, RunStops DEF Run!Next

LEMMA RunsPromise == RunsInv => Run!TypeOK /\ Run!CompletedIsAnswered
BY DEF RunsInv
-----------------------------------------------------------------------------
(* The target words (Targets). A copy of the set with the version of the     *)
(* record is the record, so what is saved over it differs from it in what    *)
(* the writer is about; a suggestion is asked for only when the last one is  *)
(* long enough ago, and no other has been asked for since that was read.     *)
Statuses == [Words -> Target!KeywordStatus]
ARequest == [at : {"free", "save", "answered"}, ask : Target!Asks, seen : Target!Set,
             version : Nat, now : Target!Times]
ASuggester == [at : {"idle", "ask", "read", "save"}, job : Requests \cup {None},
               found : SUBSET Words, error : BOOLEAN, seen : Target!Set, version : Nat, tries : Nat]
ATracker == [at : {"idle", "read", "save"}, word : SUBSET Words, fetched : Target!Times,
             seen : Target!Set, version : Nat, tries : Nat]

TargetTypes ==
    /\ clock \in 1..MaxTime /\ version \in Nat /\ rounds \in 0..MaxTracks
    /\ keywords \in Target!Set
    /\ request \in [Requests -> ARequest]
    /\ job \in [Requests -> {"none", "queued", "running", "ended", "lost", "beaten"}]
    /\ worker \in ASuggester /\ tracker \in ATracker

IsCopy(c) == c.version <= version /\ (c.version = version => c.seen = keywords)

CopiesSound ==
    /\ \A r \in Requests : request[r].at = "save" => IsCopy(request[r])
    /\ worker.at = "save" => IsCopy(worker)
    /\ tracker.at = "save" => IsCopy(tracker) /\ \A w \in tracker.word : tracker.fetched > tracker.seen.checks[w]
    /\ tracker.at # "idle" => \E w \in Words : tracker.word = {w}
    /\ worker.at # "idle" => worker.job \in Requests /\ job[worker.job] # "none"

SuggestSound ==
    /\ keywords.status = "running" => keywords.job \in Requests /\ job[keywords.job] # "ended"
    /\ \A r \in Requests :
          /\ request[r].at = "save" => request[r].now # 0
          /\ request[r].at = "save" /\ request[r].ask.kind = "suggest" =>
                Target!MaySuggest(request[r].seen, request[r].now)
          /\ request[r].at # "answered" => job[r] = "none"
          /\ job[r] # "none" => request[r].now <= keywords.asked /\ request[r].now # 0
    /\ Target!RunningHasItsJob

TargetsInv == TargetTypes /\ CopiesSound /\ SuggestSound

LEMMA TargetBounds ==
  /\ IsFiniteSet(Words) /\ None \notin Requests
  /\ MAX_WORDS \in Nat /\ UPDATE_ATTEMPTS \in Nat /\ SUGGEST_COOLDOWN \in Nat /\ MaxTracks \in Nat
  /\ MaxTime \in Nat /\ 1 <= MaxTime
  /\ Target!Times = 0..MaxTime + 1 /\ 1..MaxTime \subseteq Target!Times /\ 0 \in Target!Times
  /\ Target!Times \subseteq Nat
<1>1. MaxTime \in Nat /\ 1 <= MaxTime
  BY TargetsAssumption
<1>2. Target!Times = 0..MaxTime + 1
  BY DEF Target!Times
<1> QED BY <1>1, <1>2, TargetsAssumption

LEMMA TargetNumbers ==
  /\ \A S : Target!Cardinality(S) = Cardinality(S)
  /\ \A k, S : Target!kSubset(k, S) = {s \in SUBSET S : Cardinality(s) = k}
BY DEF Cardinality, Target!Cardinality, Target!kSubset

LEMMA SmallerOf ==
  ASSUME NEW a \in Nat, NEW b \in Nat
  PROVE  Target!Min({a, b}) = IF a <= b THEN a ELSE b
<1> DEFINE m == IF a <= b THEN a ELSE b
<1>1. m \in {a, b} /\ \A y \in {a, b} : m <= y
  OBVIOUS
<1>2. \A x \in {a, b} : (\A y \in {a, b} : x <= y) => x = m
  OBVIOUS
<1> QED BY <1>1, <1>2 DEF Target!Min

\* A word is forgotten only from a full list.
LEMMA MakesRoom ==
  ASSUME NEW words \in Statuses, NEW wanted \in Nat, NEW new \in Target!make_room(words, wanted)
  PROVE  /\ new \in Statuses
         /\ \A w \in Words : new[w] = words[w] \/ (words[w] = "dismissed" /\ new[w] = "unknown")
         /\ new # words => Cardinality({w \in Words : new[w] # "unknown"}) + wanted >= MAX_WORDS
<1> DEFINE dismissed == {w \in Words : words[w] = "dismissed"}
           listed == {w \in Words : words[w] # "unknown"}
           L == Cardinality(listed)
           D == Cardinality(dismissed)
           excess == IF L + wanted > MAX_WORDS THEN L + wanted - MAX_WORDS ELSE 0
<1>1. IsFiniteSet(dismissed) /\ IsFiniteSet(listed) /\ L \in Nat /\ D \in Nat /\ dismissed \subseteq listed
  BY TargetBounds, FS_Subset, FS_CardinalityType
<1>2. excess \in Nat /\ (excess # 0 => L + wanted = excess + MAX_WORDS)
  BY <1>1, TargetBounds
<1>3. PICK gone \in Target!kSubset(Target!Min({excess, D}), dismissed) :
          new = [w \in Words |-> IF w \in gone THEN "unknown" ELSE words[w]]
  BY TargetNumbers DEF Target!make_room
<1> HIDE DEF excess, L, D
<1>4. gone \subseteq dismissed /\ Cardinality(gone) <= excess /\ IsFiniteSet(gone)
      /\ Cardinality(gone) \in Nat
  BY <1>1, <1>2, <1>3, SmallerOf, TargetNumbers, FS_Subset, FS_CardinalityType
<1>5. /\ new \in Statuses
      /\ \A w \in Words : new[w] = words[w] \/ (words[w] = "dismissed" /\ new[w] = "unknown")
  BY <1>3, <1>4 DEF Statuses, Target!KeywordStatus
<1>6. {w \in Words : new[w] # "unknown"} = listed \ gone
  BY <1>3
<1>7. Cardinality(listed \ gone) = L - Cardinality(gone)
  <2>1. listed \cap gone = gone
    BY <1>1, <1>4
  <2> HIDE DEF listed, dismissed
  <2> QED BY <1>1, <1>4, <2>1, FS_Difference DEF L
<1>8. ASSUME new # words
      PROVE  Cardinality({w \in Words : new[w] # "unknown"}) + wanted >= MAX_WORDS
  <2>1. gone # {}
    BY <1>3, <1>8 DEF Statuses
  <2>2. Cardinality(gone) # 0
    BY <1>4, <2>1, FS_EmptySet
  <2> DEFINE g == Cardinality(gone)
  <2>3. g \in Nat /\ g # 0 /\ g <= excess /\ L + wanted = excess + MAX_WORDS
    BY <1>2, <1>4, <2>2
  <2>4. Cardinality({w \in Words : new[w] # "unknown"}) = L - g
    BY <1>6, <1>7
  <2> HIDE DEF g
  <2>5. L - g + wanted >= MAX_WORDS
    BY <1>1, <1>2, <2>3, TargetBounds
  <2> QED BY <2>4, <2>5
<1> QED BY <1>5, <1>8

LEMMA SetParts ==
  ASSUME NEW set \in Target!Set
  PROVE  /\ set.words \in Statuses /\ set.checks \in [Words -> Target!Times]
         /\ set.status \in Target!SuggestionStatus /\ set.job \in Requests \cup {None}
         /\ set.asked \in Target!Times /\ set.updated \in Target!Times
BY DEF Target!Set, Statuses

\* A word that is forgotten loses its history, and no other does.
LEMMA KeepsHistory ==
  ASSUME NEW set \in Target!Set, NEW words \in Statuses
  PROVE  /\ Target!Kept(set, words) \in Target!Set
         /\ Target!Kept(set, words).words = words
         /\ \A w \in Words : Target!Kept(set, words).checks[w] = set.checks[w] \/ words[w] = "unknown"
         /\ Target!Kept(set, words).asked = set.asked /\ Target!Kept(set, words).status = set.status
         /\ Target!Kept(set, words).job = set.job
<1>1. Target!Kept(set, words) = [set EXCEPT !.words = words,
         !.checks = [w \in Words |-> IF words[w] = "unknown" THEN 0 ELSE set.checks[w]]]
  BY DEF Target!Kept
<1> DEFINE checks == [w \in Words |-> IF words[w] = "unknown" THEN 0 ELSE set.checks[w]]
<1>2. /\ checks \in [Words -> Target!Times]
      /\ \A w \in Words : checks[w] = set.checks[w] \/ words[w] = "unknown"
  BY SetParts, TargetBounds
<1> HIDE DEF checks
<1>3. Target!Kept(set, words) = [set EXCEPT !.words = words, !.checks = checks]
  BY <1>1 DEF checks
<1> QED BY <1>2, <1>3 DEF Target!Set, Statuses

\* A suggestion leaves what was decided, unless it fills the list.
LEMMA SuggestsWords ==
  ASSUME worker \in ASuggester, NEW words \in Target!Suggested
  PROVE  /\ words \in Statuses
         /\ \A w \in Words :
               worker.seen.words[w] \in {"confirmed", "dismissed"} /\ words[w] # worker.seen.words[w] =>
                  /\ worker.seen.words[w] = "dismissed" /\ words[w] = "unknown"
                  /\ Cardinality({v \in Words : words[v] # "unknown"}) >= MAX_WORDS
<1> DEFINE old == worker.seen.words
           decided == [w \in Words |-> IF worker.seen.words[w] = "suggested" THEN "unknown"
                                       ELSE worker.seen.words[w]]
           fresh == {w \in worker.found : decided[w] = "unknown"}
           F == Cardinality(fresh)
           Room(k) == IF Cardinality({w \in Words : k[w] # "unknown"}) >= MAX_WORDS THEN 0
                      ELSE MAX_WORDS - Cardinality({w \in Words : k[w] # "unknown"})
<1>1. /\ old \in Statuses /\ worker.found \subseteq Words
  BY SetParts DEF ASuggester
<1>2. /\ decided \in Statuses
      /\ \A w \in Words : old[w] \in {"confirmed", "dismissed"} => decided[w] = old[w]
  BY <1>1 DEF Statuses, Target!KeywordStatus
<1>3. PICK kept_ \in Target!make_room(decided, F), new \in SUBSET fresh :
              /\ Cardinality(new) = Target!Min({F, Room(kept_)})
              /\ words = [w \in Words |-> IF w \in new THEN "suggested" ELSE kept_[w]]
  <2> DEFINE Space(k) == IF Target!Cardinality({w \in Words : k[w] # "unknown"}) >= MAX_WORDS THEN 0
                         ELSE MAX_WORDS - Target!Cardinality({w \in Words : k[w] # "unknown"})
             F2 == Target!Cardinality(fresh)
  <2>1. PICK kept_ \in Target!make_room(decided, F2) :
           words \in {[w \in Words |-> IF w \in new THEN "suggested" ELSE kept_[w]] :
                        new \in {s \in SUBSET fresh : Target!Cardinality(s) = Target!Min({F2, Space(kept_)})}}
    BY DEF Target!Suggested
  <2>2. PICK new \in SUBSET fresh :
              /\ Target!Cardinality(new) = Target!Min({F2, Space(kept_)})
              /\ words = [w \in Words |-> IF w \in new THEN "suggested" ELSE kept_[w]]
    BY <2>1
  <2>3. F2 = F /\ Space(kept_) = Room(kept_) /\ Target!Cardinality(new) = Cardinality(new)
    BY TargetNumbers
  <2> HIDE DEF F, F2, Room, Space, fresh, decided
  <2> QED BY <2>1, <2>2, <2>3
<1> HIDE DEF decided
<1>4. fresh \subseteq Words /\ IsFiniteSet(fresh) /\ F \in Nat
  BY <1>1, TargetBounds, FS_Subset, FS_CardinalityType
<1>5. /\ kept_ \in Statuses
      /\ \A w \in Words : kept_[w] = decided[w] \/ (decided[w] = "dismissed" /\ kept_[w] = "unknown")
      /\ kept_ # decided => Cardinality({w \in Words : kept_[w] # "unknown"}) + F >= MAX_WORDS
  BY <1>2, <1>4, MakesRoom
<1> DEFINE listed == {w \in Words : kept_[w] # "unknown"}
           K == Cardinality(listed)
           now == {v \in Words : words[v] # "unknown"}
<1>6. new \subseteq fresh /\ IsFiniteSet(new) /\ Cardinality(new) \in Nat
      /\ IsFiniteSet(listed) /\ K \in Nat
  BY <1>3, <1>4, TargetBounds, FS_Subset, FS_CardinalityType
<1>7. words \in Statuses
  BY <1>3, <1>5 DEF Statuses, Target!KeywordStatus
<1>8. \A w \in new : w \in Words /\ decided[w] = "unknown" /\ kept_[w] = "unknown"
  BY <1>4, <1>5, <1>6
<1>9. now = listed \cup new /\ listed \cap new = {}
  BY <1>3, <1>8
<1>10. Cardinality(now) = K + Cardinality(new)
  <2> HIDE DEF listed, now
  <2>1. Cardinality(listed \cap new) = 0
    BY <1>9, FS_EmptySet
  <2>2. Cardinality(listed \cup new)
            = Cardinality(listed) + Cardinality(new) - Cardinality(listed \cap new)
    BY <1>6, FS_Union
  <2> DEFINE n == Cardinality(new)
  <2>3. K \in Nat /\ n \in Nat /\ Cardinality(now) = K + n - 0
    BY <1>6, <1>9, <2>1, <2>2 DEF K
  <2> HIDE DEF K, n
  <2>4. K + n - 0 = K + n
    BY <2>3
  <2> QED BY <2>3, <2>4 DEF n
<1>11. ASSUME kept_ # decided PROVE Cardinality(now) >= MAX_WORDS
  <2> DEFINE room == IF K >= MAX_WORDS THEN 0 ELSE MAX_WORDS - K
             n == Cardinality(new)
  <2>1. room \in Nat /\ K + F >= MAX_WORDS /\ K + room >= MAX_WORDS
    BY <1>5, <1>6, <1>11, TargetBounds
  <2>2. n = Target!Min({F, room})
    BY <1>3
  <2> HIDE DEF room, n, K, F
  <2>3. n = F \/ n = room
    BY <1>4, <2>1, <2>2, SmallerOf
  <2>4. K + n >= MAX_WORDS
    BY <2>1, <2>3
  <2> QED BY <1>10, <2>4 DEF n
<1>12. ASSUME NEW w \in Words, old[w] \in {"confirmed", "dismissed"}, words[w] # old[w]
       PROVE  /\ old[w] = "dismissed" /\ words[w] = "unknown" /\ Cardinality(now) >= MAX_WORDS
  <2>1. decided[w] = old[w] /\ w \notin new
    BY <1>2, <1>8, <1>12
  <2>2. words[w] = kept_[w]
    BY <1>3, <2>1
  <2> QED BY <1>5, <1>11, <1>12, <2>1, <2>2
<1> QED BY <1>7, <1>12

\* What a suggestion writes: words, or that it has failed.
LEMMA SuggestionWrites ==
  ASSUME worker \in ASuggester, clock \in 1..MaxTime, NEW new \in Target!Outcomes
  PROVE  /\ new \in Target!Set /\ new.status \in {"idle", "failed"} /\ new.asked = worker.seen.asked
         /\ \A w \in Words :
               worker.seen.words[w] \in {"confirmed", "dismissed"} /\ new.words[w] # worker.seen.words[w] =>
                  /\ worker.seen.words[w] = "dismissed" /\ new.words[w] = "unknown"
                  /\ Cardinality({v \in Words : new.words[v] # "unknown"}) >= MAX_WORDS
         /\ \A w \in Words : new.checks[w] = worker.seen.checks[w] \/ new.words[w] = "unknown"
<1>1. worker.seen \in Target!Set /\ clock \in Target!Times
  BY TargetBounds DEF ASuggester
<1>2. CASE new = [worker.seen EXCEPT !.status = "failed", !.updated = clock]
  BY <1>1, <1>2 DEF Target!Set, Target!SuggestionStatus
<1>3. CASE \E words \in Target!Suggested :
             new = [Target!Kept(worker.seen, words) EXCEPT !.status = "idle", !.updated = clock]
  <2>1. PICK words \in Target!Suggested :
             new = [Target!Kept(worker.seen, words) EXCEPT !.status = "idle", !.updated = clock]
    BY <1>3
  <2> DEFINE k == Target!Kept(worker.seen, words)
  <2>2. /\ words \in Statuses
        /\ \A w \in Words :
              worker.seen.words[w] \in {"confirmed", "dismissed"} /\ words[w] # worker.seen.words[w] =>
                 /\ worker.seen.words[w] = "dismissed" /\ words[w] = "unknown"
                 /\ Cardinality({v \in Words : words[v] # "unknown"}) >= MAX_WORDS
    BY SuggestsWords
  <2>3. /\ k \in Target!Set /\ k.words = words /\ k.asked = worker.seen.asked
        /\ \A w \in Words : k.checks[w] = worker.seen.checks[w] \/ words[w] = "unknown"
    BY <1>1, <2>2, KeepsHistory
  <2> HIDE DEF k
  <2>4. new = [k EXCEPT !.status = "idle", !.updated = clock]
    BY <2>1 DEF k
  <2>5. /\ new \in Target!Set /\ new.words = words /\ new.asked = k.asked /\ new.checks = k.checks
        /\ new.status = "idle"
    BY <1>1, <2>3, <2>4 DEF Target!Set, Target!SuggestionStatus
  <2> QED BY <2>2, <2>3, <2>5
<1> QED BY <1>2, <1>3 DEF Target!Outcomes

\* What a request writes over the copy it has read.
LEMMA RequestWrites ==
  ASSUME NEW r \in Requests, request[r] \in ARequest, clock \in 1..MaxTime, NEW new \in Target!Made(r)
  PROVE  /\ new \in Target!Set
         /\ \A w \in Words : new.checks[w] = request[r].seen.checks[w] \/ new.words[w] = "unknown"
         /\ request[r].ask.kind = "suggest" =>
               new.status = "running" /\ new.job = r /\ new.asked = request[r].now
         /\ request[r].ask.kind # "suggest" =>
               /\ new.status = request[r].seen.status /\ new.job = request[r].seen.job
               /\ new.asked = request[r].seen.asked
<1> DEFINE q == request[r]
<1>1. /\ q.seen \in Target!Set /\ clock \in Target!Times /\ q.now \in Target!Times
      /\ q.ask \in Target!Asks
  BY TargetBounds DEF ARequest
<1>2. /\ q.ask.kind \in {"brief", "suggest", "add", "status"}
      /\ q.ask.kind \in {"add", "status"} =>
            q.ask.word \in Words /\ q.ask.to \in Target!KeywordStatus \ {"unknown"}
  BY <1>1 DEF Target!Asks
<1>3. PICK set : /\ new = [set EXCEPT !.updated = clock]
                 /\ q.ask.kind = "brief" => set = q.seen
                 /\ q.ask.kind = "suggest" =>
                       set = [q.seen EXCEPT !.status = "running", !.job = r, !.asked = q.now]
                 /\ q.ask.kind = "status" => set = [q.seen EXCEPT !.words[q.ask.word] = q.ask.to]
                 /\ q.ask.kind = "add" =>
                       \E words \in IF q.ask.word \in Target!Listed(q.seen) THEN {q.seen.words}
                                    ELSE Target!make_room(q.seen.words, 1) :
                          set = Target!Kept(q.seen, [words EXCEPT ![q.ask.word] = "confirmed"])
  BY <1>2 DEF Target!Made
<1> HIDE DEF q
<1>4. /\ set \in Target!Set
      /\ \A w \in Words : set.checks[w] = q.seen.checks[w] \/ set.words[w] = "unknown"
      /\ q.ask.kind = "suggest" => set.status = "running" /\ set.job = r /\ set.asked = q.now
      /\ q.ask.kind # "suggest" =>
            set.status = q.seen.status /\ set.job = q.seen.job /\ set.asked = q.seen.asked
  <2>1. CASE q.ask.kind = "brief"
    BY <1>1, <1>3, <2>1
  <2>2. CASE q.ask.kind = "suggest"
    BY <1>1, <1>3, <2>2 DEF Target!Set, Target!SuggestionStatus
  <2>3. CASE q.ask.kind = "status"
    <3> DEFINE words == [q.seen.words EXCEPT ![q.ask.word] = q.ask.to]
    <3>1. words \in Statuses
      BY <1>1, <1>2, <2>3, SetParts DEF Statuses
    <3>2. set = [q.seen EXCEPT !.words = words]
      BY <1>1, <1>3, <2>3
    <3> HIDE DEF words
    <3> QED BY <1>1, <2>3, <3>1, <3>2 DEF Target!Set, Statuses
  <2>4. CASE q.ask.kind = "add"
    <3>1. PICK words \in IF q.ask.word \in Target!Listed(q.seen) THEN {q.seen.words}
                         ELSE Target!make_room(q.seen.words, 1) :
                 set = Target!Kept(q.seen, [words EXCEPT ![q.ask.word] = "confirmed"])
      BY <1>3, <2>4
    <3>2. words \in Statuses
      <4>1. q.seen.words \in Statuses /\ 1 \in Nat
        BY <1>1, SetParts
      <4>2. words \in {q.seen.words} \/ words \in Target!make_room(q.seen.words, 1)
        BY <3>1
      <4> QED BY <4>1, <4>2, MakesRoom
    <3>3. [words EXCEPT ![q.ask.word] = "confirmed"] \in Statuses
      BY <3>2 DEF Statuses, Target!KeywordStatus
    <3> DEFINE new_ == [words EXCEPT ![q.ask.word] = "confirmed"]
    <3>4. set = Target!Kept(q.seen, new_) /\ new_ \in Statuses
      BY <3>1, <3>3
    <3> HIDE DEF new_
    <3> QED BY <1>1, <2>4, <3>4, KeepsHistory
  <2> QED BY <1>2, <2>1, <2>2, <2>3, <2>4 DEF q
<1>5. new \in Target!Set /\ new.checks = set.checks /\ new.words = set.words
      /\ new.status = set.status /\ new.job = set.job /\ new.asked = set.asked
  BY <1>1, <1>3, <1>4 DEF Target!Set
<1> QED BY <1>4, <1>5 DEF q

LEMMA TargetsStart == Target!Init => TargetsInv
<1> SUFFICES ASSUME Target!Init PROVE TargetsInv
  OBVIOUS
<1>1. Target!NewSet \in Target!Set /\ Target!NewSet.status = "idle"
  BY TargetBounds DEF Target!NewSet, Target!Set, Target!KeywordStatus, Target!SuggestionStatus
<1>2. /\ Target!IdleWorker \in ASuggester /\ Target!IdleWorker.at = "idle"
      /\ Target!IdleTracker \in ATracker /\ Target!IdleTracker.at = "idle"
      /\ Target!NoRequest \in ARequest /\ Target!NoRequest.at = "free"
  BY <1>1, TargetBounds DEF Target!IdleWorker, Target!IdleTracker, Target!NoRequest, ASuggester,
     ATracker, ARequest, Target!Asks
<1>3. TargetTypes
  <2>1. 1 \in 1..MaxTime /\ 0 \in 0..MaxTracks
    BY TargetBounds
  <2> QED BY <1>1, <1>2, <2>1 DEF Target!Init, TargetTypes
<1>4. CopiesSound
  BY <1>2 DEF Target!Init, CopiesSound
<1>5. SuggestSound
  BY <1>1, <1>2 DEF Target!Init, SuggestSound, Target!RunningHasItsJob
<1> QED BY <1>3, <1>4, <1>5 DEF TargetsInv

LEMMA TargetParts ==
  ASSUME TargetTypes
  PROVE  /\ clock \in 1..MaxTime /\ clock \in Target!Times /\ version \in Nat
         /\ keywords \in Target!Set /\ keywords.asked \in Nat
         /\ \A r \in Requests : /\ request[r] \in ARequest /\ request[r].now \in Nat
                                /\ request[r].version \in Nat /\ request[r].seen \in Target!Set
         /\ \A w \in Words : keywords.checks[w] \in Nat
         /\ worker \in ASuggester /\ worker.version \in Nat /\ worker.seen \in Target!Set
         /\ tracker \in ATracker /\ tracker.version \in Nat /\ tracker.seen \in Target!Set
<1>1. /\ clock \in 1..MaxTime /\ version \in Nat /\ keywords \in Target!Set
      /\ worker \in ASuggester /\ tracker \in ATracker
      /\ \A r \in Requests : request[r] \in ARequest
  BY DEF TargetTypes
<1>2. keywords.asked \in Target!Times /\ keywords.checks \in [Words -> Target!Times]
  BY <1>1, SetParts
<1>3. \A r \in Requests : /\ request[r].now \in Target!Times /\ request[r].version \in Nat
                          /\ request[r].seen \in Target!Set
  BY <1>1 DEF ARequest
<1>4. /\ worker.version \in Nat /\ worker.seen \in Target!Set
      /\ tracker.version \in Nat /\ tracker.seen \in Target!Set
  BY <1>1 DEF ASuggester, ATracker
<1>5. clock \in Target!Times
  BY <1>1, TargetBounds
<1> QED BY <1>1, <1>2, <1>3, <1>4, <1>5, TargetBounds

\* What is known of the suggestions rests when no request is made for one.
LEMMA SuggestRests ==
  ASSUME TargetsInv, request' = request, keywords'.asked = keywords.asked,
         keywords'.status = "running" => keywords.status = "running" /\ keywords'.job = keywords.job,
         \A r \in Requests : job'[r] = "none" <=> job[r] = "none",
         keywords'.status = "running" => job'[keywords'.job] # "ended"
  PROVE  SuggestSound'
<1>1. /\ keywords'.status = "running" => keywords'.job \in Requests
      /\ \A r \in Requests :
            /\ request[r].at = "save" => request[r].now # 0
            /\ request[r].at = "save" /\ request[r].ask.kind = "suggest" =>
                  Target!MaySuggest(request[r].seen, request[r].now)
            /\ request[r].at # "answered" => job'[r] = "none"
            /\ job'[r] # "none" => request[r].now <= keywords'.asked /\ request[r].now # 0
  BY DEF TargetsInv, SuggestSound
<1>2. Target!RunningHasItsJob'
  BY DEF TargetsInv, SuggestSound, Target!RunningHasItsJob
<1> QED BY <1>1, <1>2 DEF SuggestSound, Target!MaySuggest

\* Nothing is decided when the set is as it was.
LEMMA NothingDecided ==
  ASSUME TargetTypes, keywords' = keywords
  PROVE  Target!DecisionStep
<1>1. \A w \in Words : ~(keywords.checks[w] < keywords.checks[w])
  BY TargetParts
<1> QED BY <1>1 DEF Target!DecisionStep

\* A set is written over the record: the other copies are no longer it.
LEMMA CopiesAge ==
  ASSUME TargetsInv, version' = version + 1, NEW c, c.version \in Nat, IsCopy(c)
  PROVE  IsCopy(c)'
<1>1. version \in Nat
  BY DEF TargetsInv, TargetTypes
<1>2. c.version <= version
  BY DEF IsCopy
<1>3. c.version <= version + 1 /\ c.version # version + 1
  BY <1>1, <1>2
<1> QED BY <1>3 DEF IsCopy

LEMMA TargetReads ==
  ASSUME TargetsInv, NEW r \in Requests, Target!Read(r)
  PROVE  TargetsInv' /\ Target!DecisionStep
<1>1. PICK kind_ \in {"brief", "suggest", "add", "status"}, w \in Words,
           to \in Target!KeywordStatus \ {"unknown"} :
        /\ kind_ = "suggest" => Target!MaySuggest(keywords, clock)
        /\ request' = [request EXCEPT ![r] =
              [at |-> "save", seen |-> keywords, version |-> version, now |-> clock,
               ask |-> IF kind_ \in {"add", "status"} THEN [kind |-> kind_, word |-> w, to |-> to]
                       ELSE [kind |-> kind_]]]
  BY DEF Target!Read
<1> DEFINE ask == IF kind_ \in {"add", "status"} THEN [kind |-> kind_, word |-> w, to |-> to]
                  ELSE [kind |-> kind_]
           new == [at |-> "save", seen |-> keywords, version |-> version, now |-> clock, ask |-> ask]
<1>2. /\ request[r].at = "free" /\ request' = [request EXCEPT ![r] = new]
      /\ UNCHANGED <<clock, keywords, version, job, worker, tracker, rounds>>
  BY <1>1 DEF Target!Read
<1>3. ask \in Target!Asks /\ ask.kind = kind_
  BY DEF Target!Asks
<1> HIDE DEF ask
<1>4. /\ new \in ARequest /\ new.at = "save" /\ new.ask = ask /\ new.seen = keywords
      /\ new.version = version /\ new.now = clock
  BY <1>3, TargetParts DEF TargetsInv, ARequest
<1> HIDE DEF new
<1>5. /\ request' \in [Requests -> ARequest] /\ request'[r] = new
      /\ \A s \in Requests : s # r => request'[s] = request[s]
  BY <1>2, <1>4 DEF TargetsInv, TargetTypes
<1>6. TargetTypes'
  BY <1>2, <1>5 DEF TargetsInv, TargetTypes
<1>7. CopiesSound'
  <2>1. version \in Nat /\ IsCopy(new)
    BY <1>4, TargetParts DEF TargetsInv, IsCopy
  <2> QED BY <1>2, <1>5, <2>1 DEF TargetsInv, CopiesSound, IsCopy
<1>8. SuggestSound'
  <2>1. job[r] = "none" /\ clock # 0
    BY <1>2, TargetParts DEF TargetsInv, SuggestSound
  <2>2. Target!RunningHasItsJob'
    BY <1>2, <1>5, <2>1 DEF TargetsInv, SuggestSound, Target!RunningHasItsJob
  <2>3. \A s \in Requests :
          /\ request'[s].at = "save" => request'[s].now # 0
          /\ request'[s].at = "save" /\ request'[s].ask.kind = "suggest" =>
                Target!MaySuggest(request'[s].seen, request'[s].now)
          /\ request'[s].at # "answered" => job[s] = "none"
          /\ job[s] # "none" => request'[s].now <= keywords.asked /\ request'[s].now # 0
    <3> SUFFICES ASSUME NEW s \in Requests
                 PROVE  /\ request'[s].at = "save" => request'[s].now # 0
                        /\ request'[s].at = "save" /\ request'[s].ask.kind = "suggest" =>
                              Target!MaySuggest(request'[s].seen, request'[s].now)
                        /\ request'[s].at # "answered" => job[s] = "none"
                        /\ job[s] # "none" => request'[s].now <= keywords.asked /\ request'[s].now # 0
      OBVIOUS
    <3>1. CASE s = r
      BY <1>1, <1>3, <1>4, <1>5, <2>1, <3>1
    <3>2. CASE s # r
      BY <1>5, <3>2 DEF TargetsInv, SuggestSound
    <3> QED BY <3>1, <3>2
  <2> QED BY <1>2, <2>2, <2>3 DEF TargetsInv, SuggestSound, Target!MaySuggest
<1>9. Target!DecisionStep
  BY <1>2, NothingDecided DEF TargetsInv
<1> QED BY <1>6, <1>7, <1>8, <1>9 DEF TargetsInv

\* The request is answered: a suggestion is asked for at least a cooldown after the last.
LEMMA TargetSaves ==
  ASSUME TargetsInv, NEW r \in Requests, Target!Save(r)
  PROVE  TargetsInv' /\ Target!DecisionStep
<1> DEFINE q == request[r]
           asked == q.ask.kind = "suggest" /\ q.version = version
           new == [Target!NoRequest EXCEPT !.at = "answered", !.now = q.now]
<1>1. /\ q.at = "save" /\ request' = [request EXCEPT ![r] = new]
      /\ IF q.version = version
         THEN /\ keywords' \in Target!Made(r) /\ version' = version + 1
              /\ job' = IF q.ask.kind = "suggest" THEN [job EXCEPT ![r] = "queued"] ELSE job
         ELSE UNCHANGED <<keywords, version, job>>
      /\ UNCHANGED <<clock, worker, tracker, rounds>>
  BY DEF Target!Save, Target!MaySave
<1>2. /\ q \in ARequest /\ q.now \in Target!Times /\ q.now \in Nat /\ q.now # 0
      /\ q.version \in Nat /\ IsCopy(q) /\ job[r] = "none"
      /\ q.ask.kind = "suggest" => Target!MaySuggest(q.seen, q.now)
  BY <1>1, TargetParts DEF TargetsInv, SuggestSound, CopiesSound, ARequest
<1>3. new \in ARequest /\ new.at = "answered" /\ new.now = q.now
  <2>1. Target!NewSet \in Target!Set
    BY TargetBounds DEF Target!NewSet, Target!Set, Target!KeywordStatus, Target!SuggestionStatus
  <2> QED BY <1>2, <2>1 DEF Target!NoRequest, ARequest, Target!Asks
<1> HIDE DEF new, q
<1>4. /\ request' \in [Requests -> ARequest] /\ request'[r] = new
      /\ \A s \in Requests : s # r => request'[s] = request[s]
  BY <1>1, <1>3 DEF TargetsInv, TargetTypes
<1>5. q.version = version => q.seen = keywords
  BY <1>2 DEF IsCopy
<1>6. /\ keywords' \in Target!Set
      /\ \A w \in Words : keywords'.checks[w] = keywords.checks[w] \/ keywords'.words[w] = "unknown"
      /\ asked => keywords'.status = "running" /\ keywords'.job = r /\ keywords'.asked = q.now
      /\ ~asked => /\ keywords'.status = keywords.status /\ keywords'.job = keywords.job
                   /\ keywords'.asked = keywords.asked
  <2>1. CASE q.version = version
    <3>1. keywords' \in Target!Made(r) /\ q.seen = keywords
      BY <1>1, <1>5, <2>1
    <3> QED BY <2>1, <3>1, RequestWrites, TargetParts DEF TargetsInv, q
  <2>2. CASE q.version # version
    BY <1>1, <2>2, TargetParts DEF TargetsInv
  <2> QED BY <2>1, <2>2
<1>7. version' \in Nat /\ (version' = version \/ version' = version + 1)
      /\ (version' = version => keywords' = keywords)
  <2>1. version \in Nat /\ version + 1 \in Nat /\ version + 1 # version
    BY TargetParts DEF TargetsInv
  <2> QED BY <1>1, <2>1
<1>8. /\ job' \in [Requests -> {"none", "queued", "running", "ended", "lost", "beaten"}]
      /\ \A s \in Requests : s # r => job'[s] = job[s]
      /\ IF asked THEN job'[r] = "queued" ELSE job'[r] = "none"
  BY <1>1, <1>2 DEF TargetsInv, TargetTypes
<1>9. TargetTypes'
  BY <1>1, <1>4, <1>6, <1>7, <1>8 DEF TargetsInv, TargetTypes
<1>10. CopiesSound'
  <2>1. \A c : c.version \in Nat /\ IsCopy(c) => IsCopy(c)'
    BY <1>7, CopiesAge DEF IsCopy
  <2>2. \A s \in Requests : request'[s].at = "save" => request'[s] = request[s]
    BY <1>3, <1>4
  <2>3. \A s \in Requests : request'[s].at = "save" => IsCopy(request[s])'
    BY <2>1, <2>2, TargetParts DEF TargetsInv, CopiesSound
  <2>4. worker.at = "save" => IsCopy(worker)'
    BY <1>1, <2>1, TargetParts DEF TargetsInv, CopiesSound
  <2>5. tracker.at = "save" => IsCopy(tracker)'
    BY <1>1, <2>1, TargetParts DEF TargetsInv, CopiesSound
  <2>6. worker.at # "idle" => worker.job \in Requests /\ job'[worker.job] # "none"
    BY <1>2, <1>8 DEF TargetsInv, CopiesSound
  <2> QED BY <1>1, <2>3, <2>4, <2>5, <2>6 DEF TargetsInv, CopiesSound
<1>11. SuggestSound'
  <2>1. keywords'.status = "running" => keywords'.job \in Requests /\ job'[keywords'.job] # "ended"
    BY <1>2, <1>6, <1>8 DEF TargetsInv, SuggestSound
  <2>2. ASSUME asked, NEW s \in Requests, s # r, job[s] # "none"
        PROVE  q.now >= request[s].now + SUGGEST_COOLDOWN
    <3>1. request[s].now <= keywords.asked /\ request[s].now # 0 /\ request[s].now \in Nat
          /\ keywords.asked \in Nat
      BY <2>2, TargetParts DEF TargetsInv, SuggestSound
    <3>2. keywords.asked = 0 \/ q.now - keywords.asked >= SUGGEST_COOLDOWN
      BY <1>2, <1>5, <2>2 DEF Target!MaySuggest
    <3> QED BY <1>2, <3>1, <3>2, TargetBounds
  <2>3. \A s \in Requests :
          /\ request'[s].at = "save" => request'[s].now # 0
          /\ request'[s].at = "save" /\ request'[s].ask.kind = "suggest" =>
                Target!MaySuggest(request'[s].seen, request'[s].now)
          /\ request'[s].at # "answered" => job'[s] = "none"
          /\ job'[s] # "none" => request'[s].now <= keywords'.asked /\ request'[s].now # 0
    <3> SUFFICES ASSUME NEW s \in Requests
                 PROVE  /\ request'[s].at = "save" => request'[s].now # 0
                        /\ request'[s].at = "save" /\ request'[s].ask.kind = "suggest" =>
                              Target!MaySuggest(request'[s].seen, request'[s].now)
                        /\ request'[s].at # "answered" => job'[s] = "none"
                        /\ job'[s] # "none" =>
                              request'[s].now <= keywords'.asked /\ request'[s].now # 0
      OBVIOUS
    <3>1. CASE s = r
      BY <1>2, <1>3, <1>4, <1>6, <1>8, <3>1
    <3>2. CASE s # r /\ ~asked
      BY <1>4, <1>6, <1>8, <3>2 DEF TargetsInv, SuggestSound
    <3>3. CASE s # r /\ asked
      <4>1. job[s] # "none" => request[s].now <= q.now
        <5>1. request[s].now \in Nat
          BY TargetParts DEF TargetsInv
        <5> QED BY <1>2, <2>2, <3>3, <5>1, TargetBounds
      <4> QED BY <1>4, <1>6, <1>8, <3>3, <4>1 DEF TargetsInv, SuggestSound
    <3> QED BY <3>1, <3>2, <3>3
  <2>4. \A a, b \in Requests : a # b /\ job'[a] # "none" /\ job'[b] # "none" =>
          \/ request'[a].now >= request'[b].now + SUGGEST_COOLDOWN
          \/ request'[b].now >= request'[a].now + SUGGEST_COOLDOWN
    <3> SUFFICES ASSUME NEW a \in Requests, NEW b \in Requests, a # b,
                        job'[a] # "none", job'[b] # "none"
                 PROVE  \/ request'[a].now >= request'[b].now + SUGGEST_COOLDOWN
                        \/ request'[b].now >= request'[a].now + SUGGEST_COOLDOWN
      OBVIOUS
    <3>1. CASE a # r /\ b # r
      BY <1>4, <1>8, <3>1 DEF TargetsInv, SuggestSound, Target!RunningHasItsJob
    <3>2. CASE a = r
      BY <1>3, <1>4, <1>8, <2>2, <3>2
    <3>3. CASE b = r
      BY <1>3, <1>4, <1>8, <2>2, <3>3
    <3> QED BY <3>1, <3>2, <3>3
  <2>5. Target!RunningHasItsJob'
    BY <2>1, <2>4 DEF Target!RunningHasItsJob
  <2> QED BY <2>1, <2>3, <2>5 DEF SuggestSound, Target!MaySuggest
<1>12. Target!DecisionStep
  <2>1. \A w \in Words : keywords'.checks[w] < keywords.checks[w] => keywords'.words[w] = "unknown"
    BY <1>6, TargetParts DEF TargetsInv
  <2>2. \/ keywords' = keywords
        \/ request[r].at = "save" /\ request'[r].at = "answered" /\ request[r].seen.words = keywords.words
    BY <1>1, <1>3, <1>4, <1>5 DEF q
  <2> QED BY <2>1, <2>2 DEF Target!DecisionStep
<1> QED BY <1>9, <1>10, <1>11, <1>12 DEF TargetsInv

\* A step of the suggestion's job that writes nothing.
LEMMA SuggesterWorks ==
  ASSUME TargetsInv, UNCHANGED <<clock, keywords, version, request, tracker, rounds>>,
         worker' \in ASuggester, worker'.at = "save" => IsCopy(worker'),
         worker'.at # "idle" => worker'.job \in Requests /\ job'[worker'.job] # "none",
         job' \in [Requests -> {"none", "queued", "running", "ended", "lost", "beaten"}],
         \A s \in Requests : job'[s] = "none" <=> job[s] = "none",
         keywords.status = "running" => job'[keywords.job] # "ended"
  PROVE  TargetsInv' /\ Target!DecisionStep
<1>1. TargetTypes'
  BY DEF TargetsInv, TargetTypes
<1>2. CopiesSound'
  BY DEF TargetsInv, CopiesSound, IsCopy
<1>3. SuggestSound'
  BY SuggestRests
<1>4. Target!DecisionStep
  BY NothingDecided DEF TargetsInv
<1> QED BY <1>1, <1>2, <1>3, <1>4 DEF TargetsInv

\* A set is written over the record by the suggestion or the rank check.
LEMMA TargetWrites ==
  ASSUME TargetsInv, version' = version + 1, UNCHANGED <<clock, request, rounds>>,
         keywords' \in Target!Set, keywords'.asked = keywords.asked,
         keywords'.status = "running" => keywords.status = "running" /\ keywords'.job = keywords.job,
         worker' \in ASuggester, worker' = worker \/ worker'.at = "idle",
         tracker' \in ATracker, tracker' = tracker \/ tracker'.at = "idle",
         job' \in [Requests -> {"none", "queued", "running", "ended", "lost", "beaten"}],
         \A s \in Requests : job'[s] = "none" <=> job[s] = "none",
         keywords'.status = "running" => job'[keywords.job] # "ended",
         \A w \in Words :
            keywords.words[w] \in {"confirmed", "dismissed"} /\ keywords'.words[w] # keywords.words[w] =>
               /\ keywords.words[w] = "dismissed" /\ keywords'.words[w] = "unknown"
               /\ Cardinality({v \in Words : keywords'.words[v] # "unknown"}) >= MAX_WORDS,
         \A w \in Words : keywords'.checks[w] >= keywords.checks[w] \/ keywords'.words[w] = "unknown"
  PROVE  TargetsInv' /\ Target!DecisionStep
<1>1. TargetTypes'
  BY TargetParts DEF TargetsInv, TargetTypes
<1>2. CopiesSound'
  <2>1. \A c : c.version \in Nat /\ IsCopy(c) => IsCopy(c)'
    BY CopiesAge
  <2>2. \A s \in Requests : request[s].at = "save" => IsCopy(request[s])'
    BY <2>1, TargetParts DEF TargetsInv, CopiesSound
  <2>3. worker'.at = "save" => IsCopy(worker)'
    BY <2>1, TargetParts DEF TargetsInv, CopiesSound
  <2>4. tracker'.at = "save" => IsCopy(tracker)'
    BY <2>1, TargetParts DEF TargetsInv, CopiesSound
  <2> QED BY <2>2, <2>3, <2>4 DEF TargetsInv, CopiesSound
<1>3. SuggestSound'
  BY SuggestRests
<1>4. Target!DecisionStep
  <2>1. Target!Listed(keywords)' = {v \in Words : keywords'.words[v] # "unknown"}
    BY DEF Target!Listed, Target!With
  <2>2. \A w \in Words : keywords'.checks[w] < keywords.checks[w] => keywords'.words[w] = "unknown"
    <3>1. keywords'.checks \in [Words -> Target!Times]
      BY SetParts
    <3> QED BY <3>1, TargetParts, TargetBounds DEF TargetsInv
  <2>3. Target!Cardinality(Target!Listed(keywords)')
            = Cardinality({v \in Words : keywords'.words[v] # "unknown"})
    BY <2>1, TargetNumbers
  <2>4. Target!Listed(keywords)' = Target!Listed(keywords')
    BY DEF Target!Listed, Target!With
  <2> QED BY <2>2, <2>3, <2>4 DEF Target!DecisionStep
<1> QED BY <1>1, <1>2, <1>3, <1>4 DEF TargetsInv

LEMMA TargetDelivers ==
  ASSUME TargetsInv, NEW r \in Requests, Target!Deliver(r)
  PROVE  TargetsInv' /\ Target!DecisionStep
<1> DEFINE new == [Target!IdleWorker EXCEPT !.at = "ask", !.job = r]
           status == IF Target!mine(keywords, r) THEN "running" ELSE "ended"
<1>1. /\ job[r] = "queued" /\ job' = [job EXCEPT ![r] = status]
      /\ worker.at = "idle" /\ (worker' = worker \/ worker' = new)
      /\ UNCHANGED <<clock, keywords, version, request, tracker, rounds>>
  BY DEF Target!Deliver
<1>2. new \in ASuggester /\ new.at = "ask" /\ new.job = r
  <2>1. Target!NewSet \in Target!Set
    BY TargetBounds DEF Target!NewSet, Target!Set, Target!KeywordStatus, Target!SuggestionStatus
  <2> QED BY <2>1, TargetBounds DEF Target!IdleWorker, ASuggester
<1> HIDE DEF new
<1>3. job \in [Requests -> {"none", "queued", "running", "ended", "lost", "beaten"}]
  BY DEF TargetsInv, TargetTypes
<1>4. keywords.status = "running" => job'[keywords.job] # "ended"
  BY <1>1, <1>3 DEF TargetsInv, SuggestSound, Target!mine
<1>5. worker' \in ASuggester
  BY <1>1, <1>2, TargetParts DEF TargetsInv
<1>6. \A s \in Requests : job'[s] = "none" <=> job[s] = "none"
  BY <1>1, <1>3
<1>7. job' \in [Requests -> {"none", "queued", "running", "ended", "lost", "beaten"}]
  BY <1>1, <1>3
<1> QED BY <1>1, <1>2, <1>4, <1>5, <1>6, <1>7, SuggesterWorks

\* The suggestion's job is over.
LEMMA SuggestionOver ==
  ASSUME TargetsInv, worker.at # "idle", NEW status \in {"ended", "lost", "beaten"},
         Target!JobOver(status)
  PROVE  /\ worker' \in ASuggester /\ worker'.at = "idle" /\ worker.job \in Requests
         /\ job' = [job EXCEPT ![worker.job] = status]
         /\ job' \in [Requests -> {"none", "queued", "running", "ended", "lost", "beaten"}]
         /\ \A s \in Requests : s # worker.job => job'[s] = job[s]
         /\ job'[worker.job] = status
<1>1. worker' = Target!IdleWorker /\ job' = [job EXCEPT ![worker.job] = status]
  BY DEF Target!JobOver
<1>2. Target!IdleWorker \in ASuggester /\ Target!IdleWorker.at = "idle"
  <2>1. Target!NewSet \in Target!Set
    BY TargetBounds DEF Target!NewSet, Target!Set, Target!KeywordStatus, Target!SuggestionStatus
  <2> QED BY <2>1 DEF Target!IdleWorker, ASuggester
<1>3. worker.job \in Requests
      /\ job \in [Requests -> {"none", "queued", "running", "ended", "lost", "beaten"}]
  BY DEF TargetsInv, TargetTypes, CopiesSound
<1> QED BY <1>1, <1>2, <1>3

LEMMA SuggestionSteps ==
  ASSUME TargetsInv, Target!Answer \/ Target!UpdateRead \/ Target!Stop
  PROVE  TargetsInv' /\ Target!DecisionStep
<1>1. /\ worker \in ASuggester
      /\ job \in [Requests -> {"none", "queued", "running", "ended", "lost", "beaten"}]
      /\ keywords.status = "running" => job[keywords.job] # "ended"
      /\ keywords.status = "running" => keywords.job \in Requests
      /\ worker.at # "idle" => worker.job \in Requests /\ job[worker.job] # "none"
  BY DEF TargetsInv, TargetTypes, CopiesSound, SuggestSound
<1>2. ASSUME Target!Answer PROVE TargetsInv' /\ Target!DecisionStep
  <2>1. /\ worker.at = "ask" /\ UNCHANGED <<clock, keywords, version, request, job, tracker, rounds>>
        /\ \/ worker' = [worker EXCEPT !.at = "read", !.error = TRUE]
           \/ \E words \in SUBSET Words : worker' = [worker EXCEPT !.at = "read", !.found = words]
    BY <1>2 DEF Target!Answer
  <2>2. worker' \in ASuggester /\ worker'.at = "read" /\ worker'.job = worker.job
    BY <1>1, <2>1 DEF ASuggester
  <2> QED BY <1>1, <2>1, <2>2, SuggesterWorks
<1>3. ASSUME NEW status \in {"ended", "lost"}, Target!JobOver(status), worker.at # "idle",
             UNCHANGED <<clock, keywords, version, request, tracker, rounds>>,
             status = "ended" => ~Target!mine(keywords, worker.job)
      PROVE  TargetsInv' /\ Target!DecisionStep
  <2>1. /\ worker' \in ASuggester /\ worker'.at = "idle" /\ worker.job \in Requests
        /\ job' \in [Requests -> {"none", "queued", "running", "ended", "lost", "beaten"}]
        /\ \A s \in Requests : s # worker.job => job'[s] = job[s]
        /\ job'[worker.job] = status
    BY <1>3, SuggestionOver
  <2>2. \A s \in Requests : job'[s] = "none" <=> job[s] = "none"
    BY <1>1, <1>3, <2>1
  <2>3. keywords.status = "running" => job'[keywords.job] # "ended"
    BY <1>1, <1>3, <2>1 DEF Target!mine
  <2> QED BY <1>3, <2>1, <2>2, <2>3, SuggesterWorks
<1>4. ASSUME Target!UpdateRead PROVE TargetsInv' /\ Target!DecisionStep
  <2>1. CASE Target!mine(keywords, worker.job)
    <3>1. /\ worker.at = "read"
          /\ worker' = [worker EXCEPT !.at = "save", !.seen = keywords, !.version = version]
          /\ UNCHANGED <<clock, keywords, version, request, job, tracker, rounds>>
      BY <1>4, <2>1 DEF Target!UpdateRead
    <3>2. /\ worker' \in ASuggester /\ worker'.job = worker.job /\ worker'.version = version
          /\ worker'.seen = keywords
      BY <1>1, <3>1, TargetParts DEF TargetsInv, ASuggester
    <3>3. IsCopy(worker')
      BY <3>2, TargetParts DEF IsCopy, TargetsInv
    <3> QED BY <1>1, <3>1, <3>2, <3>3, SuggesterWorks
  <2>2. CASE ~Target!mine(keywords, worker.job)
    BY <1>3, <1>4, <2>2 DEF Target!UpdateRead
  <2> QED BY <2>1, <2>2
<1>5. ASSUME Target!Stop PROVE TargetsInv' /\ Target!DecisionStep
  BY <1>3, <1>5 DEF Target!Stop
<1> QED BY <1>2, <1>4, <1>5

LEMMA SuggestionSaves ==
  ASSUME TargetsInv, Target!UpdateSave
  PROVE  TargetsInv' /\ Target!DecisionStep
<1>1. /\ worker \in ASuggester /\ worker.at = "save" /\ IsCopy(worker)
      /\ job \in [Requests -> {"none", "queued", "running", "ended", "lost", "beaten"}]
      /\ keywords.status = "running" => job[keywords.job] # "ended"
      /\ worker.job \in Requests /\ job[worker.job] # "none"
      /\ UNCHANGED <<clock, request, tracker, rounds>>
  BY DEF Target!UpdateSave, TargetsInv, TargetTypes, CopiesSound, SuggestSound
<1>2. CASE /\ worker.version = version /\ keywords' \in Target!Outcomes /\ version' = version + 1
           /\ Target!JobOver("ended")
  <2>1. worker.seen = keywords
    BY <1>1, <1>2 DEF IsCopy
  <2>2. /\ worker' \in ASuggester /\ worker'.at = "idle"
        /\ job' \in [Requests -> {"none", "queued", "running", "ended", "lost", "beaten"}]
        /\ \A s \in Requests : s # worker.job => job'[s] = job[s]
        /\ job'[worker.job] = "ended"
    BY <1>1, <1>2, SuggestionOver
  <2>3. \A s \in Requests : job'[s] = "none" <=> job[s] = "none"
    BY <1>1, <2>2
  <2>4. /\ keywords' \in Target!Set /\ keywords'.status \in {"idle", "failed"}
        /\ keywords'.asked = keywords.asked
        /\ \A w \in Words :
              keywords.words[w] \in {"confirmed", "dismissed"} /\ keywords'.words[w] # keywords.words[w] =>
                 /\ keywords.words[w] = "dismissed" /\ keywords'.words[w] = "unknown"
                 /\ Cardinality({v \in Words : keywords'.words[v] # "unknown"}) >= MAX_WORDS
        /\ \A w \in Words : keywords'.checks[w] = keywords.checks[w] \/ keywords'.words[w] = "unknown"
    BY <1>1, <1>2, <2>1, SuggestionWrites, TargetParts DEF TargetsInv
  <2>5. \A w \in Words : keywords'.checks[w] >= keywords.checks[w] \/ keywords'.words[w] = "unknown"
    BY <2>4, TargetParts DEF TargetsInv
  <2>6. tracker \in ATracker
    BY TargetParts DEF TargetsInv
  <2> QED BY <1>1, <1>2, <2>2, <2>3, <2>4, <2>5, <2>6, TargetWrites
<1>3. CASE /\ worker' = [worker EXCEPT !.at = "read", !.tries = @ + 1]
           /\ UNCHANGED <<keywords, version, job>>
  <2> DEFINE tries_ == worker.tries + 1
  <2>0. tries_ \in Nat
    BY <1>1 DEF ASuggester
  <2> HIDE DEF tries_
  <2>1. worker' \in ASuggester /\ worker'.at = "read" /\ worker'.job = worker.job
    <3>1. worker' = [worker EXCEPT !.at = "read", !.tries = tries_]
      BY <1>3 DEF tries_
    <3> QED BY <1>1, <2>0, <3>1 DEF ASuggester
  <2> QED BY <1>1, <1>3, <2>1, SuggesterWorks
<1>4. CASE /\ worker' = [worker EXCEPT !.at = "read", !.tries = 0, !.error = TRUE]
           /\ UNCHANGED <<keywords, version, job>>
  <2>1. worker' \in ASuggester /\ worker'.at = "read" /\ worker'.job = worker.job
    BY <1>1, <1>4 DEF ASuggester
  <2> QED BY <1>1, <1>4, <2>1, SuggesterWorks
<1>5. CASE Target!JobOver("beaten") /\ UNCHANGED <<keywords, version>>
  <2>1. /\ worker' \in ASuggester /\ worker'.at = "idle"
        /\ job' \in [Requests -> {"none", "queued", "running", "ended", "lost", "beaten"}]
        /\ \A s \in Requests : s # worker.job => job'[s] = job[s]
        /\ job'[worker.job] = "beaten"
    BY <1>1, <1>5, SuggestionOver
  <2>2. \A s \in Requests : job'[s] = "none" <=> job[s] = "none"
    BY <1>1, <2>1
  <2>3. keywords.status = "running" => job'[keywords.job] # "ended"
    BY <1>1, <2>1 DEF TargetsInv, SuggestSound
  <2> QED BY <1>1, <1>5, <2>1, <2>2, <2>3, SuggesterWorks
<1> QED BY <1>2, <1>3, <1>4, <1>5 DEF Target!UpdateSave, Target!MaySave

\* A step of the rank check that writes nothing.
LEMMA TrackerWorks ==
  ASSUME TargetsInv, UNCHANGED <<clock, keywords, version, request, worker, job>>,
         tracker' \in ATracker, rounds' \in 0..MaxTracks,
         tracker'.at = "save" =>
            IsCopy(tracker') /\ \A w \in tracker'.word : tracker'.fetched > tracker'.seen.checks[w],
         tracker'.at # "idle" => \E w \in Words : tracker'.word = {w}
  PROVE  TargetsInv' /\ Target!DecisionStep
<1>1. TargetTypes'
  BY DEF TargetsInv, TargetTypes
<1>2. CopiesSound'
  BY DEF TargetsInv, CopiesSound, IsCopy
<1>3. SuggestSound'
  BY SuggestRests DEF TargetsInv, SuggestSound
<1>4. Target!DecisionStep
  BY NothingDecided DEF TargetsInv
<1> QED BY <1>1, <1>2, <1>3, <1>4 DEF TargetsInv

LEMMA IdleTracks ==
  Target!IdleTracker \in ATracker /\ Target!IdleTracker.at = "idle"
<1>1. Target!NewSet \in Target!Set
  BY TargetBounds DEF Target!NewSet, Target!Set, Target!KeywordStatus, Target!SuggestionStatus
<1> QED BY <1>1, TargetBounds DEF Target!IdleTracker, ATracker

LEMMA RanksAreChecked ==
  ASSUME TargetsInv, Target!Look \/ Target!RankRead
  PROVE  TargetsInv' /\ Target!DecisionStep
<1>1. tracker \in ATracker /\ rounds \in 0..MaxTracks /\ clock \in 1..MaxTime
  BY DEF TargetsInv, TargetTypes
<1>2. CASE Target!Look
  <2>1. PICK w \in Words, fetched \in 1..clock :
          tracker' = [Target!IdleTracker EXCEPT !.at = "read", !.word = {w}, !.fetched = fetched]
    BY <1>2 DEF Target!Look, Target!With
  <2>2. fetched \in Target!Times
    BY <1>1, TargetBounds
  <2>3. tracker' \in ATracker /\ tracker'.at = "read" /\ tracker'.word = {w}
    BY <2>1, <2>2, IdleTracks DEF ATracker
  <2>4. /\ UNCHANGED <<clock, keywords, version, request, worker, job>>
        /\ rounds < MaxTracks /\ rounds' = rounds + 1
    BY <1>2 DEF Target!Look
  <2>5. rounds' \in 0..MaxTracks
    BY <1>1, <2>4, TargetBounds
  <2> QED BY <2>3, <2>4, <2>5, TrackerWorks
<1>3. CASE Target!RankRead
  <2>1. /\ tracker.at = "read" /\ UNCHANGED <<clock, keywords, version, request, job, worker, rounds>>
    BY <1>3 DEF Target!RankRead
  <2>2. CASE tracker' = Target!IdleTracker
    BY <1>1, <2>1, <2>2, IdleTracks, TrackerWorks
  <2>3. CASE tracker' # Target!IdleTracker
    <3>1. /\ tracker' = [tracker EXCEPT !.at = "save", !.seen = keywords, !.version = version]
          /\ \E w \in tracker.word : tracker.fetched > keywords.checks[w]
      BY <1>3, <2>3 DEF Target!RankRead
    <3>2. /\ tracker' \in ATracker /\ tracker'.at = "save" /\ tracker'.word = tracker.word
          /\ tracker'.fetched = tracker.fetched /\ tracker'.seen = keywords /\ tracker'.version = version
      BY <1>1, <3>1, TargetParts DEF TargetsInv, ATracker
    <3>3. \A w \in tracker'.word : tracker'.fetched > tracker'.seen.checks[w]
      BY <2>1, <3>1, <3>2 DEF TargetsInv, CopiesSound
    <3>4. IsCopy(tracker')
      BY <3>2, TargetParts DEF TargetsInv, IsCopy
    <3>5. \E w \in Words : tracker'.word = {w}
      BY <2>1, <3>2 DEF TargetsInv, CopiesSound
    <3> QED BY <1>1, <2>1, <3>2, <3>3, <3>4, <3>5, TrackerWorks
  <2> QED BY <2>2, <2>3
<1> QED BY <1>2, <1>3

LEMMA RanksAreSaved ==
  ASSUME TargetsInv, Target!RankSave
  PROVE  TargetsInv' /\ Target!DecisionStep
<1>1. /\ tracker \in ATracker /\ rounds \in 0..MaxTracks /\ tracker.at = "save" /\ IsCopy(tracker)
      /\ \A w \in tracker.word : tracker.fetched > tracker.seen.checks[w]
      /\ UNCHANGED <<clock, request, job, worker, rounds>>
  BY DEF Target!RankSave, TargetsInv, TargetTypes, CopiesSound
<1>2. CASE tracker.version # version
  <2>1. UNCHANGED <<keywords, version>>
        /\ (tracker' = [tracker EXCEPT !.at = "read", !.tries = @ + 1] \/ tracker' = Target!IdleTracker)
    BY <1>2 DEF Target!RankSave, Target!MaySave
  <2>2. CASE tracker' = Target!IdleTracker
    BY <1>1, <2>1, <2>2, IdleTracks, TrackerWorks
  <2>3. CASE tracker' = [tracker EXCEPT !.at = "read", !.tries = @ + 1]
    <3> DEFINE tries_ == tracker.tries + 1
    <3>0. tries_ \in Nat
      BY <1>1 DEF ATracker
    <3> HIDE DEF tries_
    <3>1. tracker' \in ATracker /\ tracker'.at = "read" /\ tracker'.word = tracker.word
      <4>1. tracker' = [tracker EXCEPT !.at = "read", !.tries = tries_]
        BY <2>3 DEF tries_
      <4> QED BY <1>1, <3>0, <4>1 DEF ATracker
    <3>2. \E w \in Words : tracker.word = {w}
      BY <1>1 DEF TargetsInv, CopiesSound
    <3> QED BY <1>1, <2>1, <3>1, <3>2, TrackerWorks
  <2> QED BY <2>1, <2>2, <2>3
<1>3. CASE tracker.version = version
  <2> DEFINE checks == [w \in Words |-> IF w \in tracker.word THEN tracker.fetched
                                        ELSE keywords.checks[w]]
  <2>1. tracker.seen = keywords
    BY <1>1, <1>3 DEF IsCopy
  <2>2. /\ keywords' = [keywords EXCEPT !.checks = checks]
        /\ version' = version + 1 /\ tracker' = Target!IdleTracker
    BY <1>3, <2>1 DEF Target!RankSave, Target!MaySave
  <2>3. keywords \in Target!Set /\ keywords.checks \in [Words -> Target!Times]
        /\ tracker.fetched \in Target!Times
    BY <1>1, TargetParts, SetParts DEF TargetsInv, ATracker
  <2>4. checks \in [Words -> Target!Times] /\ \A w \in Words : checks[w] >= keywords.checks[w]
    BY <1>1, <2>1, <2>3, TargetBounds
  <2> HIDE DEF checks
  <2>5. /\ keywords' \in Target!Set /\ keywords'.words = keywords.words
        /\ keywords'.checks = checks /\ keywords'.asked = keywords.asked
        /\ keywords'.status = keywords.status /\ keywords'.job = keywords.job
    BY <2>2, <2>3, <2>4 DEF Target!Set
  <2>6. /\ worker \in ASuggester
        /\ job \in [Requests -> {"none", "queued", "running", "ended", "lost", "beaten"}]
        /\ keywords.status = "running" => job[keywords.job] # "ended"
    BY DEF TargetsInv, TargetTypes, SuggestSound
  <2>7. tracker' \in ATracker /\ tracker'.at = "idle"
    BY <2>2, IdleTracks
  <2> QED BY <1>1, <2>2, <2>4, <2>5, <2>6, <2>7, TargetWrites
<1> QED BY <1>2, <1>3

LEMMA TargetsStep ==
  ASSUME TargetsInv, Target!Next \/ UNCHANGED Target!vars
  PROVE  TargetsInv' /\ Target!DecisionStep
<1>1. CASE Target!Tick \/ UNCHANGED Target!vars
  <2>1. UNCHANGED <<keywords, version, request, job, worker, tracker, rounds>>
    BY <1>1 DEF Target!Tick, Target!vars
  <2>2. clock' \in 1..MaxTime
    BY <1>1, TargetBounds DEF Target!Tick, Target!vars, TargetsInv, TargetTypes
  <2>3. TargetTypes'
    BY <2>1, <2>2 DEF TargetsInv, TargetTypes
  <2>4. CopiesSound'
    BY <2>1 DEF TargetsInv, CopiesSound, IsCopy
  <2>5. SuggestSound'
    BY <2>1, SuggestRests DEF TargetsInv, SuggestSound
  <2> QED BY <2>1, <2>3, <2>4, <2>5, NothingDecided DEF TargetsInv
<1> QED
  BY <1>1, TargetReads, TargetSaves, TargetDelivers, SuggestionSteps, SuggestionSaves,
     RanksAreChecked, RanksAreSaved DEF Target!Next

LEMMA TargetsPromise == TargetsInv => Target!TypeOK /\ Target!RunningHasItsJob
<1> SUFFICES ASSUME TargetsInv PROVE Target!TypeOK /\ Target!RunningHasItsJob
  OBVIOUS
<1>1. \A r \in Requests : request[r].ask \in Target!Asks /\ request[r].seen \in Target!Set
  BY DEF TargetsInv, TargetTypes, ARequest
<1>2. /\ worker.at \in {"idle", "ask", "read", "save"} /\ worker.seen \in Target!Set
      /\ tracker.at \in {"idle", "read", "save"} /\ tracker.seen \in Target!Set
  BY DEF TargetsInv, TargetTypes, ASuggester, ATracker
<1> QED BY <1>1, <1>2 DEF TargetsInv, TargetTypes, SuggestSound, Target!TypeOK
-----------------------------------------------------------------------------
(* The paid lookups (PaidLookups): a budget's count is always enough for the *)
(* requests that were sent by it and those that are about to be, since only  *)
(* a save over the very version that was read adds to it.                    *)
Lookups == [at : {"idle", "check", "count", "take", "send", "done", "failed"},
            kind : {"serp", "volume"}, todo : SUBSET Queries, wanted : SUBSET Queries,
            stale : SUBSET Queries, answered : SUBSET Queries, pending : SUBSET Queries,
            budget : 1..2, day : 1..LastDay, used : Nat, version : Nat, tries : Nat]
Counts == [DOMAIN Limit -> [1..LastDay -> Nat]]
LookupTypes ==
    /\ today \in 1..LastDay
    /\ used \in Counts /\ version \in Counts /\ sent \in Counts
    /\ client \in [Clients -> Lookups]

\* Clients that have been counted and have not sent their request yet.
Counted(s, d) == {c \in Clients : client[c].at = "send" /\ Paid!Scope(c) = s /\ client[c].day = d}
CountsSuffice ==
    \A s \in DOMAIN Limit, d \in 1..LastDay :
        sent[s][d] + Cardinality(Counted(s, d)) <= used[s][d] /\ used[s][d] <= Limit[s]

\* The budget a client is at is one of its own, and the last when it may send.
BudgetOf(c) ==
    /\ client[c].budget \in DOMAIN Paid!Budgets(c)

\* A count that was read is the budget's as long as its version is.
CountReadOf(c) ==
    client[c].at = "take" =>
        LET s == Paid!Scope(c) d == client[c].day IN
        /\ client[c].version <= version[s][d]
        /\ client[c].used < Limit[s]
        /\ Paid!Unchanged(c) => used[s][d] = client[c].used

\* What is asked for is answered, pending or still to do, and only one of them.
AnswersOf(c) ==
    /\ client[c].at \in {"check", "count", "take", "send"} =>
          /\ client[c].pending = {} /\ client[c].todo # {}
          /\ client[c].answered \cup client[c].todo = client[c].wanted
          /\ client[c].answered \cap client[c].todo = {}
    /\ client[c].at = "done" =>
          /\ client[c].answered \cup client[c].pending = client[c].wanted
          /\ client[c].answered \cap client[c].pending = {}

LookupsInv ==
    /\ LookupTypes /\ CountsSuffice
    /\ \A c \in Clients : BudgetOf(c) /\ CountReadOf(c) /\ AnswersOf(c)

LEMMA PaidNumbers ==
  /\ \A S : Paid!Cardinality(S) = Cardinality(S)
  /\ Paid!Scopes = DOMAIN Limit /\ Paid!Days = 1..LastDay
BY DEF Cardinality, Paid!Cardinality, Paid!Scopes, Paid!Days

\* A table of counts with one of them replaced.
LEMMA CountOf ==
  ASSUME NEW f \in Counts, NEW s \in DOMAIN Limit, NEW d \in 1..LastDay
  PROVE  f[s][d] \in Nat
BY DEF Counts
LEMMA CountSet ==
  ASSUME NEW f \in Counts, NEW s \in DOMAIN Limit, NEW d \in 1..LastDay, NEW n \in Nat,
         NEW g, g = [f EXCEPT ![s][d] = n]
  PROVE  g \in Counts
<1>1. f \in [DOMAIN Limit -> [1..LastDay -> Nat]]
  BY DEF Counts
<1>2. [f[s] EXCEPT ![d] = n] \in [1..LastDay -> Nat]
  BY <1>1
<1>3. g = [f EXCEPT ![s] = [f[s] EXCEPT ![d] = n]]
  OBVIOUS
<1> QED BY <1>1, <1>2, <1>3 DEF Counts

LEMMA LookupsStart == Paid!Init => LookupsInv
<1> SUFFICES ASSUME Paid!Init PROVE LookupsInv
  OBVIOUS
<1>1. Paid!Idle \in Lookups /\ Paid!Idle.at = "idle" /\ Paid!Idle.budget = 1
  BY LookupsAssumption DEF Paid!Idle, Lookups
<1>2. \A c \in Clients : client[c] = Paid!Idle
  BY DEF Paid!Init
<1>3. LookupTypes
  BY <1>1, LookupsAssumption, PaidNumbers DEF Paid!Init, LookupTypes, Counts
<1>4. \A c \in Clients : BudgetOf(c) /\ CountReadOf(c) /\ AnswersOf(c)
  BY <1>1, <1>2 DEF BudgetOf, CountReadOf, AnswersOf, Paid!Budgets
<1>5. \A s, d : Counted(s, d) = {}
  BY <1>1, <1>2 DEF Counted
<1>6. CountsSuffice
  <2> SUFFICES ASSUME NEW s \in DOMAIN Limit, NEW d \in 1..LastDay
               PROVE sent[s][d] + Cardinality(Counted(s, d)) <= used[s][d] /\ used[s][d] <= Limit[s]
    BY DEF CountsSuffice
  <2>1. sent[s][d] = 0 /\ used[s][d] = 0
    BY PaidNumbers DEF Paid!Init
  <2>2. Limit[s] \in Nat
    BY LookupsAssumption
  <2> QED BY <1>5, <2>1, <2>2, FS_EmptySet
<1> QED BY <1>3, <1>4, <1>6 DEF LookupsInv

\* A step of one client leaves what the others are at.
LEMMA OneClient ==
  ASSUME LookupTypes, NEW c \in Clients, NEW new \in Lookups,
         client' = [client EXCEPT ![c] = new]
  PROVE  /\ client' \in [Clients -> Lookups] /\ client'[c] = new
         /\ \A o \in Clients \ {c} : client'[o] = client[o]
         /\ \A o \in Clients \ {c} :
               /\ Paid!Budgets(o)' = Paid!Budgets(o) /\ Paid!Scope(o)' = Paid!Scope(o)
               /\ BudgetOf(o)' = BudgetOf(o) /\ AnswersOf(o)' = AnswersOf(o)
<1>1. /\ client' \in [Clients -> Lookups] /\ client'[c] = new
      /\ \A o \in Clients \ {c} : client'[o] = client[o]
  BY DEF LookupTypes
<1>2. \A o \in Clients \ {c} :
               /\ Paid!Budgets(o)' = Paid!Budgets(o) /\ Paid!Scope(o)' = Paid!Scope(o)
  BY <1>1 DEF Paid!Budgets, Paid!Scope
<1>3. \A o \in Clients \ {c} :
         BudgetOf(o)' = BudgetOf(o) /\ AnswersOf(o)' = AnswersOf(o)
  BY <1>1, <1>2 DEF BudgetOf, AnswersOf
<1> QED BY <1>1, <1>2, <1>3

\* The budgets of a client are of the kind it looks up.
LEMMA BudgetsAre ==
  ASSUME LookupTypes, NEW c \in Clients
  PROVE  /\ Paid!Budgets(c) \in Seq(DOMAIN Limit)
         /\ Len(Paid!Budgets(c)) \in 1..2 /\ DOMAIN Paid!Budgets(c) = 1..Len(Paid!Budgets(c))
         /\ 1 \in DOMAIN Paid!Budgets(c)
         /\ BudgetOf(c) => Paid!Scope(c) \in DOMAIN Limit
<1>1. Tenant[c] \in DOMAIN Limit /\ {"serp", "volume"} \subseteq DOMAIN Limit
  BY LookupsAssumption
<1>2. Paid!Budgets(c) \in Seq(DOMAIN Limit) /\ Len(Paid!Budgets(c)) \in 1..2
  <2>1. CASE client[c].kind = "serp"
    <3>1. Paid!Budgets(c) = <<"serp">>
      BY <2>1 DEF Paid!Budgets
    <3> QED BY <1>1, <3>1
  <2>2. CASE client[c].kind # "serp"
    <3>1. Paid!Budgets(c) = <<Tenant[c], "volume">>
      BY <2>2 DEF Paid!Budgets
    <3> QED BY <1>1, <3>1
  <2> QED BY <2>1, <2>2
<1>3. DOMAIN Paid!Budgets(c) = 1..Len(Paid!Budgets(c))
  BY <1>2
<1>4. BudgetOf(c) => Paid!Scope(c) \in DOMAIN Limit
  BY <1>2, <1>3 DEF BudgetOf, Paid!Scope
<1> QED BY <1>2, <1>3, <1>4

LEMMA CountedIsFinite == \A s, d : IsFiniteSet(Counted(s, d)) /\ Cardinality(Counted(s, d)) \in Nat
<1> SUFFICES ASSUME NEW s, NEW d PROVE IsFiniteSet(Counted(s, d)) /\ Cardinality(Counted(s, d)) \in Nat
  OBVIOUS
<1>1. Counted(s, d) \in SUBSET Clients
  BY DEF Counted
<1> QED BY <1>1, LookupsAssumption, FS_Subset, FS_CardinalityType

\* A client that may not send is counted nowhere.
LEMMA CountedWithout ==
  ASSUME LookupTypes, NEW c \in Clients, NEW new \in Lookups,
         client' = [client EXCEPT ![c] = new], new.at # "send", NEW s, NEW d
  PROVE  /\ Counted(s, d)' = Counted(s, d) \ {c}
         /\ Cardinality(Counted(s, d)') =
               IF c \in Counted(s, d) THEN Cardinality(Counted(s, d)) - 1 ELSE Cardinality(Counted(s, d))
         /\ Cardinality(Counted(s, d)') \in Nat
<1>1. Counted(s, d)' = Counted(s, d) \ {c}
  <2>1. c \notin Counted(s, d)'
    BY OneClient DEF Counted
  <2>2. \A o \in Clients \ {c} : o \in Counted(s, d)' <=> o \in Counted(s, d)
    BY OneClient DEF Counted
  <2>3. Counted(s, d) \subseteq Clients /\ Counted(s, d)' \subseteq Clients
    BY DEF Counted
  <2> QED BY <2>1, <2>2, <2>3
<1>2. IsFiniteSet(Counted(s, d)) /\ IsFiniteSet(Counted(s, d)')
  BY <1>1, CountedIsFinite, FS_RemoveElement
<1> QED BY <1>1, <1>2, FS_RemoveElement, FS_CardinalityType

\* Another client's count is still the budget's: its version only grows.
LEMMA OthersRead ==
  ASSUME LookupsInv, NEW c \in Clients, NEW new \in Lookups,
         client' = [client EXCEPT ![c] = new],
         NEW o \in Clients \ {c}, NEW s \in DOMAIN Limit, NEW d \in 1..LastDay,
         NEW n \in Nat,
         \/ UNCHANGED <<used, version>>
         \/ /\ version' = [version EXCEPT ![s][d] = @ + 1]
            /\ used' = [used EXCEPT ![s][d] = n]
  PROVE  CountReadOf(o)'
<1> DEFINE t == Paid!Scope(o)  e == client[o].day
<1>1. CountReadOf(o) /\ BudgetOf(o) /\ t \in DOMAIN Limit /\ client[o] \in Lookups
  BY BudgetsAre DEF LookupsInv, LookupTypes
<1>2. client'[o] = client[o] /\ Paid!Scope(o)' = t
  BY OneClient DEF LookupsInv
<1>3. e \in 1..LastDay /\ client[o].version \in Nat
  BY <1>1 DEF Lookups
<1>4. version[t][e] \in Nat
  <2>1. version \in [DOMAIN Limit -> [1..LastDay -> Nat]]
    BY DEF LookupsInv, LookupTypes, Counts
  <2>2. version[t] \in [1..LastDay -> Nat]
    BY <1>1, <2>1
  <2> QED BY <1>3, <2>2
<1>5. CASE UNCHANGED <<used, version>>
  BY <1>1, <1>2, <1>5 DEF CountReadOf, Paid!Unchanged
<1>6. CASE /\ version' = [version EXCEPT ![s][d] = @ + 1]
           /\ used' = [used EXCEPT ![s][d] = n]
  <2>1. version \in Counts /\ used \in Counts
    BY DEF LookupsInv, LookupTypes
  <2>2. CASE t = s /\ e = d
    <3>1. version'[t][e] = version[t][e] + 1
      BY <1>1, <1>3, <1>6, <2>1, <2>2 DEF Counts
    <3> QED BY <1>1, <1>2, <1>3, <1>4, <3>1 DEF CountReadOf, Paid!Unchanged
  <2>3. CASE ~(t = s /\ e = d)
    <3>1. version'[t][e] = version[t][e] /\ used'[t][e] = used[t][e]
      BY <1>1, <1>3, <1>6, <2>1, <2>3 DEF Counts
    <3> QED BY <1>1, <1>2, <3>1 DEF CountReadOf, Paid!Unchanged
  <2> QED BY <2>2, <2>3
<1> QED BY <1>5, <1>6

\* A step of one client that takes no count and sends nothing.
LEMMA LookupQuiet ==
  ASSUME LookupsInv, NEW c \in Clients, NEW new \in Lookups,
         client' = [client EXCEPT ![c] = new], new.at # "send",
         UNCHANGED <<today, used, version, sent>>,
         BudgetOf(c)', CountReadOf(c)', AnswersOf(c)'
  PROVE  LookupsInv'
<1>1. LookupTypes'
  BY OneClient DEF LookupsInv, LookupTypes
<1>2. ASSUME NEW o \in Clients PROVE (BudgetOf(o) /\ CountReadOf(o) /\ AnswersOf(o))'
  <2>1. CASE o = c
    BY <2>1
  <2>2. CASE o # c
    <3>1. BudgetOf(o)' /\ AnswersOf(o)'
      BY <2>2, OneClient DEF LookupsInv
    <3>2. "serp" \in DOMAIN Limit /\ 1 \in 1..LastDay /\ 1 \in Nat
      BY LookupsAssumption
    <3>3. CountReadOf(o)'
      BY <2>2, <3>2, OthersRead
    <3> QED BY <3>1, <3>3
  <2> QED BY <2>1, <2>2
<1>3. CountsSuffice'
  <2> SUFFICES ASSUME NEW s \in DOMAIN Limit, NEW d \in 1..LastDay
               PROVE (sent[s][d] + Cardinality(Counted(s, d)) <= used[s][d] /\ used[s][d] <= Limit[s])'
    BY DEF CountsSuffice
  <2>1. sent[s][d] + Cardinality(Counted(s, d)) <= used[s][d] /\ used[s][d] <= Limit[s]
    BY DEF LookupsInv, CountsSuffice
  <2>2. /\ Cardinality(Counted(s, d)') \in Nat /\ Cardinality(Counted(s, d)) \in Nat
        /\ Cardinality(Counted(s, d)') <= Cardinality(Counted(s, d))
    <3>1. Cardinality(Counted(s, d)) \in Nat
      BY CountedIsFinite
    <3>2. LookupTypes
      BY DEF LookupsInv
    <3>3. /\ Cardinality(Counted(s, d)') \in Nat
          /\ Cardinality(Counted(s, d)') =
               IF c \in Counted(s, d) THEN Cardinality(Counted(s, d)) - 1
               ELSE Cardinality(Counted(s, d))
      BY <3>2, CountedWithout
    <3> QED BY <3>1, <3>3
  <2>3. sent[s][d] \in Nat /\ used[s][d] \in Nat
    BY DEF LookupsInv, LookupTypes, Counts
  <2> QED BY <2>1, <2>2, <2>3
<1> QED BY <1>1, <1>2, <1>3 DEF LookupsInv

LEMMA LookupBegins ==
  ASSUME LookupsInv, NEW c \in Clients, Paid!Begin(c)
  PROVE  LookupsInv'
<1>1. PICK kind \in Paid!Kinds, wanted \in SUBSET Queries :
         /\ wanted # {}
         /\ LET missing == {q \in wanted : ~Paid!Fresh(kind, q)} IN
               client' = [client EXCEPT ![c] =
                  [Paid!Idle EXCEPT !.kind = kind, !.wanted = wanted, !.answered = wanted \ missing,
                               !.todo = missing, !.stale = {q \in missing : Paid!Older(kind, q)},
                               !.at = IF missing = {} THEN "done"
                                      ELSE IF kind = "volume" THEN "check" ELSE "count"]]
  BY DEF Paid!Begin
<1> DEFINE missing == {q \in wanted : ~Paid!Fresh(kind, q)}
           stale == {q \in missing : Paid!Older(kind, q)}
           place == IF missing = {} THEN "done"
                    ELSE IF kind = "volume" THEN "check" ELSE "count"
           new == [Paid!Idle EXCEPT !.kind = kind, !.wanted = wanted, !.answered = wanted \ missing,
                               !.todo = missing, !.stale = stale, !.at = place]
<1>2. client' = [client EXCEPT ![c] = new]
  BY <1>1
<1>3. missing \in SUBSET Queries /\ stale \in SUBSET Queries /\ missing \subseteq wanted
  OBVIOUS
<1> HIDE DEF missing, stale
<1>12. /\ place \in {"done", "check", "count"}
       /\ place = "done" <=> missing = {}
  OBVIOUS
<1> HIDE DEF place
<1>13. Paid!Idle \in Lookups /\ Paid!Idle.pending = {} /\ Paid!Idle.budget = 1
  BY LookupsAssumption DEF Paid!Idle, Lookups
<1>14. new \in Lookups
  BY <1>3, <1>12, <1>13 DEF Lookups, Paid!Kinds
<1>6. /\ new \in Lookups /\ new.at \in {"done", "check", "count"}
      /\ new.at = "done" => missing = {}
      /\ new.todo = missing /\ new.answered = wanted \ missing /\ new.wanted = wanted
      /\ new.pending = {} /\ new.budget = 1 /\ new.kind = kind
      /\ new.at # "done" => missing # {}
  BY <1>12, <1>13, <1>14 DEF Lookups
<1> HIDE DEF new
<1>7. client'[c] = new
  BY <1>2, <1>6, OneClient DEF LookupsInv
<1>8. CountReadOf(c)'
  BY <1>6, <1>7 DEF CountReadOf
<1>9. BudgetOf(c)'
  BY <1>6, <1>7 DEF BudgetOf, Paid!Budgets
<1>11. AnswersOf(c)'
  BY <1>3, <1>6, <1>7 DEF AnswersOf
<1>15. UNCHANGED <<today, used, version, sent>> /\ new.at # "send"
  BY <1>6 DEF Paid!Begin
<1> QED BY <1>2, <1>6, <1>8, <1>9, <1>11, <1>15, LookupQuiet

\* What is left is answered from what is old, or pending.
LEMMA Refused ==
  ASSUME LookupsInv, NEW c \in Clients, Paid!Refuse(c),
         client[c].at \in {"check", "count", "take", "send"}
  PROVE  \E new \in Lookups :
            /\ client' = [client EXCEPT ![c] = new] /\ new.at = "done"
            /\ (BudgetOf(c) /\ CountReadOf(c) /\ AnswersOf(c))'
<1> DEFINE left == client[c].todo
           new == [client[c] EXCEPT !.at = "done",
                             !.answered = @ \cup (left \cap client[c].stale),
                             !.pending = left \ client[c].stale]
<1>1. client \in [Clients -> Lookups] /\ client[c] \in Lookups /\ BudgetOf(c) /\ AnswersOf(c)
  BY DEF LookupsInv, LookupTypes
<1>2. client' = [client EXCEPT ![c] = new]
  BY <1>1 DEF Paid!Refuse
<1>3. left \subseteq Queries
  BY <1>1 DEF Lookups
<1>4. /\ client[c].answered \cup left = client[c].wanted
      /\ client[c].answered \cap left = {}
  BY <1>1 DEF AnswersOf
<1> HIDE DEF left
<1>5. /\ new \in Lookups /\ new.at = "done" /\ new.wanted = client[c].wanted
      /\ new.answered = client[c].answered \cup (left \cap client[c].stale)
      /\ new.pending = left \ client[c].stale
      /\ new.kind = client[c].kind /\ new.budget = client[c].budget
  BY <1>1, <1>3 DEF Lookups
<1> HIDE DEF new
<1>6. client'[c] = new
  BY <1>1, <1>2
<1>7. BudgetOf(c)'
  BY <1>1, <1>5, <1>6 DEF BudgetOf, Paid!Budgets
<1>8. CountReadOf(c)' /\ AnswersOf(c)'
  BY <1>4, <1>5, <1>6 DEF CountReadOf, AnswersOf
<1> QED BY <1>2, <1>5, <1>7, <1>8

\* A step that leaves what is asked, and only moves on.
SameLookup(new, old) ==
    /\ new.kind = old.kind /\ new.todo = old.todo /\ new.wanted = old.wanted
    /\ new.answered = old.answered /\ new.pending = old.pending

LEMMA LookupMoves ==
  ASSUME LookupsInv, NEW c \in Clients, NEW new \in Lookups,
         client' = [client EXCEPT ![c] = new], SameLookup(new, client[c]),
         client[c].at \in {"check", "count", "take", "send"}, new.at \notin {"idle", "done"},
         new.budget \in DOMAIN Paid!Budgets(c)
  PROVE  /\ client'[c] = new /\ Paid!Budgets(c)' = Paid!Budgets(c)
         /\ (BudgetOf(c) /\ AnswersOf(c))'
<1>1. client \in [Clients -> Lookups] /\ client[c] \in Lookups /\ AnswersOf(c)
  BY DEF LookupsInv, LookupTypes
<1>5. client'[c] = new
  BY <1>1
<1>6. Paid!Budgets(c)' = Paid!Budgets(c)
  BY <1>5 DEF Paid!Budgets, SameLookup
<1>7. BudgetOf(c)'
  BY <1>5, <1>6 DEF BudgetOf
<1>8. AnswersOf(c)'
  BY <1>1, <1>5 DEF AnswersOf, SameLookup
<1> QED BY <1>5, <1>6, <1>7, <1>8

LEMMA LookupChecks ==
  ASSUME LookupsInv, NEW c \in Clients, Paid!Check(c)
  PROVE  LookupsInv'
<1>1. client \in [Clients -> Lookups] /\ client[c] \in Lookups /\ BudgetOf(c)
      /\ client[c].at = "check" /\ UNCHANGED <<today, used, version, sent>>
  BY DEF LookupsInv, LookupTypes, Paid!Check
<1>2. CASE Paid!Refuse(c)
  <2>1. PICK new \in Lookups :
            /\ client' = [client EXCEPT ![c] = new] /\ new.at = "done"
            /\ (BudgetOf(c) /\ CountReadOf(c) /\ AnswersOf(c))'
    BY <1>1, <1>2, Refused
  <2> QED BY <1>1, <2>1, LookupQuiet
<1>3. CASE Paid!Goto(c, "count")
  <2> DEFINE new == [client[c] EXCEPT !.at = "count"]
  <2>1. client' = [client EXCEPT ![c] = new]
    BY <1>1, <1>3 DEF Paid!Goto
  <2>2. /\ new \in Lookups /\ new.at = "count" /\ new.budget \in DOMAIN Paid!Budgets(c)
        /\ SameLookup(new, client[c])
    BY <1>1 DEF Lookups, BudgetOf, SameLookup
  <2> HIDE DEF new
  <2>3. client'[c] = new /\ (BudgetOf(c) /\ AnswersOf(c))'
    BY <1>1, <2>1, <2>2, LookupMoves
  <2>4. CountReadOf(c)'
    BY <2>2, <2>3 DEF CountReadOf
  <2> QED BY <1>1, <2>1, <2>2, <2>3, <2>4, LookupQuiet
<1> QED BY <1>2, <1>3 DEF Paid!Check

LEMMA LookupReads ==
  ASSUME LookupsInv, NEW c \in Clients, Paid!ReadCount(c)
  PROVE  LookupsInv'
<1> DEFINE day == IF client[c].tries = 0 THEN today ELSE client[c].day
<1>1. client \in [Clients -> Lookups] /\ client[c] \in Lookups /\ BudgetOf(c)
      /\ client[c].at = "count" /\ UNCHANGED <<today, used, version, sent>>
  BY DEF LookupsInv, LookupTypes, Paid!ReadCount
<1>2. CASE Paid!Refuse(c)
  <2>1. PICK new \in Lookups :
            /\ client' = [client EXCEPT ![c] = new] /\ new.at = "done"
            /\ (BudgetOf(c) /\ CountReadOf(c) /\ AnswersOf(c))'
    BY <1>1, <1>2, Refused
  <2> QED BY <1>1, <2>1, LookupQuiet
<1>3. CASE /\ ~(used[Paid!Scope(c)][day] >= Limit[Paid!Scope(c)])
           /\ client' = [client EXCEPT ![c].at = "take", ![c].day = day,
                          ![c].used = used[Paid!Scope(c)][day],
                          ![c].version = version[Paid!Scope(c)][day]]
  <2>1. day \in 1..LastDay
    BY <1>1 DEF LookupsInv, LookupTypes, Lookups
  <2>2. Paid!Scope(c) \in DOMAIN Limit /\ Limit[Paid!Scope(c)] \in Nat
    BY <1>1, BudgetsAre, LookupsAssumption DEF LookupsInv
  <2> DEFINE s == Paid!Scope(c)  n == used[s][day]  v == version[s][day]
  <2>3. used \in [DOMAIN Limit -> [1..LastDay -> Nat]]
        /\ version \in [DOMAIN Limit -> [1..LastDay -> Nat]]
    BY DEF LookupsInv, LookupTypes, Counts
  <2>4. n \in Nat /\ v \in Nat
    BY <2>1, <2>2, <2>3
  <2>5. n < Limit[s]
    BY <1>3, <2>2, <2>4
  <2> HIDE DEF day, n, v
  <2>7. client[c].tries \in Nat /\ client[c].budget \in DOMAIN Paid!Budgets(c)
    BY <1>1 DEF Lookups, BudgetOf
  <2> DEFINE new == [client[c] EXCEPT !.at = "take", !.day = day, !.used = n, !.version = v]
  <2>6. client' = [client EXCEPT ![c] = new]
    BY <1>1, <1>3 DEF n, v
  <2>11. /\ new \in Lookups /\ new.at = "take" /\ new.budget = client[c].budget
         /\ new.day = day /\ new.used = n /\ new.version = v /\ SameLookup(new, client[c])
    BY <1>1, <2>1, <2>4 DEF Lookups, SameLookup
  <2> HIDE DEF new
  <2>8. /\ client'[c] = new /\ Paid!Budgets(c)' = Paid!Budgets(c)
        /\ (BudgetOf(c) /\ AnswersOf(c))'
    BY <1>1, <2>6, <2>7, <2>11, LookupMoves
  <2>9. Paid!Scope(c)' = s
    BY <2>8, <2>11 DEF Paid!Scope
  <2>10. CountReadOf(c)'
    BY <1>1, <2>4, <2>5, <2>8, <2>9, <2>11 DEF CountReadOf, Paid!Unchanged, n, v
  <2> QED BY <1>1, <2>6, <2>8, <2>10, <2>11, LookupQuiet
<1> QED BY <1>2, <1>3 DEF Paid!ReadCount

LEMMA LookupTakes ==
  ASSUME LookupsInv, NEW c \in Clients, Paid!TakeCount(c)
  PROVE  LookupsInv'
<1> DEFINE s == Paid!Scope(c)  day == client[c].day
           again == client[c].budget < Len(Paid!Budgets(c))
           place == IF again THEN "count" ELSE "send"
           budget == IF again THEN client[c].budget + 1 ELSE client[c].budget
<1>1. /\ client \in [Clients -> Lookups] /\ client[c] \in Lookups /\ BudgetOf(c)
      /\ CountReadOf(c) /\ client[c].at = "take" /\ UNCHANGED <<today, sent>>
  BY DEF LookupsInv, LookupTypes, Paid!TakeCount
<1>2. /\ used \in [DOMAIN Limit -> [1..LastDay -> Nat]]
      /\ version \in [DOMAIN Limit -> [1..LastDay -> Nat]]
      /\ sent \in [DOMAIN Limit -> [1..LastDay -> Nat]]
  BY DEF LookupsInv, LookupTypes, Counts
<1>3. /\ s \in DOMAIN Limit /\ Limit[s] \in Nat /\ day \in 1..LastDay
      /\ client[c].budget \in DOMAIN Paid!Budgets(c)
      /\ client[c].used \in Nat /\ client[c].version \in Nat /\ client[c].tries \in Nat
  BY <1>1, BudgetsAre, LookupsAssumption DEF LookupsInv, Lookups, BudgetOf
<1>4. CASE /\ Paid!Unchanged(c)
           /\ used' = [used EXCEPT ![s][day] = client[c].used + 1]
           /\ version' = [version EXCEPT ![s][day] = @ + 1]
           /\ client' = [client EXCEPT ![c].tries = 0, ![c].budget = budget, ![c].at = place]
  <2>1. used[s][day] = client[c].used /\ client[c].used < Limit[s]
    BY <1>1, <1>4 DEF CountReadOf
  <2>2. budget \in DOMAIN Paid!Budgets(c) /\ place \in {"count", "send"}
        /\ (place = "send" => budget = client[c].budget)
    BY <1>3, BudgetsAre DEF LookupsInv
  <2>13. client[c].used + 1 \in Nat
    BY <1>3
  <2> HIDE DEF budget, place, again
  <2>12. budget \in 1..2
    BY <2>2, BudgetsAre DEF LookupsInv
  <2> DEFINE new == [client[c] EXCEPT !.tries = 0, !.budget = budget, !.at = place]
  <2>3. client' = [client EXCEPT ![c] = new]
    BY <1>1, <1>4
  <2>11. /\ new \in Lookups /\ new.at = place /\ new.budget = budget /\ new.day = day
         /\ SameLookup(new, client[c])
    BY <1>1, <2>2, <2>12 DEF Lookups, SameLookup
  <2> HIDE DEF new
  <2>14. /\ client'[c] = new /\ Paid!Budgets(c)' = Paid!Budgets(c)
         /\ (BudgetOf(c) /\ AnswersOf(c))'
    BY <1>1, <2>2, <2>3, <2>11, LookupMoves
  <2>4. /\ new \in Lookups /\ client'[c].at = place
        /\ client'[c].budget = budget /\ client'[c].day = day
        /\ Paid!Budgets(c)' = Paid!Budgets(c)
        /\ (BudgetOf(c) /\ AnswersOf(c))'
    BY <2>11, <2>14
  <2>5. LookupTypes'
    <3>1. used' \in Counts /\ version' \in Counts
      <4>1. client[c].used + 1 \in Nat
        BY <1>3
      <4>2. used' \in [DOMAIN Limit -> [1..LastDay -> Nat]]
        BY <1>2, <1>3, <1>4, <4>1
      <4>3. version' \in Counts
        <5>1. version \in Counts
          BY <1>2 DEF Counts
        <5>2. version[s][day] + 1 \in Nat
          BY <1>3, <5>1, CountOf
        <5>3. version' = [version EXCEPT ![s][day] = version[s][day] + 1]
          BY <1>4
        <5> QED BY <1>3, <5>1, <5>2, <5>3, CountSet
      <4> QED BY <4>2, <4>3 DEF Counts
    <3> QED BY <1>1, <2>3, <2>4, <3>1, OneClient DEF LookupsInv, LookupTypes
  <2>6. CountReadOf(c)'
    BY <2>2, <2>4 DEF CountReadOf
  <2>7. ASSUME NEW o \in Clients PROVE (BudgetOf(o) /\ CountReadOf(o) /\ AnswersOf(o))'
    <3>1. CASE o = c
      BY <3>1, <2>4, <2>6
    <3>2. CASE o # c
      <4>1. BudgetOf(o)' /\ AnswersOf(o)'
        BY <3>2, <2>3, <2>4, OneClient DEF LookupsInv
      <4>2. CountReadOf(o)'
        BY <3>2, <1>3, <1>4, <2>3, <2>4, <2>13, OthersRead
      <4> QED BY <4>1, <4>2
    <3> QED BY <3>1, <3>2
  <2>8. CountsSuffice'
    <3> SUFFICES ASSUME NEW t \in DOMAIN Limit, NEW d \in 1..LastDay
                 PROVE (sent[t][d] + Cardinality(Counted(t, d)) <= used[t][d] /\ used[t][d] <= Limit[t])'
      BY DEF CountsSuffice
    <3>1. sent[t][d] + Cardinality(Counted(t, d)) <= used[t][d] /\ used[t][d] <= Limit[t]
      BY DEF LookupsInv, CountsSuffice
    <3>2. Cardinality(Counted(t, d)) \in Nat /\ IsFiniteSet(Counted(t, d))
      BY CountedIsFinite
    <3>3. sent[t][d] \in Nat /\ used[t][d] \in Nat /\ Limit[t] \in Nat
      BY <1>2, LookupsAssumption
    <3>4. Counted(t, d)' \subseteq Counted(t, d) \cup {c}
          /\ (c \in Counted(t, d)' => t = s /\ d = day)
      <4>1. \A o \in Clients \ {c} : o \in Counted(t, d)' <=> o \in Counted(t, d)
        BY <2>3, <2>4, OneClient DEF Counted, LookupsInv
      <4>2. c \in Counted(t, d)' => t = s /\ d = day
        <5>1. ASSUME place = "send" PROVE Paid!Scope(c)' = s
          BY <2>2, <2>4, <5>1 DEF Paid!Scope
        <5> QED BY <2>4, <5>1 DEF Counted
      <4>3. Counted(t, d)' \subseteq Clients
        BY DEF Counted
      <4> QED BY <4>1, <4>2, <4>3
    <3>5. CASE t = s /\ d = day
      <4>1. used'[t][d] = used[t][d] + 1
        BY <1>2, <1>3, <1>4, <2>1, <3>5
      <4>2. Cardinality(Counted(t, d)') \in Nat
            /\ Cardinality(Counted(t, d)') <= Cardinality(Counted(t, d)) + 1
        <5>1. IsFiniteSet(Counted(t, d) \cup {c})
              /\ Cardinality(Counted(t, d) \cup {c}) \in Nat
              /\ Cardinality(Counted(t, d) \cup {c}) <= Cardinality(Counted(t, d)) + 1
          <6>1. /\ IsFiniteSet(Counted(t, d) \cup {c})
                /\ Cardinality(Counted(t, d) \cup {c}) =
                     IF c \in Counted(t, d) THEN Cardinality(Counted(t, d))
                     ELSE Cardinality(Counted(t, d)) + 1
            BY <3>2, FS_AddElement
          <6> QED BY <3>2, <6>1
        <5>2. Counted(t, d)' \in SUBSET (Counted(t, d) \cup {c})
          BY <3>4
        <5>3. IsFiniteSet(Counted(t, d)') /\ Cardinality(Counted(t, d)') <= Cardinality(Counted(t, d) \cup {c})
          BY <5>1, <5>2, FS_Subset
        <5>4. Cardinality(Counted(t, d)') \in Nat
          BY <5>3, FS_CardinalityType
        <5> QED BY <3>2, <5>1, <5>3, <5>4
      <4>3. sent'[t][d] = sent[t][d] /\ used[t][d] < Limit[t]
        BY <1>1, <2>1, <3>5
      <4> QED BY <3>1, <3>2, <3>3, <4>1, <4>2, <4>3
    <3>6. CASE ~(t = s /\ d = day)
      <4>1. used'[t][d] = used[t][d] /\ sent'[t][d] = sent[t][d]
        BY <1>1, <1>2, <1>3, <1>4, <3>6
      <4>2. Counted(t, d)' \in SUBSET Counted(t, d)
        BY <3>4, <3>6
      <4>3. Cardinality(Counted(t, d)') \in Nat /\ Cardinality(Counted(t, d)') <= Cardinality(Counted(t, d))
        BY <3>2, <4>2, FS_Subset, FS_CardinalityType
      <4> QED BY <3>1, <3>2, <3>3, <4>1, <4>3
    <3> QED BY <3>5, <3>6
  <2> QED BY <2>5, <2>7, <2>8 DEF LookupsInv
<1>5. CASE UNCHANGED <<used, version>> /\ Paid!Refuse(c)
  <2>1. PICK new \in Lookups :
            /\ client' = [client EXCEPT ![c] = new] /\ new.at = "done"
            /\ (BudgetOf(c) /\ CountReadOf(c) /\ AnswersOf(c))'
    BY <1>1, <1>5, Refused
  <2> QED BY <1>1, <1>5, <2>1, LookupQuiet
<1>6. CASE UNCHANGED <<used, version>>
           /\ client' = [client EXCEPT ![c].at = "count", ![c].tries = @ + 1]
  <2> DEFINE new == [client[c] EXCEPT !.at = "count", !.tries = @ + 1]
  <2>1. client' = [client EXCEPT ![c] = new]
    BY <1>1, <1>6
  <2>5. client[c].tries + 1 \in Nat
    BY <1>3
  <2>2. /\ new \in Lookups /\ new.at = "count" /\ new.budget = client[c].budget
        /\ SameLookup(new, client[c])
    BY <1>1, <2>5 DEF Lookups, SameLookup
  <2> HIDE DEF new
  <2>3. client'[c] = new /\ (BudgetOf(c) /\ AnswersOf(c))'
    BY <1>1, <1>3, <2>1, <2>2, LookupMoves
  <2>4. CountReadOf(c)'
    BY <2>2, <2>3 DEF CountReadOf
  <2> QED BY <1>1, <1>6, <2>1, <2>2, <2>3, <2>4, LookupQuiet
<1> QED BY <1>4, <1>5, <1>6 DEF Paid!TakeCount

\* A request that was counted is sent, or the provider says the day is spent.
LEMMA LookupSends ==
  ASSUME LookupsInv, NEW c \in Clients, client[c].at = "send", Paid!Sent(c), today' = today,
         NEW new \in Lookups, client' = [client EXCEPT ![c] = new], new.at \notin {"send", "take"},
         \/ UNCHANGED <<used, version>>
         \/ /\ used' = [used EXCEPT ![Paid!Scope(c)][today] = Limit[Paid!Scope(c)]]
            /\ version' = [version EXCEPT ![Paid!Scope(c)][today] = @ + 1],
         (BudgetOf(c) /\ AnswersOf(c))'
  PROVE  LookupsInv'
<1> DEFINE s == Paid!Scope(c)  day == client[c].day
<1>1. /\ client \in [Clients -> Lookups] /\ client[c] \in Lookups /\ BudgetOf(c) /\ LookupTypes
  BY DEF LookupsInv, LookupTypes
<1>2. /\ used \in [DOMAIN Limit -> [1..LastDay -> Nat]]
      /\ version \in [DOMAIN Limit -> [1..LastDay -> Nat]]
      /\ sent \in [DOMAIN Limit -> [1..LastDay -> Nat]]
      /\ today \in 1..LastDay
  BY DEF LookupsInv, LookupTypes, Counts
<1>3. s \in DOMAIN Limit /\ Limit[s] \in Nat /\ day \in 1..LastDay
  BY <1>1, BudgetsAre, LookupsAssumption DEF LookupsInv, Lookups
<1> HIDE DEF day, s
<1>4. sent' = [sent EXCEPT ![s][day] = sent[s][day] + 1]
  BY <1>2, <1>3 DEF Paid!Sent, s, day
<1>5. /\ sent' \in Counts
      /\ \A t \in DOMAIN Limit, d \in 1..LastDay :
            sent'[t][d] = IF t = s /\ d = day THEN sent[t][d] + 1 ELSE sent[t][d]
  <2>1. sent \in Counts
    BY <1>2 DEF Counts
  <2>2. sent[s][day] + 1 \in Nat
    BY <1>3, <2>1, CountOf
  <2>3. sent' \in Counts
    BY <1>3, <1>4, <2>1, <2>2, CountSet
  <2>4. ASSUME NEW t \in DOMAIN Limit, NEW d \in 1..LastDay
        PROVE  sent'[t][d] = IF t = s /\ d = day THEN sent[t][d] + 1 ELSE sent[t][d]
    BY <1>3, <1>4, <2>1 DEF Counts
  <2> QED BY <2>3, <2>4
<1>6. /\ used' \in Counts /\ version' \in Counts
      /\ \A t \in DOMAIN Limit, d \in 1..LastDay :
            \/ used'[t][d] = used[t][d]
            \/ used'[t][d] = Limit[t]
  <2>3. used \in Counts /\ version \in Counts
    BY <1>2 DEF Counts
  <2>1. CASE UNCHANGED <<used, version>>
    BY <2>1, <2>3
  <2>2. CASE /\ used' = [used EXCEPT ![s][today] = Limit[s]]
             /\ version' = [version EXCEPT ![s][today] = @ + 1]
    <3>1. version[s][today] + 1 \in Nat
      BY <1>2, <1>3, <2>3, CountOf
    <3>2. version' = [version EXCEPT ![s][today] = version[s][today] + 1]
      BY <2>2
    <3>3. version' \in Counts
      BY <1>2, <1>3, <2>3, <3>1, <3>2, CountSet
    <3>4. used' \in Counts
      BY <1>2, <1>3, <2>2, <2>3, CountSet
    <3>5. ASSUME NEW t \in DOMAIN Limit, NEW d \in 1..LastDay
          PROVE  used'[t][d] = IF t = s /\ d = today THEN Limit[s] ELSE used[t][d]
      BY <1>2, <1>3, <2>2, <2>3 DEF Counts
    <3>6. ASSUME NEW t \in DOMAIN Limit, NEW d \in 1..LastDay
          PROVE  used'[t][d] = used[t][d] \/ used'[t][d] = Limit[t]
      BY <3>5
    <3> QED BY <3>3, <3>4, <3>6
  <2> QED BY <2>1, <2>2 DEF s
<1>7. LookupTypes'
  BY <1>1, <1>2, <1>5, <1>6, OneClient DEF LookupTypes
<1>8. ASSUME NEW o \in Clients PROVE (BudgetOf(o) /\ CountReadOf(o) /\ AnswersOf(o))'
  <2>1. CASE o = c
    <3>1. client'[c] = new
      BY <1>1
    <3> QED BY <2>1, <3>1 DEF CountReadOf
  <2>2. CASE o # c
    <3>1. o \in Clients \ {c}
      BY <2>2
    <3>2. BudgetOf(o) /\ AnswersOf(o)
      BY DEF LookupsInv
    <3>3. BudgetOf(o)' /\ AnswersOf(o)'
      BY <1>1, <3>1, <3>2, OneClient
    <3>4. CountReadOf(o)'
      BY <1>2, <1>3, <3>1, OthersRead DEF s
    <3> QED BY <3>3, <3>4
  <2> QED BY <2>1, <2>2
<1>9. CountsSuffice'
  <2> SUFFICES ASSUME NEW t \in DOMAIN Limit, NEW d \in 1..LastDay
               PROVE (sent[t][d] + Cardinality(Counted(t, d)) <= used[t][d] /\ used[t][d] <= Limit[t])'
    BY DEF CountsSuffice
  <2>1. sent[t][d] + Cardinality(Counted(t, d)) <= used[t][d] /\ used[t][d] <= Limit[t]
    BY DEF LookupsInv, CountsSuffice
  <2>2. Cardinality(Counted(t, d)) \in Nat /\ sent[t][d] \in Nat /\ used[t][d] \in Nat /\ Limit[t] \in Nat
    <3>1. Limit[t] \in Nat /\ Cardinality(Counted(t, d)) \in Nat
      BY CountedIsFinite, LookupsAssumption
    <3>2. sent \in Counts /\ used \in Counts
      BY <1>2 DEF Counts
    <3> QED BY <3>1, <3>2, CountOf
  <2>3. /\ Cardinality(Counted(t, d)') \in Nat
        /\ Cardinality(Counted(t, d)') =
             IF c \in Counted(t, d) THEN Cardinality(Counted(t, d)) - 1
             ELSE Cardinality(Counted(t, d))
    BY <1>1, CountedWithout
  <2>4. c \in Counted(t, d) <=> t = s /\ d = day
    BY DEF Counted, s, day
  <2>5. sent'[t][d] = IF t = s /\ d = day THEN sent[t][d] + 1 ELSE sent[t][d]
    BY <1>5
  <2>6. sent'[t][d] + Cardinality(Counted(t, d)') <= used[t][d]
    BY <2>1, <2>2, <2>3, <2>4, <2>5
  <2>7. used[t][d] <= used'[t][d] /\ used'[t][d] <= Limit[t] /\ used'[t][d] \in Nat
    BY <1>6, <2>1, <2>2
  <2>8. sent'[t][d] \in Nat
    BY <2>2, <2>5
  <2> QED BY <2>2, <2>3, <2>6, <2>7, <2>8
<1> QED BY <1>7, <1>8, <1>9 DEF LookupsInv

LEMMA LookupEnds ==
  ASSUME LookupsInv, NEW c \in Clients,
         Paid!Answer(c) \/ Paid!Spent(c) \/ Paid!RateLimited(c) \/ Paid!Error(c) \/ Paid!End(c)
  PROVE  LookupsInv'
<1>1. /\ client \in [Clients -> Lookups] /\ client[c] \in Lookups /\ BudgetOf(c) /\ AnswersOf(c)
  BY DEF LookupsInv, LookupTypes
<1>2. CASE Paid!Answer(c)
  <2> DEFINE q == CHOOSE word \in client[c].todo : TRUE
             rest == client[c].todo \ {q}
             told == client[c].answered \cup {q}
             place == IF client[c].todo = {q} THEN "done" ELSE "check"
             new == [client[c] EXCEPT !.answered = told, !.todo = rest, !.budget = 1, !.at = place]
  <2>1. /\ client[c].at = "send" /\ Paid!Sent(c) /\ UNCHANGED <<today, used, version>>
        /\ client' = [client EXCEPT ![c].answered = @ \cup {q}, ![c].todo = @ \ {q},
                                    ![c].budget = 1, ![c].at = place]
    BY <1>2 DEF Paid!Answer
  <2>2. /\ client[c].todo \in SUBSET Queries /\ client[c].todo # {}
        /\ client[c].answered \in SUBSET Queries /\ client[c].pending = {}
        /\ client[c].answered \cup client[c].todo = client[c].wanted
        /\ client[c].answered \cap client[c].todo = {}
    BY <1>1, <2>1 DEF AnswersOf, Lookups
  <2>3. q \in client[c].todo
    BY <2>2
  <2>4. client' = [client EXCEPT ![c] = new]
    BY <1>1, <2>1
  <2> HIDE DEF q
  <2>5. /\ place \in {"done", "check"} /\ (place = "done" <=> rest = {})
        /\ told \in SUBSET Queries /\ rest \in SUBSET Queries
        /\ told \cup rest = client[c].wanted /\ told \cap rest = {}
    BY <2>2, <2>3
  <2> HIDE DEF place, rest, told
  <2>6. 1 \in 1..2
    OBVIOUS
  <2>7. /\ new \in Lookups /\ new.at = place /\ new.todo = rest /\ new.budget = 1
        /\ new.answered = told /\ new.pending = client[c].pending
        /\ new.wanted = client[c].wanted /\ new.kind = client[c].kind
    BY <1>1, <2>5, <2>6 DEF Lookups
  <2> HIDE DEF new
  <2>8. client'[c] = new
    BY <1>1, <2>4
  <2>9. BudgetOf(c)'
    BY <2>7, <2>8 DEF BudgetOf, Paid!Budgets
  <2>10. AnswersOf(c)'
    BY <2>2, <2>5, <2>7, <2>8 DEF AnswersOf
  <2> QED BY <2>1, <2>4, <2>5, <2>7, <2>9, <2>10, LookupSends
<1>3. ASSUME Paid!Refuse(c), Paid!Sent(c), client[c].at = "send", today' = today,
             \/ UNCHANGED <<used, version>>
             \/ /\ used' = [used EXCEPT ![Paid!Scope(c)][today] = Limit[Paid!Scope(c)]]
                /\ version' = [version EXCEPT ![Paid!Scope(c)][today] = @ + 1]
      PROVE  LookupsInv'
  <2>1. PICK new \in Lookups :
            /\ client' = [client EXCEPT ![c] = new] /\ new.at = "done"
            /\ (BudgetOf(c) /\ CountReadOf(c) /\ AnswersOf(c))'
    BY <1>3, Refused
  <2> QED BY <1>3, <2>1, LookupSends
<1>4. CASE Paid!Spent(c)
  BY <1>3, <1>4 DEF Paid!Spent
<1>5. CASE Paid!RateLimited(c)
  BY <1>3, <1>5 DEF Paid!RateLimited
<1>6. CASE Paid!Error(c)
  <2> DEFINE new == [client[c] EXCEPT !.at = "failed"]
  <2>1. client' = [client EXCEPT ![c] = new] /\ client[c].at = "send" /\ Paid!Sent(c)
        /\ UNCHANGED <<today, used, version>>
    BY <1>1, <1>6 DEF Paid!Error, Paid!Goto
  <2>2. /\ new \in Lookups /\ new.at = "failed" /\ new.budget \in DOMAIN Paid!Budgets(c)
        /\ SameLookup(new, client[c])
    BY <1>1 DEF Lookups, BudgetOf, SameLookup
  <2> HIDE DEF new
  <2>3. client'[c] = new /\ (BudgetOf(c) /\ AnswersOf(c))'
    BY <1>1, <2>1, <2>2, LookupMoves
  <2> QED BY <2>1, <2>2, <2>3, LookupSends
<1>7. CASE Paid!End(c)
  <2>1. client' = [client EXCEPT ![c] = Paid!Idle] /\ UNCHANGED <<today, used, version, sent>>
    BY <1>7 DEF Paid!End
  <2>2. Paid!Idle \in Lookups /\ Paid!Idle.at = "idle" /\ Paid!Idle.budget = 1
    BY LookupsAssumption DEF Paid!Idle, Lookups
  <2>3. client'[c] = Paid!Idle
    BY <1>1, <2>1
  <2>4. BudgetOf(c)' /\ CountReadOf(c)' /\ AnswersOf(c)'
    BY <2>2, <2>3 DEF BudgetOf, CountReadOf, AnswersOf, Paid!Budgets
  <2> QED BY <2>1, <2>2, <2>4, LookupQuiet
<1> QED BY <1>2, <1>4, <1>5, <1>6, <1>7

LEMMA LookupsStep ==
  ASSUME LookupsInv, Paid!Next \/ UNCHANGED Paid!vars
  PROVE  LookupsInv'
<1>1. ASSUME UNCHANGED <<used, version, client, sent>>, today' \in 1..LastDay
      PROVE  LookupsInv'
  <2>1. \A c : Paid!Budgets(c)' = Paid!Budgets(c) /\ Paid!Scope(c)' = Paid!Scope(c)
               /\ Paid!Unchanged(c)' = Paid!Unchanged(c)
    BY <1>1 DEF Paid!Budgets, Paid!Scope, Paid!Unchanged
  <2>2. \A s, d : Counted(s, d)' = Counted(s, d)
    BY <1>1, <2>1 DEF Counted
  <2>3. CountsSuffice' /\ LookupTypes'
    BY <1>1, <2>2 DEF LookupsInv, CountsSuffice, LookupTypes
  <2>4. \A c \in Clients : (BudgetOf(c) /\ CountReadOf(c) /\ AnswersOf(c))'
    BY <1>1, <2>1 DEF LookupsInv, BudgetOf, CountReadOf, AnswersOf
  <2> QED BY <2>3, <2>4 DEF LookupsInv
<1>2. CASE UNCHANGED Paid!vars
  BY <1>1, <1>2 DEF Paid!vars, LookupsInv, LookupTypes
<1>3. CASE Paid!NextDay
  BY <1>1, <1>3, LookupsAssumption DEF Paid!NextDay, LookupsInv, LookupTypes
<1>4. ASSUME NEW c \in Clients,
             Paid!Begin(c) \/ Paid!Check(c) \/ Paid!ReadCount(c) \/ Paid!TakeCount(c)
             \/ Paid!Answer(c) \/ Paid!Spent(c) \/ Paid!RateLimited(c) \/ Paid!Error(c) \/ Paid!End(c)
      PROVE  LookupsInv'
  BY <1>4, LookupBegins, LookupChecks, LookupReads, LookupTakes, LookupEnds
<1> QED BY <1>2, <1>3, <1>4 DEF Paid!Next

LEMMA LookupsPromise == LookupsInv => Paid!TypeOK /\ Paid!BudgetHolds
<1> SUFFICES ASSUME LookupsInv PROVE Paid!TypeOK /\ Paid!BudgetHolds
  OBVIOUS
<1>1. Paid!TypeOK
  BY PaidNumbers DEF LookupsInv, LookupTypes, Lookups, Counts, Paid!TypeOK, Paid!Kinds
<1>2. ASSUME NEW s \in DOMAIN Limit, NEW d \in 1..LastDay
      PROVE  sent[s][d] <= used[s][d] /\ used[s][d] <= Limit[s]
  <2>1. sent[s][d] \in Nat /\ used[s][d] \in Nat /\ Cardinality(Counted(s, d)) \in Nat
    BY CountedIsFinite DEF LookupsInv, LookupTypes, Counts
  <2>2. sent[s][d] + Cardinality(Counted(s, d)) <= used[s][d] /\ used[s][d] <= Limit[s]
    BY DEF LookupsInv, CountsSuffice
  <2> QED BY <2>1, <2>2
<1>3. ASSUME NEW c \in Clients, client[c].at = "done"
      PROVE  /\ client[c].answered \cup client[c].pending = client[c].wanted
             /\ client[c].answered \cap client[c].pending = {}
  BY <1>3 DEF LookupsInv, AnswersOf
<1> QED BY <1>1, <1>2, <1>3, PaidNumbers DEF Paid!BudgetHolds
-----------------------------------------------------------------------------
(* The adapter of a plain WordPress site (WordPressSite). When there is a    *)
(* post at the address asked for, an only post of the slug is that one; and  *)
(* revisions are only ever added, so the newest when the change is named is  *)
(* no older than the one its write has left.                                 *)
Revision == [title : PostTexts, content : PostTexts]
FieldValue(f) == IF f = "status" THEN {"draft", "publish"} ELSE PostTexts
NewSound(new) ==
    /\ DOMAIN new \subseteq {"title", "content", "meta", "status"}
    /\ \A f \in DOMAIN new : new[f] \in FieldValue(f)

AChange == [post : Posts, there : SUBSET Posts, previous : PostTexts \cup {"draft", "publish"},
            made : Nat, revision : Nat]

AdapterTypes ==
    /\ posts \in [Posts -> Site!Post] /\ revisions \in [Posts -> Seq(Revision)]
    /\ changes \in Seq(AChange)
    /\ begun \in 0..MaxCalls /\ edits \in 0..MaxEdits /\ faults \in 0..MaxFaults

CallSound ==
    /\ call.at \in {"write", "name"} /\ call.post \in Posts /\ call.there \in SUBSET Posts
    /\ call.there # {} => call.post \in call.there
    /\ call.previous \in PostTexts \cup {"draft", "publish"}
    /\ call.at = "write" => NewSound(call.new)
    /\ call.at = "name" => call.made \in 0..Len(revisions[call.post])

ChangesSound ==
    \A n \in 1..Len(changes) :
       /\ changes[n].there # {} => changes[n].post \in changes[n].there
       /\ changes[n].revision >= changes[n].made
       /\ changes[n].revision \in 1..Len(revisions[changes[n].post])

AdapterInv ==
    /\ AdapterTypes
    /\ call = Site!Idle \/ CallSound
    /\ ChangesSound

LEMMA AdapterBounds ==
  /\ MaxCalls \in Nat /\ MaxEdits \in Nat /\ MaxFaults \in Nat
  /\ IsFiniteSet(Posts) /\ Removed \notin Addresses /\ Old \in PostTexts
  /\ Site!Idle.at = "idle"
BY AdapterAssumption, RunsAssumption DEF Site!Idle

LEMMA AdapterStart == Site!Init => AdapterInv
<1> SUFFICES ASSUME Site!Init PROVE AdapterInv
  OBVIOUS
<1>1. PICK where \in [Posts -> Addresses] :
          posts = [p \in Posts |-> [address |-> where[p], title |-> Old, content |-> Old,
                                    meta |-> Old, status |-> "draft"]]
  BY DEF Site!Init
<1>2. posts \in [Posts -> Site!Post]
  BY <1>1, AdapterBounds DEF Site!Post
<1>3. /\ revisions = [p \in Posts |-> <<>>] /\ changes = <<>> /\ call = Site!Idle
      /\ begun = 0 /\ edits = 0 /\ faults = 0
  BY DEF Site!Init
<1>4. 0 \in 0..MaxCalls /\ 0 \in 0..MaxEdits /\ 0 \in 0..MaxFaults
  BY AdapterBounds
<1>5. AdapterTypes
  BY <1>2, <1>3, <1>4, EmptySeq DEF AdapterTypes
<1> QED BY <1>3, <1>5 DEF AdapterInv, ChangesSound

LEMMA WrittenIsPost ==
  ASSUME posts \in [Posts -> Site!Post], call.post \in Posts, NewSound(call.new)
  PROVE  Site!Written \in Site!Post
<1> DEFINE old == posts[call.post]
<1>1. old \in Site!Post
  OBVIOUS
<1>2. DOMAIN old = {"address", "title", "content", "meta", "status"}
  BY <1>1 DEF Site!Post
<1>3. Site!Written = [f \in {"address", "title", "content", "meta", "status"} |->
              IF f \in DOMAIN call.new THEN call.new[f] ELSE old[f]]
  BY <1>2 DEF Site!Written
<1>4. \A f \in {"title", "content", "meta", "status"} : Site!Written[f] \in FieldValue(f)
  BY <1>1, <1>3 DEF NewSound, FieldValue, Site!Post
<1>5. Site!Written.address = old.address
  BY <1>1, <1>3 DEF NewSound, Site!Post
<1>6. Site!Written = [address |-> old.address, title |-> Site!Written.title,
          content |-> Site!Written.content, meta |-> Site!Written.meta, status |-> Site!Written.status]
  BY <1>3, <1>5
<1> QED BY <1>1, <1>4, <1>5, <1>6 DEF Site!Post, FieldValue

LEMMA ResolvesThePage ==
  ASSUME AdapterTypes, NEW address \in Addresses, NEW p \in Site!Resolved(address)
  PROVE  /\ p \in Posts /\ Site!PostsAt(address) \in SUBSET Posts
         /\ Site!PostsAt(address) # {} => p \in Site!PostsAt(address)
<1> DEFINE there == Site!PostsAt(address)
           alike == Site!PostsOfSlug(address)
<1>1. /\ there \subseteq Posts /\ alike \subseteq Posts /\ there \subseteq alike
  BY AdapterBounds DEF Site!PostsAt, Site!PostsOfSlug
<1>2. p \in there \/ (Cardinality(alike) = 1 /\ p \in alike)
  BY DEF Site!Resolved, Site!Cardinality, Cardinality
<1> HIDE DEF there, alike
<1>3. CASE Cardinality(alike) = 1 /\ p \in alike
  <2>1. IsFiniteSet(alike)
    BY <1>1, AdapterBounds, FS_Subset
  <2>2. \E x : alike = {x}
    BY <1>3, <2>1, FS_Singleton
  <2> QED BY <1>1, <1>3, <2>2 DEF there
<1> QED BY <1>1, <1>2, <1>3 DEF there

\* A post is saved: what was kept of it stays, one revision more at most.
LEMMA SavesPost ==
  ASSUME AdapterInv, NEW p \in Posts, NEW saved \in Site!Post, Site!Save(p, saved)
  PROVE  /\ posts' \in [Posts -> Site!Post] /\ revisions' \in [Posts -> Seq(Revision)]
         /\ \A q \in Posts : 1..Len(revisions[q]) \subseteq 1..Len(revisions'[q])
         /\ \A q \in Posts : Len(revisions'[q]) \in Nat
<1> DEFINE new == [title |-> saved.title, content |-> saved.content]
<1>1. posts \in [Posts -> Site!Post] /\ revisions \in [Posts -> Seq(Revision)]
  BY DEF AdapterInv, AdapterTypes
<1>2. posts' \in [Posts -> Site!Post]
  BY <1>1 DEF Site!Save
<1>3. new \in Revision
  BY DEF Revision, Site!Post
<1>4. revisions' = revisions \/ revisions' = [revisions EXCEPT ![p] = Append(@, new)]
  BY DEF Site!Save
<1> HIDE DEF new
<1>5. CASE revisions' = revisions
  BY <1>1, <1>2, <1>5
<1>6. CASE revisions' = [revisions EXCEPT ![p] = Append(@, new)]
  <2>1. revisions[p] \in Seq(Revision)
    BY <1>1
  <2>2. /\ Append(revisions[p], new) \in Seq(Revision)
        /\ Len(Append(revisions[p], new)) = Len(revisions[p]) + 1
        /\ Len(revisions[p]) \in Nat
    BY <1>3, <2>1, AppendProperties
  <2>3. /\ revisions' \in [Posts -> Seq(Revision)]
        /\ revisions'[p] = Append(revisions[p], new)
        /\ \A q \in Posts : q # p => revisions'[q] = revisions[q]
    BY <1>1, <1>6, <2>2
  <2>4. 1..Len(revisions[p]) \subseteq 1..Len(revisions'[p])
    BY <2>2, <2>3
  <2>5. \A q \in Posts : Len(revisions'[q]) \in Nat
    BY <2>3
  <2> QED BY <1>2, <2>3, <2>4, <2>5
<1> QED BY <1>4, <1>5, <1>6

\* What the answers given say rests when revisions are only added.
LEMMA ChangesRest ==
  ASSUME AdapterInv, changes' = changes,
         \A q \in Posts : 1..Len(revisions[q]) \subseteq 1..Len(revisions'[q])
  PROVE  ChangesSound'
<1>1. \A n \in 1..Len(changes) : changes[n] \in AChange
  BY DEF AdapterInv, AdapterTypes
<1> QED BY <1>1 DEF AdapterInv, ChangesSound, AChange

\* An operation begins: the page is found, or the revision a change is named by.
LEMMA AdapterBegins ==
  ASSUME AdapterInv,
         \/ \E address \in Addresses, text \in PostTexts :
              \/ Site!update_title(address, text)
              \/ Site!update_meta_description(address, text)
              \/ Site!update_content(address, text)
              \/ Site!update_internal_links(address, text)
         \/ \E address \in Addresses : Site!publish_content(address)
         \/ \E n \in DOMAIN changes : Site!rollback_change(n)
  PROVE  AdapterInv'
<1>1. /\ begun' = begun + 1 /\ begun < MaxCalls
      /\ UNCHANGED <<posts, revisions, changes, edits, faults>>
  BY DEF Site!update_title, Site!update_meta_description, Site!update_content,
     Site!update_internal_links, Site!publish_content, Site!rollback_change, Site!Look
<1>2. AdapterTypes'
  <2>1. begun' \in 0..MaxCalls
    BY <1>1, AdapterBounds DEF AdapterInv, AdapterTypes
  <2> QED BY <1>1, <2>1 DEF AdapterInv, AdapterTypes
<1>3. ChangesSound'
  BY <1>1 DEF AdapterInv, ChangesSound
<1>4. ASSUME NEW address \in Addresses, NEW field \in {"title", "meta", "content", "status"},
             NEW value \in FieldValue(field), Site!Look(field, address, value)
      PROVE  CallSound'
  <2>1. PICK p \in Site!Resolved(address) :
          call' = [at |-> "write", post |-> p, there |-> Site!PostsAt(address),
                   previous |-> posts[p][field], new |-> [f \in {field} |-> value]]
    BY <1>4 DEF Site!Look
  <2>2. /\ p \in Posts /\ Site!PostsAt(address) \in SUBSET Posts
        /\ Site!PostsAt(address) # {} => p \in Site!PostsAt(address)
    BY ResolvesThePage DEF AdapterInv
  <2>3. posts[p][field] \in PostTexts \cup {"draft", "publish"}
    BY <2>2 DEF AdapterInv, AdapterTypes, Site!Post
  <2>4. NewSound([f \in {field} |-> value])
    BY <1>4 DEF NewSound
  <2> QED BY <2>1, <2>2, <2>3, <2>4 DEF CallSound
<1>5. ASSUME NEW n \in DOMAIN changes, Site!rollback_change(n) PROVE CallSound'
  <2> DEFINE c == changes[n]
  <2>1. call' = [at |-> "write", post |-> c.post, there |-> c.there, previous |-> Old,
                 new |-> revisions[c.post][c.revision]]
    BY <1>5 DEF Site!rollback_change
  <2>2. n \in 1..Len(changes) /\ c \in AChange
    BY LenProperties DEF AdapterInv, AdapterTypes
  <2>3. /\ c.post \in Posts /\ c.there \in SUBSET Posts
        /\ c.there # {} => c.post \in c.there
        /\ c.revision \in 1..Len(revisions[c.post])
    BY <2>2 DEF AdapterInv, ChangesSound, AChange
  <2>4. revisions[c.post] \in Seq(Revision)
    BY <2>3 DEF AdapterInv, AdapterTypes
  <2> HIDE DEF c
  <2>5. revisions[c.post][c.revision] \in Revision
    BY <2>3, <2>4
  <2>6. NewSound(revisions[c.post][c.revision])
    BY <2>5 DEF NewSound, Revision, FieldValue
  <2> QED BY <2>1, <2>3, <2>6, AdapterBounds DEF CallSound
<1>6. CallSound'
  <2>1. /\ FieldValue("title") = PostTexts /\ FieldValue("meta") = PostTexts
        /\ FieldValue("content") = PostTexts /\ "publish" \in FieldValue("status")
    BY DEF FieldValue
  <2>2. CASE \E address \in Addresses, text \in PostTexts :
              \/ Site!update_title(address, text)
              \/ Site!update_meta_description(address, text)
              \/ Site!update_content(address, text)
              \/ Site!update_internal_links(address, text)
    BY <1>4, <2>1, <2>2 DEF Site!update_title, Site!update_meta_description, Site!update_content,
       Site!update_internal_links
  <2>3. CASE \E address \in Addresses : Site!publish_content(address)
    BY <1>4, <2>1, <2>3 DEF Site!publish_content
  <2> QED BY <1>5, <2>2, <2>3
<1> QED BY <1>2, <1>3, <1>6 DEF AdapterInv

\* The write is made, with its answer or without.
LEMMA AdapterWrites == ASSUME AdapterInv, Site!Write \/ Site!WriteFails PROVE AdapterInv'
<1>1. call.at = "write" /\ CallSound /\ UNCHANGED <<changes, begun, edits>>
  BY AdapterBounds DEF Site!Write, Site!WriteFails, AdapterInv
<1>2. /\ Site!Written \in Site!Post /\ call.post \in Posts
  BY <1>1, WrittenIsPost DEF CallSound, AdapterInv, AdapterTypes
<1>3. /\ posts' \in [Posts -> Site!Post] /\ revisions' \in [Posts -> Seq(Revision)]
      /\ \A q \in Posts : 1..Len(revisions[q]) \subseteq 1..Len(revisions'[q])
      /\ \A q \in Posts : Len(revisions'[q]) \in Nat
  <2>1. CASE Site!Save(call.post, Site!Written)
    BY <1>2, <2>1, SavesPost
  <2>2. CASE UNCHANGED <<posts, revisions>>
    BY <2>2 DEF AdapterInv, AdapterTypes
  <2> QED BY <2>1, <2>2 DEF Site!Write, Site!WriteFails
<1>4. faults' \in 0..MaxFaults
  BY AdapterBounds DEF AdapterInv, AdapterTypes, Site!Write, Site!WriteFails, Site!Fault
<1>5. AdapterTypes'
  BY <1>1, <1>3, <1>4 DEF AdapterInv, AdapterTypes
<1>6. ChangesSound'
  BY <1>1, <1>3, ChangesRest
<1>7. (call = Site!Idle \/ CallSound)'
  <2>1. CASE Site!Write
    <3>1. call' = [at |-> "name", post |-> call.post, there |-> call.there,
                   previous |-> call.previous, made |-> Len(revisions'[call.post])]
      BY <2>1 DEF Site!Write
    <3>2. Len(revisions'[call.post]) \in 0..Len(revisions'[call.post])
      BY <1>2, <1>3
    <3> QED BY <1>1, <3>1, <3>2 DEF CallSound
  <2>2. CASE Site!WriteFails
    BY <2>2 DEF Site!WriteFails, Site!Idle
  <2> QED BY <2>1, <2>2
<1> QED BY <1>5, <1>6, <1>7 DEF AdapterInv

\* The change is named, or stays without a name.
LEMMA AdapterNames == ASSUME AdapterInv, Site!Name \/ Site!Nameless PROVE AdapterInv'
<1>1. /\ call.at = "name" /\ CallSound /\ call' = Site!Idle
      /\ UNCHANGED <<posts, revisions, begun, edits>>
  BY AdapterBounds DEF Site!Name, Site!Nameless, AdapterInv
<1>2. call' = Site!Idle'
  BY <1>1 DEF Site!Idle
<1>3. faults' \in 0..MaxFaults
  BY AdapterBounds DEF AdapterInv, AdapterTypes, Site!Name, Site!Nameless, Site!Fault
<1>4. CASE Site!Nameless
  <2>1. changes' = changes
    BY <1>4 DEF Site!Nameless
  <2>2. AdapterTypes'
    BY <1>1, <1>3, <2>1 DEF AdapterInv, AdapterTypes
  <2>3. ChangesSound'
    BY <1>1, <2>1 DEF AdapterInv, ChangesSound
  <2> QED BY <1>2, <2>2, <2>3 DEF AdapterInv
<1>5. CASE Site!Name
  <2> DEFINE p == call.post
             new == [post |-> p, there |-> call.there, previous |-> call.previous,
                     made |-> call.made, revision |-> Len(revisions[p])]
  <2>1. changes' = Append(changes, new) /\ revisions[p] # <<>>
    BY <1>5 DEF Site!Name, Site!Answer
  <2>2. /\ p \in Posts /\ call.there \in SUBSET Posts /\ call.made \in 0..Len(revisions[p])
        /\ call.there # {} => p \in call.there
        /\ call.previous \in PostTexts \cup {"draft", "publish"}
    BY <1>1 DEF CallSound
  <2>3. revisions[p] \in Seq(Revision)
    BY <2>2 DEF AdapterInv, AdapterTypes
  <2>4. Len(revisions[p]) \in Nat /\ Len(revisions[p]) # 0
    BY <2>1, <2>3, EmptySeq, LenProperties
  <2> HIDE DEF p
  <2>5. /\ new \in AChange /\ (new.there # {} => new.post \in new.there)
        /\ new.revision >= new.made /\ new.revision \in 1..Len(revisions[new.post])
    BY <2>2, <2>4 DEF AChange
  <2> HIDE DEF new
  <2>6. changes \in Seq(AChange)
    BY DEF AdapterInv, AdapterTypes
  <2>7. /\ changes' \in Seq(AChange) /\ Len(changes) \in Nat
        /\ Len(changes') = Len(changes) + 1
        /\ \A i \in 1..Len(changes) : changes'[i] = changes[i]
        /\ changes'[Len(changes) + 1] = new
    BY <2>1, <2>5, <2>6, AppendProperties, LenProperties
  <2>8. AdapterTypes'
    BY <1>1, <1>3, <2>7 DEF AdapterInv, AdapterTypes
  <2>9. ChangesSound'
    <3> SUFFICES ASSUME NEW n \in 1..Len(changes')
                 PROVE  /\ changes'[n].there # {} => changes'[n].post \in changes'[n].there
                        /\ changes'[n].revision >= changes'[n].made
                        /\ changes'[n].revision \in 1..Len(revisions[changes'[n].post])
      BY <1>1 DEF ChangesSound
    <3>1. n \in 1..Len(changes) \/ n = Len(changes) + 1
      BY <2>7
    <3>2. CASE n \in 1..Len(changes)
      BY <2>7, <3>2 DEF AdapterInv, ChangesSound
    <3>3. CASE n = Len(changes) + 1
      BY <2>5, <2>7, <3>3
    <3> QED BY <3>1, <3>2, <3>3
  <2> QED BY <1>2, <2>8, <2>9 DEF AdapterInv
<1> QED BY <1>4, <1>5

\* Editors save a post, move it or remove it.
LEMMA AdapterEdited ==
  ASSUME AdapterInv,
         \/ \E p \in Posts, text \in PostTexts : Site!Edit(p, text)
         \/ \E p \in Posts, address \in Addresses \cup {Removed} : Site!Move(p, address)
  PROVE  AdapterInv'
<1>1. /\ edits < MaxEdits /\ edits' = edits + 1 /\ UNCHANGED <<call, changes, begun, faults>>
  BY DEF Site!Edit, Site!Move
<1>2. posts \in [Posts -> Site!Post] /\ revisions \in [Posts -> Seq(Revision)]
  BY DEF AdapterInv, AdapterTypes
<1>3. /\ posts' \in [Posts -> Site!Post] /\ revisions' \in [Posts -> Seq(Revision)]
      /\ \A q \in Posts : 1..Len(revisions[q]) \subseteq 1..Len(revisions'[q])
      /\ \A q \in Posts : Len(revisions'[q]) \in Nat
  <2>1. ASSUME NEW p \in Posts, NEW text \in PostTexts, Site!Edit(p, text)
        PROVE  /\ posts' \in [Posts -> Site!Post] /\ revisions' \in [Posts -> Seq(Revision)]
               /\ \A q \in Posts : 1..Len(revisions[q]) \subseteq 1..Len(revisions'[q])
               /\ \A q \in Posts : Len(revisions'[q]) \in Nat
    <3>1. [posts[p] EXCEPT !.title = text] \in Site!Post
      BY <1>2 DEF Site!Post
    <3>2. Site!Save(p, [posts[p] EXCEPT !.title = text])
      BY <2>1 DEF Site!Edit
    <3> QED BY <3>1, <3>2, SavesPost
  <2>2. ASSUME NEW p \in Posts, NEW address \in Addresses \cup {Removed}, Site!Move(p, address)
        PROVE  /\ posts' \in [Posts -> Site!Post] /\ revisions' = revisions
    <3>1. [posts[p] EXCEPT !.address = address] \in Site!Post
      BY <1>2 DEF Site!Post
    <3>2. posts' = [posts EXCEPT ![p] = [posts[p] EXCEPT !.address = address]]
      BY <1>2, <2>2 DEF Site!Move
    <3> QED BY <1>2, <2>2, <3>1, <3>2 DEF Site!Move
  <2> QED BY <1>2, <2>1, <2>2
<1>4. edits' \in 0..MaxEdits
  BY <1>1, AdapterBounds DEF AdapterInv, AdapterTypes
<1>5. AdapterTypes'
  BY <1>1, <1>3, <1>4 DEF AdapterInv, AdapterTypes
<1>6. ChangesSound'
  BY <1>1, <1>3, ChangesRest
<1>7. (call = Site!Idle \/ CallSound)'
  <2>1. CASE call = Site!Idle
    BY <1>1, <2>1 DEF Site!Idle
  <2>2. CASE CallSound
    <3>1. call.post \in Posts
      BY <2>2 DEF CallSound
    <3>2. Len(revisions[call.post]) \in Nat /\ Len(revisions'[call.post]) \in Nat
          /\ 1..Len(revisions[call.post]) \subseteq 1..Len(revisions'[call.post])
      BY <1>2, <1>3, <3>1
    <3>3. 0..Len(revisions[call.post]) \subseteq 0..Len(revisions'[call.post])
      BY <3>2
    <3> QED BY <1>1, <2>2, <3>3 DEF CallSound
  <2> QED BY <2>1, <2>2 DEF AdapterInv
<1> QED BY <1>5, <1>6, <1>7 DEF AdapterInv

LEMMA AdapterStep ==
  ASSUME AdapterInv, Site!Next \/ UNCHANGED Site!vars
  PROVE  AdapterInv'
<1>1. CASE UNCHANGED Site!vars
  <2>1. UNCHANGED <<posts, revisions, call, changes, begun, edits, faults>>
    BY <1>1 DEF Site!vars
  <2> QED BY <2>1 DEF AdapterInv, AdapterTypes, CallSound, ChangesSound, Site!Idle
<1> QED BY <1>1, AdapterBegins, AdapterWrites, AdapterNames, AdapterEdited DEF Site!Next

LEMMA AdapterPromise ==
  AdapterInv => Site!TypeOK /\ Site!PageAskedFor /\ Site!NamedAfterWrite
<1> SUFFICES ASSUME AdapterInv PROVE Site!TypeOK /\ Site!PageAskedFor /\ Site!NamedAfterWrite
  OBVIOUS
<1>1. DOMAIN changes = 1..Len(changes)
  BY DEF AdapterInv, AdapterTypes
<1>2. \A p \in Posts : \A n \in DOMAIN revisions[p] :
          revisions[p][n] \in [title : PostTexts, content : PostTexts]
  <2> SUFFICES ASSUME NEW p \in Posts, NEW n \in DOMAIN revisions[p]
               PROVE  revisions[p][n] \in Revision
    BY DEF Revision
  <2>1. revisions[p] \in Seq(Revision)
    BY DEF AdapterInv, AdapterTypes
  <2> QED BY <2>1, LenProperties
<1>3. call.at \in {"idle", "write", "name"}
  BY AdapterBounds DEF AdapterInv, CallSound
<1> QED BY <1>1, <1>2, <1>3
    DEF AdapterInv, AdapterTypes, ChangesSound, Site!TypeOK, Site!PageAskedFor, Site!NamedAfterWrite
-----------------------------------------------------------------------------
(* The parts together. Nothing changes which part is in focus, and a step of *)
(* the whole is a step of that part or none of it.                           *)
SiteInv ==
    /\ focus = "scan" => ScanInv
    /\ focus = "runs" => RunsInv
    /\ focus = "targets" => TargetsInv
    /\ focus = "lookups" => LookupsInv
    /\ focus = "adapter" => AdapterInv
    /\ focus = "warehouse" => WarehouseInv
    /\ focus = "reasoning" => TitleInv
    /\ focus = "detection" => DetectionInv
    /\ focus = "learning" => LearningInv
    /\ focus = "crawl" => CrawlInv

LEMMA SiteInitInv == SiteInit => SiteInv
<1> SUFFICES ASSUME SiteInit PROVE SiteInv
  OBVIOUS
<1>1. /\ focus = "scan" => Scan!Init
      /\ focus = "runs" => Run!Init
      /\ focus = "targets" => Target!Init
      /\ focus = "lookups" => Paid!Init
      /\ focus = "adapter" => Site!Init
      /\ focus = "warehouse" => Days!Init
      /\ focus = "reasoning" => Title!Init
      /\ focus = "detection" => Found!Init
      /\ focus = "learning" => Learned!Init
      /\ focus = "crawl" => Crawl!Init
  BY DEF SiteInit
<1> QED
  BY <1>1, ScanStart, RunsStart, TargetsStart, LookupsStart, AdapterStart,
     WarehouseStart, TitleStart, DetectionStart, LearningStart, CrawlStart DEF SiteInv

\* A step of the whole is one of the part in focus, and of no other.
LEMMA PartSteps ==
  ASSUME [SiteNext]_siteVars
  PROVE  /\ focus' = focus
         /\ focus = "scan" => Scan!Next \/ UNCHANGED Scan!vars
         /\ focus = "runs" => Run!Next \/ UNCHANGED Run!vars
         /\ focus = "targets" => Target!Next \/ UNCHANGED Target!vars
         /\ focus = "lookups" => Paid!Next \/ UNCHANGED Paid!vars
         /\ focus = "adapter" => Site!Next \/ UNCHANGED Site!vars
         /\ focus = "warehouse" => Days!Next \/ UNCHANGED Days!vars
         /\ focus = "reasoning" => Title!Next \/ UNCHANGED Title!vars
         /\ focus = "detection" => Found!Next \/ UNCHANGED Found!vars
         /\ focus = "learning" => Learned!Next \/ UNCHANGED Learned!vars
         /\ focus = "crawl" => Crawl!Next \/ UNCHANGED Crawl!vars
<1>1. CASE SiteNext
  BY <1>1 DEF SiteNext
<1>2. CASE UNCHANGED siteVars
  <2>1. focus' = focus /\ UNCHANGED partVars
    BY <1>2 DEF siteVars
  <2>2. UNCHANGED <<scanOnly, runsOnly, targetsOnly, warehouseOnly, lookupsOnly,
                  adapterOnly, reasoningOnly, detectionOnly, learningOnly, crawlOnly, shared>>
    BY <2>1 DEF partVars
  <2>3. UNCHANGED Scan!vars /\ UNCHANGED Run!vars
    BY <2>2 DEF scanOnly, runsOnly, shared, Scan!vars, Scan!records, Scan!history, Run!vars,
       Run!paid
  <2>4. UNCHANGED Target!vars /\ UNCHANGED Paid!vars /\ UNCHANGED Site!vars
    BY <2>2 DEF targetsOnly, lookupsOnly, adapterOnly, shared, Target!vars, Paid!vars, Site!vars
  <2>5. UNCHANGED Days!vars
    BY <2>2 DEF warehouseOnly, shared, Days!vars
  <2>6. UNCHANGED Title!vars /\ UNCHANGED Found!vars /\ UNCHANGED Learned!vars
    BY <2>2 DEF reasoningOnly, detectionOnly, learningOnly, shared, Title!vars, Title!context,
       Title!telemetry, Found!vars, Learned!vars
  <2>7. UNCHANGED Crawl!vars
    BY <2>2 DEF crawlOnly, Crawl!vars, Crawl!maps, Crawl!found, Crawl!reading
  <2> QED BY <2>1, <2>3, <2>4, <2>5, <2>6, <2>7
<1> QED BY <1>1, <1>2

LEMMA SiteNextInv ==
  ASSUME SiteInv, [SiteNext]_siteVars
  PROVE  /\ SiteInv'
         /\ focus = "runs" => Run!PaidOnceStep
         /\ focus = "targets" => Target!DecisionStep
<1>1. focus = "scan" => ScanInv'
  BY PartSteps, ScanStep DEF SiteInv
<1>2. focus = "runs" => RunsInv' /\ Run!PaidOnceStep
  BY PartSteps, RunsStep DEF SiteInv
<1>3. focus = "targets" => TargetsInv' /\ Target!DecisionStep
  BY PartSteps, TargetsStep DEF SiteInv
<1>4. focus = "lookups" => LookupsInv'
  BY PartSteps, LookupsStep DEF SiteInv
<1>5. focus = "adapter" => AdapterInv'
  BY PartSteps, AdapterStep DEF SiteInv
<1>6. focus = "warehouse" => WarehouseInv'
  BY PartSteps, WarehouseStep DEF SiteInv
<1>7. focus = "reasoning" => TitleInv'
  BY PartSteps, TitleStep DEF SiteInv
<1>8. focus = "detection" => DetectionInv'
  BY PartSteps, DetectionStep DEF SiteInv
<1>9. focus = "learning" => LearningInv'
  BY PartSteps, LearningStep DEF SiteInv
<1>10. focus = "crawl" => CrawlInv'
  BY PartSteps, CrawlStep DEF SiteInv
<1> QED BY <1>1, <1>2, <1>3, <1>4, <1>5, <1>6, <1>7, <1>8, <1>9, <1>10, PartSteps DEF SiteInv

LEMMA SiteInvAlways == SiteSpec => []SiteInv
<1>1. SiteInv /\ [SiteNext]_siteVars => SiteInv'
  BY SiteNextInv
<1> QED BY <1>1, SiteInitInv, PTL DEF SiteSpec
-----------------------------------------------------------------------------
(* Every part's variables keep their types: for any instance of the parts.   *)
THEOREM SpecTypesOK == SiteSpec => []TypesOK
<1>1. SiteInv => TypesOK
  <2> SUFFICES ASSUME SiteInv PROVE TypesOK
    OBVIOUS
  <2>1. /\ focus = "scan" => Scan!TypeOK
        /\ focus = "crawl" => Crawl!TypeOK
        /\ focus = "runs" => Run!TypeOK
        /\ focus = "targets" => Target!TypeOK
        /\ focus = "lookups" => Paid!TypeOK
    BY ScanPromise, CrawlPromise, RunsPromise, TargetsPromise, LookupsPromise DEF SiteInv
  <2>2. /\ focus = "warehouse" => Days!TypeOK
        /\ focus = "reasoning" => Title!TypeOK
        /\ focus = "detection" => Found!TypeOK
        /\ focus = "learning" => Learned!TypeOK
        /\ focus = "adapter" => Site!TypeOK
    BY WarehousePromise, TitlePromise, DetectionPromise, LearningPromise, AdapterPromise
       DEF SiteInv
  <2> QED BY <2>1, <2>2 DEF TypesOK
<1> QED BY <1>1, SiteInvAlways, PTL

(* What the customer sees of the last finished scan is untouched by a newer  *)
(* one, and a file is called applied only when this very text was agreed to  *)
(* and was served (SiteScanStore.save, build_site_file_handler): for any     *)
(* kinds of file, texts, cooldowns, attempts and stops of the worker.        *)
THEOREM SpecScanIsKept == SiteSpec => []ScanIsKept
<1>1. SiteInv => ScanIsKept
  BY ScanPromise DEF SiteInv, ScanIsKept
<1> QED BY <1>1, SiteInvAlways, PTL

(* What is proposed rests on what was found: a sitemap on what the crawl     *)
(* read, a title on Google's results and on an answer of the model that is   *)
(* accounted for, a recommendation on figures that held and that call for it *)
(* (SiteCrawler.crawl, build_site_plan; TitleWorkflow.run,                   *)
(* run_title_reasoning_orchestration; run_decision_engine, build_action):    *)
(* for any pages, sitemaps, closed pages, providers, telemetry and limits.   *)
THEOREM SpecProposalIsSound == SiteSpec => []ProposalIsSound
<1>1. SiteInv => ProposalIsSound
  BY CrawlPromise, TitlePromise, DetectionPromise DEF SiteInv, ProposalIsSound
<1> QED BY <1>1, SiteInvAlways, PTL

(* What a job has said it did is there: a completed run's proposal is in the *)
(* inbox, words that are said to be on their way have a job, and a change    *)
(* the adapter answered for was made to the page asked for and is named by a *)
(* revision no older than itself (build_seo_run_handler,                     *)
(* build_target_suggestion_handler; _resolve_post, _build_change_id): for    *)
(* any runs, faults, words, requests, posts, addresses and edits.            *)
THEOREM SpecWorkIsAnswered == SiteSpec => []WorkIsAnswered
<1>1. SiteInv => WorkIsAnswered
  BY RunsPromise, TargetsPromise, AdapterPromise DEF SiteInv, WorkIsAnswered
<1> QED BY <1>1, SiteInvAlways, PTL

(* What a customer has decided, and what was paid for, outlives the late     *)
(* answers of jobs and their redeliveries (TargetKeywordStore.update,        *)
(* existing_proposal, _queue_for_approval): for any runs, words, requests    *)
(* and faults.                                                               *)
THEOREM SpecDecisionsStand == SiteSpec => DecisionsStand
<1>1. SiteInv /\ [SiteNext]_siteVars
         => [/\ focus = "runs" => Run!PaidOnceStep
             /\ focus = "targets" => Target!DecisionStep]_partVars
  BY SiteNextInv
<1> QED BY <1>1, SiteInvAlways, PTL DEF SiteSpec, DecisionsStand

(* What the service reports of a site is what happened: a day that counts as *)
(* synced is whole and of one property; a change is measured by what Google  *)
(* told of its days unless one is replaced between the measurement's reads;  *)
(* a verdict is what those days show; and a priority moves only the way a    *)
(* tenant's own changes did (replace_day, fetch_day, record_failure, settle; *)
(* measure_action, evaluate_outcome; build_learning_context,                 *)
(* calculate_learning_adjustment): for any properties, traffic, days,        *)
(* servers, retries, faults, changes, owners, precision and samples.         *)
THEOREM SpecEvidenceIsTrue == SiteSpec => []EvidenceIsTrue
<1>1. SiteInv => EvidenceIsTrue
  BY WarehousePromise, LearningPromise DEF SiteInv, EvidenceIsTrue
<1> QED BY <1>1, SiteInvAlways, PTL

(* No daily budget is exceeded, however many lookups run at once             *)
(* (RequestBudget.consume, CachedSearchVolume.lookup, CachedSERPProvider):   *)
(* for any customers, queries, limits and number of clients.                 *)
THEOREM SpecBudgetHolds == SiteSpec => []BudgetHolds
<1>1. SiteInv => BudgetHolds
  BY LookupsPromise DEF SiteInv, BudgetHolds
<1> QED BY <1>1, SiteInvAlways, PTL
=============================================================================

---------------------------- MODULE SiteScan ----------------------------
(***************************************************************************)
(* The scans of one site (app/scan/handler, monthly, store; app/api/       *)
(* scan_routes) and the files they propose: the customer's requests, the   *)
(* monthly round and the worker read and write the same records. A save    *)
(* reads the version it replaces in the same breath: the last one wins.    *)
(***************************************************************************)
EXTENDS Naturals, FiniteSets

CONSTANTS
    Kinds,           \* "robots", "sitemap"
    Texts,           \* the files a scan may propose
    SCAN_COOLDOWN, SCAN_STALE_AFTER, RESCAN_EVERY, RETRY_FAILED_AFTER,
    MAX_DOUBLINGS,   \* the wait after a failed monthly scan doubles so often
    MaxAttempts,     \* of a job
    MaxJobs, MaxClock, MaxStops    \* bounds

VARIABLES
    clock,
    removed,         \* the site has been removed
    scan,            \* the latest attempt
    kept,            \* the record of the last finished scan: its job and its day
    file,            \* file[k]: the proposal for one file of the site
    served,          \* served[k]: what the site's public address answers
    jobs,            \* queued jobs
    created,         \* how many there have been
    caller,          \* what the customer's start_scan and the round have decided
    worker,          \* the job it runs, where it is, the copies it holds
    tab,             \* a request about a file: what it will write, over which copy
    finished, torn,  \* the last scan that finished; those whose save was cut in two
    agreed, shown,   \* texts the customer has approved, texts the site has served
    stops

records == <<scan, kept, file>>
history == <<finished, torn, agreed, shown>>
vars == <<clock, removed, records, served, jobs, created, caller, worker, tab, history, stops>>
------------------------------------------------------------------------
ScanStatus == {"none", "queued", "running", "completed", "failed"}
ScanTrigger == {"customer", "monthly"}
SiteFileStatus == {"none", "proposed", "waiting_for_customer", "applied", "rejected", "not_needed"}
NoText == "no such file"

Scan == [status : ScanStatus, job : Nat, trigger : ScanTrigger, failures : Nat,
         asked : Nat, done : Nat]
Kept == [job : Nat, at : Nat]
SiteFile == [status : SiteFileStatus, text : Texts \cup {NoText}]
Job == [id : Nat, about : Kinds \cup {"scan"}, left : Nat]

NoScan == [status |-> "none", job |-> 0, trigger |-> "customer", failures |-> 0,
           asked |-> 0, done |-> 0]
OldJob == MaxJobs + 1
NoFile == [status |-> "none", text |-> NoText]
NoJob == [id |-> 0, about |-> "scan", left |-> 0]
Idle == [job |-> NoJob, at |-> "idle", scan |-> NoScan, kind |-> "scan", file |-> NoFile]
NoTab == [write |-> "none", kind |-> "scan", file |-> NoFile]

Places == {"idle", "read", "crawl", "completed", "failed", "keep", "refresh", "merge", "look"}

Init ==
    /\ clock = 0 /\ removed = FALSE
    \* A site never scanned, or one scanned before there was a record of the last one.
    /\ \/ scan = NoScan /\ file = [k \in Kinds |-> NoFile]
       \/ /\ scan = [NoScan EXCEPT !.status = "completed", !.job = OldJob]
          /\ file \in [Kinds -> [status : {"proposed"}, text : Texts]]
    /\ finished = scan.job /\ created = 0
    /\ kept = [job |-> 0, at |-> 0]
    /\ served = [k \in Kinds |-> NoText]
    /\ jobs = {}
    /\ caller = [c \in ScanTrigger |-> FALSE]
    /\ worker = Idle /\ tab = NoTab
    /\ torn = {}
    /\ agreed = [k \in Kinds |-> {}] /\ shown = [k \in Kinds |-> {}]
    /\ stops = 0

\* SiteScanStore.completed: its own record, or the latest attempt of old.
Completed ==
    IF kept.job # 0 THEN kept
    ELSE IF scan.status = "completed" THEN [job |-> scan.job, at |-> scan.done]
    ELSE [job |-> 0, at |-> 0]

\* Faulty variant: the finished scan of a site from before is not kept.
KeptAsItIs(written) == kept

\* What save keeps before a finished scan without a record is written over.
KeptBefore(written) ==
    IF kept.job = 0 /\ scan.status = "completed" /\ scan.job # written.job
    THEN [job |-> scan.job, at |-> scan.done] ELSE kept

OnItsWay(now) == scan.status \in {"queued", "running"} /\ now - scan.asked < SCAN_STALE_AFTER
------------------------------------------------------------------------
\* check_scan_limits: a monthly scan still waiting gives way.
MayStart ==
    \/ scan.status = "none"
    \/ scan.trigger = "monthly" /\ scan.status = "queued"
    \/ ~OnItsWay(clock) /\ clock - scan.asked >= SCAN_COOLDOWN

RetryWait == RETRY_FAILED_AFTER * 2^(IF scan.failures < MAX_DOUBLINGS THEN scan.failures ELSE MAX_DOUBLINGS)

\* MonthlyRescan.due, of a site that has finished a scan.
Due ==
    /\ Completed.job # 0 /\ ~OnItsWay(clock)
    /\ IF scan.status = "failed" /\ scan.trigger = "monthly"
       THEN clock - scan.asked >= RetryWait
       ELSE clock - Completed.at >= RESCAN_EVERY

\* start_scan and run_round decide ...
Decide(c) ==
    /\ ~caller[c] /\ ~removed
    /\ IF c = "customer" THEN MayStart ELSE Due
    /\ caller' = [caller EXCEPT ![c] = TRUE]
    /\ UNCHANGED <<clock, removed, records, served, jobs, created, worker, tab, history, stops>>

\* ... and queue_scan writes the scan and its job together, whatever is there now.
QueueScan(c) ==
    LET again == c = "monthly" /\ scan.trigger = "monthly" /\ scan.status = "failed"
        written == [status |-> "queued", job |-> created + 1, trigger |-> c,
                    failures |-> IF again THEN scan.failures + 1 ELSE 0,
                    asked |-> clock, done |-> 0]
    IN
    /\ caller[c] /\ created < MaxJobs
    /\ scan' = written
    /\ kept' = KeptBefore(written)
    /\ created' = created + 1
    /\ jobs' = jobs \cup {[id |-> created + 1, about |-> "scan", left |-> MaxAttempts]}
    /\ caller' = [caller EXCEPT ![c] = FALSE]
    /\ UNCHANGED <<clock, removed, file, served, worker, tab, history, stops>>

RemoveSite ==
    /\ ~removed /\ created > 0
    /\ removed' = TRUE
    /\ UNCHANGED <<clock, records, served, jobs, created, caller, worker, tab, history, stops>>
------------------------------------------------------------------------
\* The worker takes the oldest job.
Take(j) ==
    /\ worker.at = "idle" /\ j \in jobs
    /\ \A other \in jobs : j.id <= other.id
    /\ jobs' = jobs \ {j}
    /\ worker' = [Idle EXCEPT !.job = [j EXCEPT !.left = @ - 1], !.at = "read"]
    /\ UNCHANGED <<clock, removed, records, served, created, caller, tab, history, stops>>

Done == worker' = Idle /\ UNCHANGED jobs

\* The job raised, or died with the server: again, while it has attempts left.
Again ==
    /\ jobs' = IF worker.job.left > 0 THEN jobs \cup {worker.job} ELSE jobs
    /\ worker' = Idle

\* The scan's handler finds the scan, and leaves it if it is not this job's.
FindScan ==
    /\ worker.at = "read" /\ worker.job.about = "scan"
    /\ IF scan.status \in {"none", "completed"} \/ scan.job # worker.job.id
       THEN Done /\ UNCHANGED <<scan, kept>>
       ELSE IF removed
       THEN /\ scan' = [scan EXCEPT !.status = "failed"]
            /\ kept' = KeptBefore(scan)
            /\ Done
       ELSE /\ worker' = [worker EXCEPT !.at = "crawl", !.scan = [scan EXCEPT !.status = "running"]]
            /\ scan' = worker'.scan
            /\ kept' = KeptBefore(worker'.scan)
            /\ UNCHANGED jobs
    /\ UNCHANGED <<clock, removed, file, served, created, caller, tab, history, stops>>

\* The crawl ends: finished, or failed (an error, or a monthly scan of a site that
\* did not answer). Another scan queued meanwhile takes its place.
CrawlEnds ==
    /\ worker.at = "crawl"
    /\ IF scan.job # worker.job.id
       THEN Done
       ELSE /\ \E end \in {"completed", "failed"} : worker' = [worker EXCEPT !.at = end]
            /\ UNCHANGED jobs
    /\ UNCHANGED <<clock, removed, records, served, created, caller, tab, history, stops>>

\* save writes the latest attempt first, ...
SaveCompleted ==
    LET written == [worker.scan EXCEPT !.status = "completed", !.done = clock] IN
    /\ worker.at = "completed"
    /\ scan' = written
    /\ kept' = KeptBefore(written)
    /\ finished' = written.job
    /\ worker' = [worker EXCEPT !.at = "keep", !.scan = written]
    /\ UNCHANGED <<clock, removed, file, served, jobs, created, caller, tab, torn, agreed, shown, stops>>

\* ... then the record of the last finished one.
KeepCompleted ==
    /\ worker.at = "keep"
    /\ kept' = [job |-> worker.scan.job, at |-> worker.scan.done]
    /\ worker' = [worker EXCEPT !.at = "refresh"]
    /\ UNCHANGED <<clock, removed, scan, file, served, jobs, created, caller, tab, history, stops>>

\* An error raises once the failure is saved; a site without an answer does not.
SaveFailed ==
    LET written == [worker.scan EXCEPT !.status = "failed"] IN
    /\ worker.at = "failed"
    /\ scan' = written
    /\ kept' = KeptBefore(written)
    /\ Again \/ (written.trigger = "monthly" /\ Completed.job # 0 /\ Done)
    /\ UNCHANGED <<clock, removed, file, served, created, caller, tab, history, stops>>
------------------------------------------------------------------------
\* _refresh_proposals, for each file: the standing proposal is read, ...
ReadProposal(k) ==
    /\ worker.at = "refresh"
    /\ worker' = [worker EXCEPT !.at = "merge", !.kind = k, !.file = file[k]]
    /\ UNCHANGED <<clock, removed, records, served, jobs, created, caller, tab, history, stops>>

\* What the scan makes of it: a plan it has (_merge_proposal, _refresh_sitemap_text),
\* or none needed.
Merged(k, old) ==
    LET standing == old.status \in {"proposed", "waiting_for_customer", "rejected"}
        declined == k = "sitemap" /\ old.status = "rejected"
        asked == [status : {"proposed"}, text : Texts]
    IN
    {old}
    \cup (IF ~standing THEN asked ELSE {})
    \cup (IF standing /\ k = "robots" THEN {f \in asked : f.text # old.text} ELSE {})
    \cup (IF k = "sitemap" /\ old.status \in {"proposed", "waiting_for_customer"} THEN asked ELSE {})
    \cup (IF standing THEN {[old EXCEPT !.status = "not_needed"]} ELSE {})

\* ... and written over by what the handler made of its copy.
SaveProposal ==
    /\ worker.at = "merge"
    /\ \E written \in Merged(worker.kind, worker.file) : file' = [file EXCEPT ![worker.kind] = written]
    /\ \/ Done
       \/ /\ worker' = [worker EXCEPT !.at = "refresh"]
          /\ UNCHANGED jobs
    /\ UNCHANGED <<clock, removed, scan, kept, served, created, caller, tab, history, stops>>

\* The file's handler reads the change, ...
ReadFile ==
    LET k == worker.job.about IN
    /\ worker.at = "read" /\ k # "scan"
    /\ IF file[k].status = "waiting_for_customer" /\ ~removed
       THEN /\ worker' = [worker EXCEPT !.at = "look", !.kind = k, !.file = file[k]]
            /\ UNCHANGED jobs
       ELSE Done
    /\ UNCHANGED <<clock, removed, records, served, created, caller, tab, history, stops>>

\* ... looks at the public address, and writes its copy back with what it saw.
LookAtFile ==
    LET k == worker.kind  matches == served[k] = worker.file.text IN
    /\ worker.at = "look"
    /\ file' = [file EXCEPT ![k] =
          IF matches THEN [worker.file EXCEPT !.status = "applied"] ELSE worker.file]
    /\ Done
    /\ UNCHANGED <<clock, removed, scan, kept, served, created, caller, tab, history, stops>>
------------------------------------------------------------------------
\* approve_file, reject_file and check_file read the change and look at its status ...
OpenFile(k, write) ==
    /\ tab = NoTab /\ ~removed
    /\ file[k].status \in
          CASE write = "approve" -> {"proposed", "rejected"}
            [] write = "reject"  -> {"proposed", "waiting_for_customer"}
            [] write = "check"   -> {"waiting_for_customer"}
    /\ tab' = [write |-> write, kind |-> k, file |-> file[k]]
    /\ UNCHANGED <<clock, removed, records, served, jobs, created, caller, worker, history, stops>>

\* ... and save it, a check with its job.
SaveFile ==
    LET k == tab.kind
        status == CASE tab.write = "reject" -> "rejected" [] OTHER -> "waiting_for_customer"
    IN
    /\ tab # NoTab /\ (tab.write = "check" => created < MaxJobs)
    /\ file' = [file EXCEPT ![k] = [tab.file EXCEPT !.status = status]]
    /\ agreed' = IF tab.write = "approve" THEN [agreed EXCEPT ![k] = @ \cup {tab.file.text}] ELSE agreed
    /\ IF tab.write = "check"
       THEN /\ created' = created + 1
            /\ jobs' = jobs \cup {[id |-> created + 1, about |-> k, left |-> MaxAttempts]}
       ELSE UNCHANGED <<created, jobs>>
    /\ tab' = NoTab
    /\ UNCHANGED <<clock, removed, scan, kept, served, caller, worker, finished, torn, shown, stops>>

\* On the site: the customer puts the file in place.
PutFile(k) ==
    /\ file[k].status = "waiting_for_customer" /\ served[k] # file[k].text
    /\ served' = [served EXCEPT ![k] = file[k].text]
    /\ shown' = [shown EXCEPT ![k] = @ \cup {file[k].text}]
    /\ UNCHANGED <<clock, removed, records, jobs, created, caller, worker, tab, finished, torn, agreed, stops>>
------------------------------------------------------------------------
\* The server stops; its running job starts again with the next one.
Stop ==
    /\ worker.at # "idle" /\ stops < MaxStops
    /\ stops' = stops + 1
    /\ torn' = IF worker.at = "keep" THEN torn \cup {worker.scan.job} ELSE torn
    /\ Again
    /\ caller' = [c \in ScanTrigger |-> FALSE]
    /\ tab' = NoTab
    /\ UNCHANGED <<clock, removed, records, served, created, finished, agreed, shown>>

Tick ==
    /\ clock < MaxClock
    /\ clock' = clock + 1
    /\ UNCHANGED <<removed, records, served, jobs, created, caller, worker, tab, history, stops>>

WorkerStep ==
    \/ \E j \in jobs : Take(j)
    \/ FindScan \/ CrawlEnds \/ SaveCompleted \/ KeepCompleted \/ SaveFailed
    \/ (\E k \in Kinds : ReadProposal(k)) \/ SaveProposal
    \/ ReadFile \/ LookAtFile

Next ==
    \/ WorkerStep \/ SaveFile \/ RemoveSite \/ Stop \/ Tick
    \/ \E c \in ScanTrigger : Decide(c) \/ QueueScan(c)
    \/ \E k \in Kinds :
          PutFile(k) \/ \E write \in {"approve", "reject", "check"} : OpenFile(k, write)

Spec == Init /\ [][Next]_vars
------------------------------------------------------------------------
(* Every variable keeps its type. *)
TypeOK ==
    /\ clock \in 0..MaxClock /\ removed \in BOOLEAN
    /\ scan \in Scan /\ kept \in Kept
    /\ file \in [Kinds -> SiteFile] /\ served \in [Kinds -> Texts \cup {NoText}]
    /\ jobs \subseteq Job /\ created \in 0..MaxJobs
    /\ caller \in [ScanTrigger -> BOOLEAN]
    /\ worker \in [job : Job, at : Places, scan : Scan, kind : Kinds \cup {"scan"}, file : SiteFile]
    /\ tab \in [write : {"none", "approve", "reject", "check"}, kind : Kinds \cup {"scan"}, file : SiteFile]
    /\ finished \in Nat /\ torn \subseteq Nat
    /\ agreed \in [Kinds -> SUBSET Texts] /\ shown \in [Kinds -> SUBSET Texts]
    /\ stops \in 0..MaxStops

(* What pages, files and words are built from is the last scan that          *)
(* finished, "untouched while a newer scan is queued, running, or has        *)
(* failed" (app/scan/store.py), for sites from before it had a record too;   *)
(* only a stop between the two writes of one save leaves an older one.       *)
FinishedIsKept ==
    worker.at # "keep" /\ finished \notin torn => Completed.job = finished

(* A file is called applied only when the customer approved this very text   *)
(* and the site has served it, whichever of the customer, a scan and the     *)
(* check writes the record last (build_site_file_handler, approve_file).     *)
AppliedWasAgreedAndShown ==
    \A k \in Kinds : file[k].status = "applied" => file[k].text \in agreed[k] \cap shown[k]

(* "A refused improvement stays refused" (app/scan/handler.py).              *)
RefusalStands ==
    [][\A k \in Kinds : file[k].status = "rejected" /\ worker.at \in {"merge", "look"}
          => file'[k].status # "applied"]_vars
=========================================================================

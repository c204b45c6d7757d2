----------------------------- MODULE PayrollRun -----------------------------
(***************************************************************************)
(* The payroll runs of one period: the HTTP requests that move a run       *)
(* through its statuses, the queued job that computes its payslips, and    *)
(* the finalization that takes loan repayments and advances from the       *)
(* employees and announces the run to the finance module.                  *)
(*                                                                         *)
(* A request loads the run, checks the transition and later saves the row  *)
(* it loaded.  The worker loads the run without a check, computes, and     *)
(* saves in a transaction.  The queue delivers a job again when its worker *)
(* stalls; a stalled worker may still be running.                          *)
(***************************************************************************)
EXTENDS Integers, FiniteSets, Sums

CONSTANTS
    Runs,        \* runs of the period
    OffCycle,    \* the off-cycle ones
    Employees,
    Filters,     \* the sets of employees processRun may be asked for
    Loans,       \* the loans that are ACTIVE when the period starts
    Borrower,    \* the employee of a loan
    Principal,   \* the principalAmount of a loan
    Monthly,     \* the monthlyDeduction of a loan
    Requests,    \* HTTP requests the API may serve at the same time
    Workers,     \* job handlers running at the same time
    MaxStalls,   \* maxStalledCount of the queue
    Calls,       \* the operations callers use
    Decisions,   \* the statuses a caller gives to an advance
    MaxJobs,     \* bound: how often a run is sent to the queue
    MaxFinal     \* bound: no finalization starts after so many of a run

AdvanceStatus == {"PENDING", "APPROVED", "REJECTED", "DISBURSED", "DEDUCTED", "CANCELLED"}

ASSUME PayrollAssumption ==
    /\ IsFiniteSet(Runs) /\ OffCycle \subseteq Runs
    /\ Filters \subseteq SUBSET Employees
    /\ Borrower \in [Loans -> Employees]
    /\ Principal \in [Loans -> Nat] /\ Monthly \in [Loans -> Nat]
    /\ Calls \subseteq {"process", "approve", "cancel", "pay", "finalize"}
    /\ Decisions \subseteq AdvanceStatus
    /\ MaxStalls \in Nat /\ MaxJobs \in Nat /\ MaxFinal \in Nat

RunStatus == {"DRAFT", "PROCESSING", "REVIEW", "APPROVED", "PROCESSED", "PAID",
              "CANCELLED"}

VARIABLES
    runs,        \* the status of every created run
    slips,       \* how many payslips of a run an employee has
    loans,       \* the row of every loan
    repayments,  \* how many loan_repayments rows a run has for a loan
    advances,    \* the status of the advance each employee asked for
    queue,       \* how many deliveries of a run's job wait, by stalls so far
    journal,     \* the run whose disbursement is in the ledger
    req,         \* requests in flight
    worker,      \* jobs in progress
    \* history, read by the properties only
    sent,        \* how often a run was sent to the queue
    approved,    \* runs with a saved approval
    finalized,   \* how often a run was finalized
    raced,       \* runs two requests or workers have held at the same time
    shared,      \* loans two finalizations have held at the same time
    stranded,    \* runs that lost a job
    unheard,     \* runs that lost the event of a finalization
    again,       \* runs whose job was delivered again after a stall
    withheld,    \* employees with a payslip that deducts their advance
    late,        \* employees whose advance was approved after a computation began
    byHand       \* employees whose advance a user has set to DEDUCTED

table == <<runs, slips, loans, repayments, advances, journal>>
history == <<sent, approved, finalized, raced, shared, stranded, unheard, again,
             withheld, late, byHand>>
vars == <<table, queue, req, worker, history>>

Idle == [pc |-> "idle"]
\* A loan row that has not been read or written.
NoRow == [status |-> "NONE"]
NoRows == [l \in Loans |-> NoRow]
Held(f) == {l \in Loans : f[l] # NoRow}
Job == [run : Runs, who : Filters, stalls : 0..MaxStalls, id : Nat]
LoanRow == [repaid : Nat, status : {"ACTIVE", "PAID_OFF"}]

(* The status a request asks for. *)
Target == [process |-> "PROCESSING", approve |-> "APPROVED", cancel |-> "CANCELLED",
           pay |-> "PAID", finalize |-> "PROCESSED"]

\* A request inside the transaction of finalizeRun.
Finalizing(r) == req[r].pc \in {"next", "pay"}

LoanRows == [Loans -> LoanRow \cup {NoRow}]
Saving == [pc : {"loaded", "enqueue"}, run : Runs, op : DOMAIN Target \ {"finalize"},
           who : Filters]
Ending == [pc : {"emit"}, run : Runs]
Transaction == [pc : {"next", "pay"}, run : Runs, slips : [Employees -> Nat],
                todo : [Employees -> Nat], rows : LoanRows, read : SUBSET Loans,
                wrote : LoanRows, made : [Loans -> Nat]]
Computing == [pc : {"computing", "lost"}, job : Job, withhold : SUBSET Employees]

TypeOK ==
    /\ runs \in [DOMAIN runs -> RunStatus] /\ DOMAIN runs \subseteq Runs
    /\ slips \in [Runs -> [Employees -> Nat]]
    /\ loans \in [Loans -> LoanRow]
    /\ repayments \in [Runs -> [Loans -> Nat]]
    /\ advances \in [Employees -> AdvanceStatus]
    /\ queue \subseteq Job
    /\ journal \subseteq Runs
    /\ req \in [Requests -> {Idle} \cup Saving \cup Ending \cup Transaction]
    /\ \A r \in Requests : req[r] # Idle => req[r].run \in DOMAIN runs
    /\ worker \in [Workers -> {Idle} \cup Computing]
    /\ approved \subseteq Runs /\ raced \subseteq Runs /\ stranded \subseteq Runs
    /\ unheard \subseteq Runs /\ again \subseteq Runs /\ shared \subseteq Loans
    /\ withheld \subseteq Employees /\ late \subseteq Employees /\ byHand \subseteq Employees
    /\ sent \in [Runs -> Nat] /\ finalized \in [Runs -> Nat]

Init ==
    /\ runs = [x \in {} |-> x]
    /\ slips = [x \in Runs |-> [e \in Employees |-> 0]]
    /\ loans = [l \in Loans |-> [repaid |-> 0, status |-> "ACTIVE"]]
    /\ repayments = [x \in Runs |-> [l \in Loans |-> 0]]
    /\ advances = [e \in Employees |-> "PENDING"]
    /\ queue = {} /\ journal = {}
    /\ req = [r \in Requests |-> Idle]
    /\ worker = [w \in Workers |-> Idle]
    /\ sent = [x \in Runs |-> 0] /\ finalized = [x \in Runs |-> 0]
    /\ approved = {} /\ raced = {} /\ shared = {} /\ stranded = {} /\ unheard = {}
    /\ again = {} /\ withheld = {} /\ late = {} /\ byHand = {}

----------------------------------------------------------------------------
\* A mutant of ValidNext: a processed run can be processed again.
ValidNextAgain(s) ==
    IF s = "PROCESSED" THEN {"PAID", "PROCESSED"}
    ELSE IF s = "APPROVED" THEN {"PROCESSED", "CANCELLED"} ELSE RunStatus

\* A mutant of ValidNext: the approval can be skipped.
ValidNextUnapproved(s) == IF s = "PAID" THEN {} ELSE {"PROCESSING", "PROCESSED"}

(* validateTransition *)
ValidNext(s) ==
    CASE s = "DRAFT"      -> {"PROCESSING", "CANCELLED"}
      [] s = "PROCESSING" -> {"REVIEW", "CANCELLED"}
      [] s = "REVIEW"     -> {"APPROVED", "PROCESSING", "CANCELLED"}
      [] s = "APPROVED"   -> {"PROCESSED", "CANCELLED"}
      [] s = "PROCESSED"  -> {"PAID"}
      [] OTHER            -> {}

Busy(x) == \/ \E r \in Requests : req[r] # Idle /\ req[r].run = x
           \/ \E w \in Workers : worker[w] # Idle /\ worker[w].job.run = x

Touch(x) == raced' = IF Busy(x) THEN raced \cup {x} ELSE raced

Save(x, s) == runs' = [y \in DOMAIN runs \cup {x} |-> IF y = x THEN s ELSE runs[y]]

(* createRun and createOffCycleRun: the first checks that the period has   *)
(* no run, the unique run id guards both inserts.                          *)
CreateRun(x) ==
    /\ x \notin DOMAIN runs
    /\ x \notin OffCycle => DOMAIN runs = {}
    /\ Save(x, "DRAFT")
    /\ UNCHANGED <<slips, loans, repayments, advances, journal, queue, req, worker,
                   history>>

(* processRun, approveRun, cancelRun, markAsPaid and finalizeRun load the  *)
(* run and check the transition; finalizeRun loads the payslips with it.   *)
Load(r, x, op, who) ==
    /\ req[r] = Idle
    /\ x \in DOMAIN runs
    /\ Target[op] \in ValidNext(runs[x])
    /\ op = "process" => sent[x] < MaxJobs         \* bound
    /\ op = "finalize" => finalized[x] < MaxFinal  \* bound
    /\ req' = [req EXCEPT ![r] =
                 IF op = "finalize"
                 THEN [pc |-> "next", run |-> x, slips |-> slips[x], todo |-> slips[x],
                       rows |-> NoRows, read |-> {}, wrote |-> NoRows,
                       made |-> [l \in Loans |-> 0]]
                 ELSE [pc |-> "loaded", run |-> x, op |-> op, who |-> who]]
    /\ Touch(x)
    /\ UNCHANGED <<table, queue, worker, sent, approved, finalized, shared, stranded,
                   unheard, again, withheld, late, byHand>>

(* The save of every request but finalizeRun. *)
SaveStatus(r) ==
    LET q == req[r] IN
    /\ q.pc = "loaded"
    /\ Save(q.run, Target[q.op])
    /\ req' = [req EXCEPT ![r] = IF q.op = "process" THEN [q EXCEPT !.pc = "enqueue"]
                                                     ELSE Idle]
    /\ approved' = IF q.op = "approve" THEN approved \cup {q.run} ELSE approved
    /\ sent' = IF q.op = "process" THEN [sent EXCEPT ![q.run] = @ + 1] ELSE sent
    /\ UNCHANGED <<slips, loans, repayments, advances, journal, queue, worker,
                   finalized, raced, shared, stranded, unheard, again, withheld, late, byHand>>

(* processRun adds the job after the save. *)
Enqueue(r) ==
    /\ req[r].pc = "enqueue"
    /\ queue' = queue \cup {[run |-> req[r].run, who |-> req[r].who, stalls |-> 0,
                             id |-> sent[req[r].run]]}
    /\ req' = [req EXCEPT ![r] = Idle]
    /\ UNCHANGED <<table, worker, history>>

----------------------------------------------------------------------------
(* finalizeRun, for the next payslip: find the employee's ACTIVE loans.    *)
(* The transaction sees its own writes and what others have committed.     *)
View(q, l) == IF l \in Held(q.wrote) THEN q.wrote[l] ELSE loans[l]

FinalizeRead(r, e) ==
    LET q == req[r]
        found == {l \in Loans : Borrower[l] = e /\ View(q, l).status = "ACTIVE"} IN
    /\ q.pc = "next" /\ q.todo[e] > 0
    /\ req' = [req EXCEPT ![r] =
                 [q EXCEPT !.pc = "pay", !.todo[e] = @ - 1, !.read = @ \cup found,
                           !.rows = [l \in Loans |-> IF l \in found THEN View(q, l) ELSE NoRow]]]
    /\ shared' = shared \cup {l \in found : \E p \in Requests \ {r} :
                                 Finalizing(p) /\ l \in req[p].read}
    /\ UNCHANGED <<table, queue, worker, sent, approved, finalized, raced, stranded,
                   unheard, again, withheld, late, byHand>>

\* Mutants of Repaid: the payment is not added; a loan is paid off late.
RepaidNot(l, row) == row
RepaidLate(l, row) ==
    [repaid |-> row.repaid + Monthly[l],
     status |-> IF row.repaid + Monthly[l] > Principal[l] THEN "PAID_OFF" ELSE row.status]

Repaid(l, row) ==
    [repaid |-> row.repaid + Monthly[l],
     status |-> IF row.repaid + Monthly[l] >= Principal[l] THEN "PAID_OFF" ELSE row.status]

(* One repayment row for every loan found, and the loan saved; the save    *)
(* waits for another transaction that has written the loan.                *)
FinalizePay(r) ==
    LET q == req[r] IN
    /\ q.pc = "pay"
    /\ \A p \in Requests \ {r} : Finalizing(p) => Held(q.rows) \cap Held(req[p].wrote) = {}
    /\ req' = [req EXCEPT ![r] =
                 [q EXCEPT !.pc = "next", !.rows = NoRows,
                    !.wrote = [l \in Loans |->
                                 IF l \in Held(q.rows) THEN Repaid(l, q.rows[l]) ELSE q.wrote[l]],
                    !.made = [l \in Loans |-> IF l \in Held(q.rows) THEN @[l] + 1 ELSE @[l]]]]
    /\ UNCHANGED <<table, queue, worker, history>>

\* A mutant of Deductible: whatever has been asked for.
DeductibleAny(s) == TRUE
Deductible(s) == s = "APPROVED"

(* The end of the transaction: the advances of the employees, the row of   *)
(* the run.  The run is saved with the payslips it was loaded with: a      *)
(* payslip the request has not seen would lose its NOT NULL run, so the    *)
(* database refuses.                                                       *)
FinalizeCommit(r) ==
    LET q == req[r] IN
    /\ q.pc = "next" /\ \A e \in Employees : q.todo[e] = 0
    /\ slips[q.run] = q.slips
    /\ Save(q.run, "PROCESSED")
    /\ loans' = [l \in Loans |-> View(q, l)]
    /\ repayments' = [repayments EXCEPT ![q.run] = [l \in Loans |-> @[l] + q.made[l]]]
    /\ advances' = [e \in Employees |-> IF q.slips[e] > 0 /\ Deductible(advances[e])
                                        THEN "DEDUCTED" ELSE advances[e]]
    /\ finalized' = [finalized EXCEPT ![q.run] = @ + 1]
    /\ req' = [req EXCEPT ![r] = [pc |-> "emit", run |-> q.run]]
    /\ UNCHANGED <<slips, journal, queue, worker, sent, approved, raced, shared,
                   stranded, unheard, again, withheld, late, byHand>>

\* A mutant of Entered: the finance module does not listen.
EnteredNever(x) == journal
Entered(x) == IF journal = {} THEN {x} ELSE journal

(* payroll.processed: finance inserts the entry PR-<period>, whose number  *)
(* is unique; what the listener throws is logged.                          *)
Emit(r) ==
    /\ req[r].pc = "emit"
    /\ journal' = Entered(req[r].run)
    /\ req' = [req EXCEPT ![r] = Idle]
    /\ UNCHANGED <<runs, slips, loans, repayments, advances, queue, worker, history>>

(* A request that fails: its transaction is rolled back; a job not yet     *)
(* added or an event not yet heard is lost, whatever has been saved.       *)
Fail(r) ==
    /\ req[r] # Idle
    /\ stranded' = IF req[r].pc = "enqueue" THEN stranded \cup {req[r].run} ELSE stranded
    /\ unheard' = IF req[r].pc = "emit" THEN unheard \cup {req[r].run} ELSE unheard
    /\ req' = [req EXCEPT ![r] = Idle]
    /\ UNCHANGED <<table, queue, worker, sent, approved, finalized, raced, shared,
                   again, withheld, late, byHand>>

(* The employee has a payslip, or a worker is making one.                  *)
Reckoned(e) == \/ \E x \in Runs : slips[x][e] > 0
               \/ \E w \in Workers : worker[w] # Idle /\ e \in worker[w].job.who

(* updateAdvanceStatus: any status over any other.  What it has loaded does *)
(* not matter: the save writes the requested status over whatever the row  *)
(* says by then, so the two calls are one step.                            *)
UpdateAdvance(e, s) ==
    /\ advances' = [advances EXCEPT ![e] = s]
    /\ late' = IF s = "APPROVED" /\ Reckoned(e) THEN late \cup {e} ELSE late
    /\ byHand' = IF s = "DEDUCTED" THEN byHand \cup {e} ELSE byHand \ {e}
    /\ UNCHANGED <<runs, slips, loans, repayments, journal, queue, req, worker,
                   sent, approved, finalized, raced, shared, stranded, unheard, again,
                   withheld>>

----------------------------------------------------------------------------
(* executeRunComputation reads: whatever the status of the run.            *)
Take(w, job) ==
    /\ worker[w] = Idle
    /\ job \in queue
    /\ queue' = queue \ {job}
    /\ worker' = [worker EXCEPT ![w] =
                    [pc |-> "computing", job |-> job,
                     withhold |-> {e \in job.who : advances[e] = "APPROVED"}]]
    /\ Touch(job.run)
    /\ UNCHANGED <<table, req, sent, approved, finalized, shared, stranded, unheard,
                   again, withheld, late, byHand>>

\* A mutant of Computed: the worker forgets to move the run on.
ComputedOnly(s) == s
Computed(s) == "REVIEW"

(* Its transaction: one more payslip for everybody, and the run in REVIEW. *)
Compute(w) ==
    LET job == worker[w].job IN
    /\ worker[w] # Idle
    /\ slips' = [slips EXCEPT ![job.run] =
                   [e \in Employees |-> IF e \in job.who THEN @[e] + 1 ELSE @[e]]]
    /\ Save(job.run, Computed(runs[job.run]))
    /\ withheld' = withheld \cup worker[w].withhold
    /\ worker' = [worker EXCEPT ![w] = Idle]
    /\ UNCHANGED <<loans, repayments, advances, journal, queue, req, sent, approved,
                   finalized, raced, shared, stranded, unheard, again, late, byHand>>

(* The worker does not renew its lock in time: the queue delivers the job  *)
(* to somebody else, or gives it up after MaxStalls deliveries.  The       *)
(* worker may have died or go on.                                          *)
Stall(w) ==
    LET job == worker[w].job IN
    /\ worker[w].pc = "computing"
    /\ worker' \in {[worker EXCEPT ![w] = Idle], [worker EXCEPT ![w].pc = "lost"]}
    /\ IF job.stalls < MaxStalls
       THEN /\ queue' = queue \cup {[job EXCEPT !.stalls = @ + 1]}
            /\ again' = again \cup {job.run}
            /\ UNCHANGED stranded
       ELSE /\ stranded' = stranded \cup {job.run}
            /\ UNCHANGED <<queue, again>>
    /\ UNCHANGED <<table, req, sent, approved, finalized, raced, shared, unheard, withheld,
                   late, byHand>>

(* The handler throws: the job has one attempt, and is not tried again.    *)
JobFails(w) ==
    /\ worker[w] # Idle
    /\ stranded' = stranded \cup {worker[w].job.run}
    /\ worker' = [worker EXCEPT ![w] = Idle]
    /\ UNCHANGED <<table, queue, req, sent, approved, finalized, raced, shared, unheard,
                   again, withheld, late, byHand>>

----------------------------------------------------------------------------
Server(r) == \/ SaveStatus(r) \/ Enqueue(r)
             \/ \E e \in Employees : FinalizeRead(r, e)
             \/ FinalizePay(r) \/ FinalizeCommit(r) \/ Emit(r)

Next ==
    \/ \E x \in Runs : CreateRun(x)
    \/ \E r \in Requests, x \in Runs, op \in Calls, who \in Filters : Load(r, x, op, who)
    \/ \E r \in Requests : Server(r) \/ Fail(r)
    \/ \E e \in Employees, s \in Decisions : UpdateAdvance(e, s)
    \/ \E w \in Workers :
          \/ \E job \in queue : Take(w, job)
          \/ Compute(w) \/ Stall(w) \/ JobFails(w)

Spec == Init /\ [][Next]_vars

(* A started request goes on, the queue hands out its jobs in turn and a   *)
(* worker that has one finishes it.  Users owe nothing.                    *)
FairSpec ==
    /\ Spec
    /\ \A r \in Requests : WF_vars(Server(r))
    /\ \A w \in Workers : WF_vars(Compute(w))
    /\ \A x \in Runs : SF_vars(\E w \in Workers, job \in queue : job.run = x /\ Take(w, job))

----------------------------------------------------------------------------
(* Whatever cancels, recomputes or races with a finalization: only a run   *)
(* somebody has approved takes repayments from the employees.              *)
RepaymentsWereApproved ==
    \A x \in Runs, l \in Loans : repayments[x][l] > 0 => x \in approved

(* What the repayment rows of a loan add up to.                            *)
Taken(l) == Monthly[l] * Sum([x \in Runs |-> repayments[x][l]], Runs)

(* The balance of a loan is the sum of its repayment rows, unless two      *)
(* finalizations read the loan at the same time (the balance is read,      *)
(* added to and saved back without a lock).                                *)
BalanceIsRepayments == \A l \in Loans \ shared : loans[l].repaid = Taken(l)

(* Repayments stop with the instalment that pays the loan off (the first   *)
(* one may be larger than the principal), whatever the number of payslips  *)
(* an employee has: what the rows take stays below the principal and one   *)
(* more instalment, unless two finalizations read the loan at the same     *)
(* time; the saved balance does even then.                                 *)
RepaymentStops ==
    \A l \in Loans :
        /\ loans[l].repaid > Monthly[l] => loans[l].repaid < Principal[l] + Monthly[l]
        /\ l \notin shared /\ Taken(l) > Monthly[l] => Taken(l) < Principal[l] + Monthly[l]

(* A run is finalized twice only when two requests, or a request and the   *)
(* worker, have held it at the same time, or its job was delivered again   *)
(* (a late delivery puts a PROCESSED run back into REVIEW).                *)
FinalizedTwiceNeedsRace == \A x \in Runs : finalized[x] > 1 => x \in raced \cup again

Processing(x) == x \in DOMAIN runs /\ runs[x] = "PROCESSING"

(* A run in PROCESSING moves on, unless its job was never added, gave up   *)
(* or failed: the job may be delivered twice and other requests may save   *)
(* the run in between.                                                     *)
ProcessingEnds ==
    \A x \in Runs : Processing(x) ~> (~Processing(x) \/ x \in stranded)

(* An advance is DEDUCTED only if a payslip withheld it, if it was         *)
(* approved too late for the payslips (finalizeRun deducts what is         *)
(* approved by then, not what was reviewed), or if the last decision about *)
(* it was a user's DEDUCTED.                                               *)
DeductedWasWithheld ==
    \A e \in Employees : advances[e] = "DEDUCTED" => e \in withheld \cup late \cup byHand

(* Once nothing is in flight, a finalized run has its disbursement in the  *)
(* ledger, however often it was recomputed or finalized and whatever jobs  *)
(* failed, unless its event got lost or another finalized run of the       *)
(* period has taken the entry number.                                      *)
ProcessedIsJournalled ==
    (\A r \in Requests : req[r] = Idle) =>
        \A x \in Runs : finalized[x] > 0 =>
            \/ x \in journal \cup unheard
            \/ \E y \in journal \ {x} : finalized[y] > 0
=============================================================================

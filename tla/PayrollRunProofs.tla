-------------------------- MODULE PayrollRunProofs --------------------------
(***************************************************************************)
(* Proofs about PayrollRun, for any number of runs, employees, loans,      *)
(* requests and workers.                                                   *)
(*                                                                         *)
(* Six inductive invariants. Approval follows the saved approval of a run  *)
(* through the statuses that need it and through the requests that have    *)
(* read such a status: a request may still save a transition it checked    *)
(* long ago. Instalments bounds every version of a loan row, the ones a    *)
(* transaction has read or written included: a stale version is bounded    *)
(* like the current one, so saving it cannot break the bound. Turns says   *)
(* that a run nobody raced for is held by one request or worker at a time, *)
(* Announced where the event of a finalized run is, WithheldInTime who     *)
(* withholds an advance that was approved in time, and Keeping that a loan *)
(* no two transactions shared has been repaid the sum of its instalments   *)
(* over the runs.                                                          *)
(***************************************************************************)
EXTENDS PayrollRun, SumsProofs

(* The row of a loan is ACTIVE only below its principal.                   *)
Bounded(l, row) ==
    /\ row.status = "ACTIVE" => row.repaid = 0 \/ row.repaid < Principal[l]
    /\ row.repaid > Monthly[l] => row.repaid < Principal[l] + Monthly[l]

Approval ==
    /\ \A x \in DOMAIN runs : runs[x] \in {"APPROVED", "PROCESSED", "PAID"} => x \in approved
    /\ \A r \in Requests : Finalizing(r) => req[r].run \in approved
    /\ \A r \in Requests : req[r].pc = "loaded" /\ req[r].op = "pay" => req[r].run \in approved
    /\ RepaymentsWereApproved

Instalments ==
    /\ \A l \in Loans : Bounded(l, loans[l])
    /\ \A r \in Requests : Finalizing(r) =>
          /\ \A l \in Held(req[r].rows) :
                Bounded(l, req[r].rows[l]) /\ req[r].rows[l].status = "ACTIVE"
          /\ \A l \in Held(req[r].wrote) : Bounded(l, req[r].wrote[l])

----------------------------------------------------------------------------
(* The statuses a transition leads to are statuses of the enum.            *)
LEMMA NextStatus ==
    ASSUME NEW s, NEW t \in ValidNext(s)
    PROVE  /\ t \in RunStatus
           /\ t = "PAID" => s = "PROCESSED"
           /\ t = "PROCESSED" => s = "APPROVED"
  BY DEF ValidNext, RunStatus

(* What a save leaves in the table of the runs.                            *)
LEMMA SaveRuns ==
    ASSUME NEW x \in Runs, NEW s \in RunStatus, Save(x, s),
           runs \in [DOMAIN runs -> RunStatus], DOMAIN runs \subseteq Runs
    PROVE  /\ DOMAIN runs' = DOMAIN runs \cup {x}
           /\ DOMAIN runs' \subseteq Runs
           /\ runs' \in [DOMAIN runs' -> RunStatus]
           /\ runs'[x] = s
           /\ \A y \in DOMAIN runs : y # x => runs'[y] = runs[y]
  BY DEF Save

LEMMA NoRowsOK == NoRows \in LoanRows /\ Held(NoRows) = {}
  BY DEF NoRows, LoanRows, Held

(* The rows of LoanRows that are there have the type of a row.             *)
LEMMA RowsHave ==
    ASSUME NEW f \in LoanRows
    PROVE  Held(f) \subseteq Loans /\ \A l \in Held(f) : f[l] \in LoanRow
  BY DEF LoanRows, Held

(* Repaying keeps a loan row well formed and bounded.                      *)
LEMMA RepaidRow ==
    ASSUME NEW l \in Loans, NEW row \in LoanRow
    PROVE  /\ Repaid(l, row) \in LoanRow
           /\ row.status = "ACTIVE" /\ Bounded(l, row) => Bounded(l, Repaid(l, row))
  BY PayrollAssumption DEF Repaid, LoanRow, Bounded

(* What a transaction sees of a loan has the type of a row.                *)
LEMMA ViewRow ==
    ASSUME NEW q \in Transaction, NEW l \in Loans, loans \in [Loans -> LoanRow]
    PROVE  View(q, l) \in LoanRow
  <1>1. q.wrote \in LoanRows BY DEF Transaction
  <1> QED BY <1>1, RowsHave DEF View

(* The transaction of finalizeRun after it has read the loans of employee e. *)
AfterRead(q, e, found, rows) ==
    [q EXCEPT !.pc = "pay", !.todo[e] = @ - 1, !.read = @ \cup found, !.rows = rows]

LEMMA ReadRequest ==
    ASSUME NEW q \in Transaction, NEW e \in Employees, q.todo[e] > 0,
           NEW found \in SUBSET Loans, NEW rows \in LoanRows
    PROVE  /\ AfterRead(q, e, found, rows) \in Transaction
           /\ AfterRead(q, e, found, rows).run = q.run
           /\ AfterRead(q, e, found, rows).pc = "pay"
  <1>1. [q.todo EXCEPT ![e] = @ - 1] \in [Employees -> Nat] BY DEF Transaction
  <1> QED BY <1>1 DEF Transaction, AfterRead

(* And after it has written them.                                          *)
AfterPay(q, wrote, made) ==
    [q EXCEPT !.pc = "next", !.rows = NoRows, !.wrote = wrote, !.made = made]

LEMMA PaidRequest ==
    ASSUME NEW q \in Transaction, NEW wrote \in LoanRows, NEW made \in [Loans -> Nat]
    PROVE  /\ AfterPay(q, wrote, made) \in Transaction
           /\ AfterPay(q, wrote, made).run = q.run
           /\ AfterPay(q, wrote, made).pc = "next"
  BY NoRowsOK DEF Transaction, AfterPay

LEMMA ReplacedReq ==
    ASSUME TypeOK, NEW r \in Requests, NEW q \in Transaction, q.run \in DOMAIN runs,
           req' = [req EXCEPT ![r] = q]
    PROVE  /\ req' \in [Requests -> {Idle} \cup Saving \cup Ending \cup Transaction]
           /\ \A p \in Requests : req'[p] # Idle => req'[p].run \in DOMAIN runs
  BY DEF TypeOK

(* A request inside finalizeRun is in its transaction.                     *)
LEMMA FinalizingReq ==
    ASSUME TypeOK, NEW r \in Requests, Finalizing(r)
    PROVE  req[r] \in Transaction /\ req[r].run \in DOMAIN runs /\ req[r].run \in Runs
  <1>1. req[r] \in {Idle} \cup Saving \cup Ending \cup Transaction BY DEF TypeOK
  <1>2. req[r].pc \in {"next", "pay"} BY DEF Finalizing
  <1>3. req[r] # Idle /\ req[r] \notin Saving /\ req[r] \notin Ending
        BY <1>2 DEF Idle, Saving, Ending
  <1>4. req[r] \in Transaction BY <1>1, <1>3
  <1> QED BY <1>3, <1>4 DEF TypeOK

LEMMA SavingReq ==
    ASSUME TypeOK, NEW r \in Requests, req[r].pc \in {"loaded", "enqueue"}
    PROVE  req[r] \in Saving /\ req[r].run \in DOMAIN runs /\ req[r].run \in Runs
  <1>1. req[r] \in {Idle} \cup Saving \cup Ending \cup Transaction BY DEF TypeOK
  <1>2. req[r] # Idle /\ req[r] \notin Ending /\ req[r] \notin Transaction
        BY DEF Idle, Ending, Transaction
  <1>3. req[r] \in Saving BY <1>1, <1>2
  <1> QED BY <1>2, <1>3 DEF TypeOK

----------------------------------------------------------------------------
LEMMA TypeInit == Init => TypeOK
  BY PayrollAssumption DEF Init, TypeOK, RunStatus, LoanRow, AdvanceStatus, Idle

LEMMA TypeNext == TypeOK /\ [Next]_vars => TypeOK'
  <1> SUFFICES ASSUME TypeOK, [Next]_vars PROVE TypeOK'
      OBVIOUS
  <1>1. ASSUME NEW x \in Runs, CreateRun(x) PROVE TypeOK'
    <2>1. /\ DOMAIN runs' = DOMAIN runs \cup {x} /\ DOMAIN runs' \subseteq Runs
          /\ runs' \in [DOMAIN runs' -> RunStatus]
          BY <1>1, SaveRuns DEF CreateRun, TypeOK, RunStatus
    <2> QED BY <1>1, <2>1 DEF CreateRun, TypeOK, history
  <1>2. ASSUME NEW r \in Requests, NEW x \in Runs, NEW op \in Calls, NEW who \in Filters,
               Load(r, x, op, who)
        PROVE  TypeOK'
    <2>1. Calls \subseteq DOMAIN Target BY PayrollAssumption DEF Target
    <2>2. slips[x] \in [Employees -> Nat] BY DEF TypeOK
    <2>3. NoRows \in LoanRows BY NoRowsOK
    <2>4. [pc |-> "next", run |-> x, slips |-> slips[x], todo |-> slips[x], rows |-> NoRows,
           read |-> {}, wrote |-> NoRows, made |-> [l \in Loans |-> 0]] \in Transaction
          BY <2>2, <2>3 DEF Transaction
    <2>5. op # "finalize" =>
            [pc |-> "loaded", run |-> x, op |-> op, who |-> who] \in Saving
          BY <2>1 DEF Saving
    <2>6. /\ req' \in [Requests -> {Idle} \cup Saving \cup Ending \cup Transaction]
          /\ x \in DOMAIN runs /\ req'[r].run = x
          /\ \A q \in Requests \ {r} : req'[q] = req[q]
          BY <1>2, <2>4, <2>5 DEF Load, TypeOK
    <2>7. \A q \in Requests : req'[q] # Idle => req'[q].run \in DOMAIN runs
          BY <2>6 DEF TypeOK
    <2>8. raced' \subseteq Runs BY <1>2 DEF Load, Touch, TypeOK
    <2> QED BY <1>2, <2>6, <2>7, <2>8 DEF Load, TypeOK, table
  <1>3. ASSUME NEW r \in Requests, SaveStatus(r) PROVE TypeOK'
    <2> PICK q : q = req[r] OBVIOUS
    <2>1. q \in Saving /\ q.run \in DOMAIN runs /\ q.run \in Runs
          BY <1>3, SavingReq DEF SaveStatus
    <2>2. Target[q.op] \in RunStatus BY <2>1 DEF Saving, Target, RunStatus
    <2>3. /\ DOMAIN runs' = DOMAIN runs \cup {q.run} /\ DOMAIN runs' \subseteq Runs
          /\ runs' \in [DOMAIN runs' -> RunStatus]
      <3>1. Save(q.run, Target[q.op]) BY <1>3 DEF SaveStatus
      <3>2. runs \in [DOMAIN runs -> RunStatus] /\ DOMAIN runs \subseteq Runs BY DEF TypeOK
      <3> QED BY <2>1, <2>2, <3>1, <3>2, SaveRuns
    <2>4. [q EXCEPT !.pc = "enqueue"] \in Saving /\ [q EXCEPT !.pc = "enqueue"].run = q.run
          BY <2>1 DEF Saving
    <2>5. /\ req' \in [Requests -> {Idle} \cup Saving \cup Ending \cup Transaction]
          /\ \A p \in Requests : req'[p] # Idle => req'[p].run \in DOMAIN runs'
          BY <1>3, <2>1, <2>3, <2>4 DEF SaveStatus, TypeOK
    <2>6. sent' \in [Runs -> Nat] /\ approved' \subseteq Runs
          BY <1>3, <2>1 DEF SaveStatus, TypeOK
    <2> QED BY <1>3, <2>3, <2>5, <2>6 DEF SaveStatus, TypeOK
  <1>4. ASSUME NEW r \in Requests, Enqueue(r) PROVE TypeOK'
    <2> PICK q : q = req[r] OBVIOUS
    <2>1. q \in Saving /\ q.run \in Runs BY <1>4, SavingReq DEF Enqueue
    <2>2. [run |-> q.run, who |-> q.who, stalls |-> 0, id |-> sent[q.run]] \in Job
          BY <2>1, PayrollAssumption DEF Job, Saving, TypeOK
    <2> QED BY <1>4, <2>2 DEF Enqueue, TypeOK, table, history, Idle
  <1>5. ASSUME NEW r \in Requests, NEW e \in Employees, FinalizeRead(r, e) PROVE TypeOK'
    <2> PICK q : q = req[r] OBVIOUS
    <2>1. q \in Transaction /\ q.run \in DOMAIN runs
          BY <1>5, FinalizingReq DEF FinalizeRead, Finalizing
    <2> DEFINE found == {l \in Loans : Borrower[l] = e /\ View(q, l).status = "ACTIVE"}
               rows == [l \in Loans |-> IF l \in found THEN View(q, l) ELSE NoRow]
    <2>2. found \in SUBSET Loans /\ rows \in LoanRows
      <3>1. \A l \in found : View(q, l) \in LoanRow BY <2>1, ViewRow DEF TypeOK
      <3>2. found \in SUBSET Loans OBVIOUS
      <3> HIDE DEF found
      <3> QED BY <3>1, <3>2 DEF LoanRows
    <2>3. q.todo[e] > 0 BY <1>5 DEF FinalizeRead
    <2>4. req' = [req EXCEPT ![r] = AfterRead(q, e, found, rows)]
          BY <1>5 DEF FinalizeRead, AfterRead
    <2>5. shared' \subseteq Loans BY <1>5 DEF FinalizeRead, TypeOK
    <2>6. UNCHANGED <<runs, slips, loans, repayments, advances, journal, queue, worker, sent,
                      approved, finalized, raced, stranded, unheard, again, withheld, late,
                      byHand>>
          BY <1>5 DEF FinalizeRead, table
    <2> HIDE DEF found, rows
    <2>7. /\ AfterRead(q, e, found, rows) \in Transaction
          /\ AfterRead(q, e, found, rows).run = q.run
          BY <2>1, <2>2, <2>3, ReadRequest
    <2>8. /\ req' \in [Requests -> {Idle} \cup Saving \cup Ending \cup Transaction]
          /\ \A p \in Requests : req'[p] # Idle => req'[p].run \in DOMAIN runs
          BY <2>1, <2>4, <2>7, ReplacedReq
    <2> QED BY <2>5, <2>6, <2>8 DEF TypeOK
  <1>6. ASSUME NEW r \in Requests, FinalizePay(r) PROVE TypeOK'
    <2> PICK q : q = req[r] OBVIOUS
    <2>1. q \in Transaction /\ q.run \in DOMAIN runs
          BY <1>6, FinalizingReq DEF FinalizePay, Finalizing
    <2>2. q.rows \in LoanRows /\ q.wrote \in LoanRows BY <2>1 DEF Transaction
    <2> DEFINE W == [l \in Loans |-> IF l \in Held(q.rows) THEN Repaid(l, q.rows[l]) ELSE q.wrote[l]]
               m == [l \in Loans |-> IF l \in Held(q.rows) THEN q.made[l] + 1 ELSE q.made[l]]
    <2>3. \A l \in Loans : W[l] \in LoanRow \cup {NoRow}
          BY <2>2, RowsHave, RepaidRow DEF LoanRows
    <2>4. W \in LoanRows BY <2>3 DEF LoanRows
    <2>5. m \in [Loans -> Nat] BY <2>1 DEF Transaction
    <2>6. req' = [req EXCEPT ![r] = AfterPay(q, W, m)] BY <1>6 DEF FinalizePay, AfterPay
    <2>7. UNCHANGED <<table, queue, worker, history>> BY <1>6 DEF FinalizePay
    <2> HIDE DEF W, m
    <2>8. AfterPay(q, W, m) \in Transaction /\ AfterPay(q, W, m).run = q.run
          BY <2>1, <2>4, <2>5, PaidRequest
    <2>9. /\ req' \in [Requests -> {Idle} \cup Saving \cup Ending \cup Transaction]
          /\ \A p \in Requests : req'[p] # Idle => req'[p].run \in DOMAIN runs
          BY <2>1, <2>6, <2>8, ReplacedReq
    <2> QED BY <2>7, <2>9 DEF TypeOK, table, history
  <1>7. ASSUME NEW r \in Requests, FinalizeCommit(r) PROVE TypeOK'
    <2> PICK q : q = req[r] OBVIOUS
    <2>1. q \in Transaction /\ q.run \in DOMAIN runs /\ q.run \in Runs
          BY <1>7, FinalizingReq DEF FinalizeCommit, Finalizing
    <2>2. /\ DOMAIN runs' = DOMAIN runs \cup {q.run} /\ DOMAIN runs' \subseteq Runs
          /\ runs' \in [DOMAIN runs' -> RunStatus]
          BY <1>7, <2>1, SaveRuns DEF FinalizeCommit, TypeOK, RunStatus
    <2>3. \A l \in Loans : View(q, l) \in LoanRow BY <2>1, ViewRow DEF TypeOK
    <2>4. loans' \in [Loans -> LoanRow] BY <1>7, <2>3 DEF FinalizeCommit
    <2>5. repayments' \in [Runs -> [Loans -> Nat]]
      <3>1. q.made \in [Loans -> Nat] BY <2>1 DEF Transaction
      <3>2. [l \in Loans |-> repayments[q.run][l] + q.made[l]] \in [Loans -> Nat]
            BY <2>1, <3>1 DEF TypeOK
      <3> QED BY <1>7, <3>2 DEF FinalizeCommit, TypeOK
    <2>6. advances' \in [Employees -> AdvanceStatus]
          BY <1>7 DEF FinalizeCommit, TypeOK, AdvanceStatus
    <2>7. finalized' \in [Runs -> Nat] BY <1>7, <2>1 DEF FinalizeCommit, TypeOK
    <2>8. [pc |-> "emit", run |-> q.run] \in Ending BY <2>1 DEF Ending
    <2>9. /\ req' \in [Requests -> {Idle} \cup Saving \cup Ending \cup Transaction]
          /\ \A p \in Requests : req'[p] # Idle => req'[p].run \in DOMAIN runs'
          BY <1>7, <2>1, <2>2, <2>8 DEF FinalizeCommit, TypeOK
    <2> QED BY <1>7, <2>2, <2>4, <2>5, <2>6, <2>7, <2>9 DEF FinalizeCommit, TypeOK
  <1>8. ASSUME NEW r \in Requests, Emit(r) PROVE TypeOK'
    <2>1. req[r].run \in Runs /\ req[r].run \in DOMAIN runs
          BY <1>8 DEF Emit, TypeOK, Idle
    <2>2. journal' \subseteq Runs BY <1>8, <2>1 DEF Emit, Entered, TypeOK
    <2> QED BY <1>8, <2>2 DEF Emit, TypeOK, history
  <1>9. ASSUME NEW r \in Requests, Fail(r) PROVE TypeOK'
    <2>1. req[r].run \in Runs BY <1>9 DEF Fail, TypeOK
    <2>2. stranded' \subseteq Runs /\ unheard' \subseteq Runs BY <1>9, <2>1 DEF Fail, TypeOK
    <2> QED BY <1>9, <2>2 DEF Fail, TypeOK, table
  <1>10. ASSUME NEW e \in Employees, NEW s \in Decisions, UpdateAdvance(e, s) PROVE TypeOK'
    <2>1. s \in AdvanceStatus BY PayrollAssumption DEF AdvanceStatus
    <2> QED BY <1>10, <2>1 DEF UpdateAdvance, TypeOK, history
  <1>11. ASSUME NEW w \in Workers, NEW job \in queue, Take(w, job) PROVE TypeOK'
    <2>1. job \in Job BY DEF TypeOK
    <2>2. job.run \in Runs /\ job.who \subseteq Employees BY <2>1, PayrollAssumption DEF Job
    <2>3. worker' \in [Workers -> {Idle} \cup Computing]
          BY <1>11, <2>1, <2>2 DEF Take, TypeOK, Computing
    <2>4. raced' \subseteq Runs BY <1>11, <2>2 DEF Take, Touch, TypeOK
    <2> QED BY <1>11, <2>3, <2>4 DEF Take, TypeOK, table
  <1>12. ASSUME NEW w \in Workers, Compute(w) PROVE TypeOK'
    <2> PICK job : job = worker[w].job OBVIOUS
    <2>1. worker[w] \in Computing BY <1>12 DEF Compute, TypeOK
    <2>2. job \in Job /\ job.run \in Runs /\ worker[w].withhold \subseteq Employees
          BY <2>1 DEF Computing, Job
    <2>3. /\ DOMAIN runs' = DOMAIN runs \cup {job.run} /\ DOMAIN runs' \subseteq Runs
          /\ runs' \in [DOMAIN runs' -> RunStatus]
          BY <1>12, <2>2, SaveRuns DEF Compute, TypeOK, RunStatus, Computed
    <2>4. slips' \in [Runs -> [Employees -> Nat]]
      <3>1. [e \in Employees |-> IF e \in job.who THEN slips[job.run][e] + 1
                                                  ELSE slips[job.run][e]]
              \in [Employees -> Nat]
            BY <2>2 DEF TypeOK
      <3> QED BY <1>12, <3>1 DEF Compute, TypeOK
    <2> QED BY <1>12, <2>2, <2>3, <2>4 DEF Compute, TypeOK
  <1>13. ASSUME NEW w \in Workers, Stall(w) PROVE TypeOK'
    <2> PICK job : job = worker[w].job OBVIOUS
    <2>1. worker[w] \in Computing BY <1>13 DEF Stall, TypeOK, Idle
    <2>2. job \in Job /\ job.run \in Runs BY <2>1 DEF Computing, Job
    <2>3. [worker[w] EXCEPT !.pc = "lost"] \in Computing BY <2>1 DEF Computing
    <2>4. worker' \in [Workers -> {Idle} \cup Computing]
          BY <1>13, <2>3 DEF Stall, TypeOK
    <2>5. job.stalls < MaxStalls => [job EXCEPT !.stalls = @ + 1] \in Job
          BY <2>2, PayrollAssumption DEF Job
    <2>6. queue' \subseteq Job /\ stranded' \subseteq Runs /\ again' \subseteq Runs
          BY <1>13, <2>2, <2>5 DEF Stall, TypeOK
    <2> QED BY <1>13, <2>4, <2>6 DEF Stall, TypeOK, table
  <1>14. ASSUME NEW w \in Workers, JobFails(w) PROVE TypeOK'
    <2>1. worker[w].job.run \in Runs BY <1>14 DEF JobFails, TypeOK, Computing, Job
    <2> QED BY <1>14, <2>1 DEF JobFails, TypeOK, table
  <1>15. CASE UNCHANGED vars
    BY <1>15 DEF TypeOK, vars, table, history
  <1> QED BY <1>1, <1>2, <1>3, <1>4, <1>5, <1>6, <1>7, <1>8, <1>9, <1>10, <1>11, <1>12,
             <1>13, <1>14, <1>15 DEF Next, Server

(* Every reachable state has the types of the tables and of the queue.     *)
THEOREM TypeCorrect == Spec => []TypeOK
  BY TypeInit, TypeNext, PTL DEF Spec

----------------------------------------------------------------------------
LEMMA ApprovalInit == Init => Approval
  BY DEF Init, Approval, RepaymentsWereApproved, Finalizing, Idle

(* A step that leaves the runs, the requests and the repayments alone and  *)
(* forgets no approval.                                                    *)
LEMMA ApprovalKept ==
    ASSUME Approval, UNCHANGED <<runs, repayments, req>>, approved \subseteq approved'
    PROVE  Approval'
  BY DEF Approval, RepaymentsWereApproved, Finalizing

LEMMA ApprovalNext == TypeOK /\ Approval /\ [Next]_vars => Approval'
  <1> SUFFICES ASSUME TypeOK, Approval, [Next]_vars PROVE Approval'
      OBVIOUS
  <1> USE DEF RepaymentsWereApproved
  <1>1. ASSUME NEW x \in Runs, CreateRun(x) PROVE Approval'
    <2>1. /\ DOMAIN runs' = DOMAIN runs \cup {x}
          /\ runs'[x] = "DRAFT"
          /\ \A y \in DOMAIN runs : y # x => runs'[y] = runs[y]
          BY <1>1, SaveRuns DEF CreateRun, TypeOK, RunStatus
    <2> QED BY <1>1, <2>1 DEF CreateRun, Approval, history, Finalizing
  <1>2. ASSUME NEW r \in Requests, NEW x \in Runs, NEW op \in Calls, NEW who \in Filters,
               Load(r, x, op, who)
        PROVE  Approval'
    <2>1. x \in DOMAIN runs /\ Target[op] \in ValidNext(runs[x]) BY <1>2 DEF Load
    <2>2. op = "finalize" => x \in approved
          BY <2>1, NextStatus DEF Target, Approval
    <2>3. op = "pay" => x \in approved
          BY <2>1, NextStatus DEF Target, Approval
    <2>4. \A q \in Requests \ {r} : req'[q] = req[q] BY <1>2 DEF Load, TypeOK
    <2>5. /\ req'[r].run = x
          /\ req'[r].pc \in {"next", "pay"} => op = "finalize"
          /\ req'[r].pc = "loaded" => req'[r].op = op
          BY <1>2 DEF Load, TypeOK
    <2>6. \A q \in Requests : Finalizing(q)' => req'[q].run \in approved
          BY <2>2, <2>4, <2>5 DEF Approval, Finalizing
    <2>7. \A q \in Requests : req'[q].pc = "loaded" /\ req'[q].op = "pay" =>
                                 req'[q].run \in approved
          BY <2>3, <2>4, <2>5 DEF Approval
    <2> QED BY <1>2, <2>6, <2>7 DEF Load, Approval, table
  <1>3. ASSUME NEW r \in Requests, SaveStatus(r) PROVE Approval'
    <2> PICK q : q = req[r] OBVIOUS
    <2>1. q \in Saving /\ q.run \in DOMAIN runs /\ q.run \in Runs
          BY <1>3, SavingReq DEF SaveStatus
    <2>2. Target[q.op] \in RunStatus BY <2>1 DEF Saving, Target, RunStatus
    <2>3. /\ DOMAIN runs' = DOMAIN runs \cup {q.run}
          /\ runs'[q.run] = Target[q.op]
          /\ \A y \in DOMAIN runs : y # q.run => runs'[y] = runs[y]
      <3>1. Save(q.run, Target[q.op]) BY <1>3 DEF SaveStatus
      <3>2. runs \in [DOMAIN runs -> RunStatus] /\ DOMAIN runs \subseteq Runs BY DEF TypeOK
      <3> QED BY <2>1, <2>2, <3>1, <3>2, SaveRuns
    <2>4. Target[q.op] \in {"APPROVED", "PROCESSED", "PAID"} => q.op \in {"approve", "pay"}
          BY <2>1 DEF Saving, Target
    <2>5. approved \subseteq approved' /\ (q.op = "approve" => q.run \in approved')
          BY <1>3 DEF SaveStatus
    <2>6. q.op = "pay" => q.run \in approved BY <1>3 DEF SaveStatus, Approval
    <2>7. \A x \in DOMAIN runs' : runs'[x] \in {"APPROVED", "PROCESSED", "PAID"} => x \in approved'
          BY <2>1, <2>3, <2>4, <2>5, <2>6 DEF Approval
    <2>8. /\ \A p \in Requests \ {r} : req'[p] = req[p]
          /\ req'[r].pc \in {"idle", "enqueue"}
          BY <1>3, <2>1 DEF SaveStatus, TypeOK, Idle, Saving
    <2>9. \A p \in Requests : Finalizing(p)' => req'[p].run \in approved'
          BY <2>5, <2>8 DEF Approval, Finalizing
    <2>10. \A p \in Requests : req'[p].pc = "loaded" /\ req'[p].op = "pay" =>
                                  req'[p].run \in approved'
          BY <2>5, <2>8 DEF Approval
    <2> QED BY <1>3, <2>5, <2>7, <2>9, <2>10 DEF SaveStatus, Approval
  <1>4. ASSUME NEW r \in Requests, Enqueue(r) PROVE Approval'
    <2>1. /\ \A p \in Requests \ {r} : req'[p] = req[p]
          /\ req'[r].pc = "idle"
          BY <1>4 DEF Enqueue, TypeOK, Idle
    <2> QED BY <1>4, <2>1 DEF Enqueue, Approval, Finalizing, table, history
  <1>5. ASSUME NEW r \in Requests, NEW e \in Employees, FinalizeRead(r, e) PROVE Approval'
    <2>1. req[r] \in Transaction BY <1>5, FinalizingReq DEF FinalizeRead, Finalizing
    <2>2. /\ \A p \in Requests \ {r} : req'[p] = req[p]
          /\ req'[r].pc = "pay" /\ req'[r].run = req[r].run
          BY <1>5, <2>1 DEF FinalizeRead, TypeOK, Transaction
    <2>3. Finalizing(r) BY <1>5 DEF FinalizeRead, Finalizing
    <2> QED BY <1>5, <2>2, <2>3 DEF FinalizeRead, Approval, Finalizing, table
  <1>6. ASSUME NEW r \in Requests, FinalizePay(r) PROVE Approval'
    <2>1. req[r] \in Transaction BY <1>6, FinalizingReq DEF FinalizePay, Finalizing
    <2>2. /\ \A p \in Requests \ {r} : req'[p] = req[p]
          /\ req'[r].pc = "next" /\ req'[r].run = req[r].run
          BY <1>6, <2>1 DEF FinalizePay, TypeOK, Transaction
    <2>3. Finalizing(r) BY <1>6 DEF FinalizePay, Finalizing
    <2> QED BY <1>6, <2>2, <2>3 DEF FinalizePay, Approval, Finalizing, table, history
  <1>7. ASSUME NEW r \in Requests, FinalizeCommit(r) PROVE Approval'
    <2> PICK q : q = req[r] OBVIOUS
    <2>1. q \in Transaction /\ q.run \in DOMAIN runs /\ q.run \in Runs
          BY <1>7, FinalizingReq DEF FinalizeCommit, Finalizing
    <2>2. q.run \in approved BY <1>7 DEF FinalizeCommit, Approval, Finalizing
    <2>3. /\ DOMAIN runs' = DOMAIN runs \cup {q.run}
          /\ \A y \in DOMAIN runs : y # q.run => runs'[y] = runs[y]
          BY <1>7, <2>1, SaveRuns DEF FinalizeCommit, TypeOK, RunStatus
    <2>4. \A x \in DOMAIN runs' : runs'[x] \in {"APPROVED", "PROCESSED", "PAID"} => x \in approved
          BY <2>1, <2>2, <2>3 DEF Approval
    <2>5. \A x \in Runs : x # q.run => repayments'[x] = repayments[x]
          BY <1>7 DEF FinalizeCommit, TypeOK
    <2>6. \A x \in Runs, l \in Loans : repayments'[x][l] > 0 => x \in approved
          BY <2>2, <2>5 DEF Approval
    <2>7. /\ \A p \in Requests \ {r} : req'[p] = req[p]
          /\ req'[r].pc = "emit"
          BY <1>7 DEF FinalizeCommit, TypeOK
    <2> QED BY <1>7, <2>4, <2>6, <2>7 DEF FinalizeCommit, Approval, Finalizing
  <1>8. ASSUME NEW r \in Requests, Emit(r) \/ Fail(r) PROVE Approval'
    <2>1. /\ \A p \in Requests \ {r} : req'[p] = req[p]
          /\ req'[r].pc = "idle"
          /\ UNCHANGED <<runs, repayments, approved>>
          BY <1>8 DEF Emit, Fail, TypeOK, Idle, table, history
    <2> QED BY <2>1 DEF Approval, Finalizing
  <1>9. ASSUME NEW e \in Employees, NEW s \in Decisions, UpdateAdvance(e, s) PROVE Approval'
    BY <1>9, ApprovalKept DEF UpdateAdvance, history
  <1>10. ASSUME NEW w \in Workers, NEW job \in queue, Take(w, job) PROVE Approval'
    BY <1>10, ApprovalKept DEF Take, table
  <1>11. ASSUME NEW w \in Workers, Compute(w) PROVE Approval'
    <2> PICK x : x = worker[w].job.run OBVIOUS
    <2>1. x \in Runs BY <1>11 DEF Compute, TypeOK, Computing, Job
    <2>2. /\ DOMAIN runs' = DOMAIN runs \cup {x}
          /\ runs'[x] = "REVIEW"
          /\ \A y \in DOMAIN runs : y # x => runs'[y] = runs[y]
          BY <1>11, <2>1, SaveRuns DEF Compute, TypeOK, RunStatus, Computed
    <2> QED BY <1>11, <2>2 DEF Compute, Approval, Finalizing
  <1>12. ASSUME NEW w \in Workers, Stall(w) \/ JobFails(w) PROVE Approval'
    BY <1>12, ApprovalKept DEF Stall, JobFails, table
  <1>13. CASE UNCHANGED vars
    BY <1>13, ApprovalKept DEF vars, table, history
  <1> QED BY <1>1, <1>2, <1>3, <1>4, <1>5, <1>6, <1>7, <1>8, <1>9, <1>10, <1>11, <1>12,
             <1>13 DEF Next, Server

(* Only approved runs take repayments, whatever requests, redelivered jobs *)
(* and stale saves do in between.                                          *)
THEOREM OnlyApprovedRepay == Spec => []RepaymentsWereApproved
  <1>1. Approval => RepaymentsWereApproved BY DEF Approval
  <1> QED BY TypeInit, TypeNext, ApprovalInit, ApprovalNext, <1>1, PTL DEF Spec

----------------------------------------------------------------------------
LEMMA InstalmentsInit == Init => Instalments
  BY PayrollAssumption DEF Init, Instalments, Bounded, Finalizing, Idle

(* What a transaction sees of a loan is bounded.                           *)
LEMMA ViewBounded ==
    ASSUME TypeOK, Instalments, NEW r \in Requests, Finalizing(r), NEW l \in Loans
    PROVE  Bounded(l, View(req[r], l))
  BY DEF Instalments, View

(* A step that leaves the loans alone and begins no transaction step.      *)
LEMMA InstalmentsKept ==
    ASSUME Instalments, UNCHANGED loans,
           \A p \in Requests : Finalizing(p)' =>
              \/ UNCHANGED req[p]
              \/ req'[p].rows = NoRows /\ req'[p].wrote = NoRows
    PROVE  Instalments'
  <1>1. Held(NoRows) = {} BY NoRowsOK
  <1>2. \A p \in Requests : Finalizing(p)' /\ UNCHANGED req[p] => Finalizing(p)
        BY DEF Finalizing
  <1> QED BY <1>1, <1>2 DEF Instalments

LEMMA InstalmentsNext == TypeOK /\ Instalments /\ [Next]_vars => Instalments'
  <1> SUFFICES ASSUME TypeOK, Instalments, [Next]_vars PROVE Instalments'
      OBVIOUS
  <1>1. ASSUME NEW r \in Requests, NEW x \in Runs, NEW op \in Calls, NEW who \in Filters,
               Load(r, x, op, who)
        PROVE  Instalments'
    <2>1. \A p \in Requests \ {r} : req'[p] = req[p] BY <1>1 DEF Load, TypeOK
    <2>2. \/ req'[r].pc = "loaded"
          \/ req'[r].rows = NoRows /\ req'[r].wrote = NoRows
          BY <1>1 DEF Load, TypeOK
    <2> QED BY <1>1, <2>1, <2>2, InstalmentsKept DEF Load, Finalizing, table
  <1>2. ASSUME NEW r \in Requests, SaveStatus(r) \/ Enqueue(r) \/ Emit(r) \/ Fail(r)
        PROVE  Instalments'
    <2>1. /\ \A p \in Requests \ {r} : req'[p] = req[p]
          /\ req'[r].pc \in {"idle", "enqueue"}
          /\ UNCHANGED loans
      <3>1. CASE SaveStatus(r)
        <4>1. req[r] \in Saving BY <3>1, SavingReq DEF SaveStatus
        <4> QED BY <3>1, <4>1 DEF SaveStatus, TypeOK, Idle, Saving
      <3>2. CASE Enqueue(r) \/ Emit(r) \/ Fail(r)
        BY <3>2 DEF Enqueue, Emit, Fail, TypeOK, Idle, table
      <3> QED BY <1>2, <3>1, <3>2
    <2> QED BY <2>1, InstalmentsKept DEF Finalizing
  <1>3. ASSUME NEW r \in Requests, NEW e \in Employees, FinalizeRead(r, e) PROVE Instalments'
    <2> PICK q : q = req[r] OBVIOUS
    <2>1. q \in Transaction /\ Finalizing(r)
          BY <1>3, FinalizingReq DEF FinalizeRead, Finalizing
    <2> PICK found : found = {l \in Loans : Borrower[l] = e /\ View(q, l).status = "ACTIVE"}
        OBVIOUS
    <2>2. /\ \A p \in Requests \ {r} : req'[p] = req[p]
          /\ req'[r].rows = [l \in Loans |-> IF l \in found THEN View(q, l) ELSE NoRow]
          /\ req'[r].wrote = q.wrote
          BY <1>3, <2>1 DEF FinalizeRead, TypeOK, Transaction
    <2>3. \A l \in found : Bounded(l, View(q, l)) /\ View(q, l).status = "ACTIVE"
          BY <2>1, ViewBounded
    <2>4. UNCHANGED loans BY <1>3 DEF FinalizeRead, table
    <2>5. \A l \in Held(q.wrote) : Bounded(l, q.wrote[l]) BY <2>1 DEF Instalments
    <2>6. \A p \in Requests \ {r} : Finalizing(p)' => Finalizing(p) BY <2>2 DEF Finalizing
    <2>7. \A l \in Held(req'[r].rows) :
             Bounded(l, req'[r].rows[l]) /\ req'[r].rows[l].status = "ACTIVE"
          BY <2>2, <2>3 DEF Held
    <2> QED BY <2>2, <2>4, <2>5, <2>6, <2>7 DEF Instalments
  <1>4. ASSUME NEW r \in Requests, FinalizePay(r) PROVE Instalments'
    <2> PICK q : q = req[r] OBVIOUS
    <2>1. q \in Transaction /\ Finalizing(r)
          BY <1>4, FinalizingReq DEF FinalizePay, Finalizing
    <2>2. q.rows \in LoanRows BY <2>1 DEF Transaction
    <2>3. Held(q.rows) \subseteq Loans /\ \A l \in Held(q.rows) : q.rows[l] \in LoanRow
          BY <2>2, RowsHave
    <2>4. \A l \in Held(q.rows) : Bounded(l, Repaid(l, q.rows[l]))
          BY <2>1, <2>3, RepaidRow DEF Instalments
    <2>5. \A l \in Held(q.wrote) : Bounded(l, q.wrote[l]) BY <2>1 DEF Instalments
    <2>6. /\ \A p \in Requests \ {r} : req'[p] = req[p]
          /\ req'[r].rows = NoRows
          /\ req'[r].wrote = [l \in Loans |->
                                IF l \in Held(q.rows) THEN Repaid(l, q.rows[l]) ELSE q.wrote[l]]
          BY <1>4, <2>1 DEF FinalizePay, TypeOK, Transaction
    <2>7. \A l \in Held(req'[r].wrote) : Bounded(l, req'[r].wrote[l])
          BY <2>4, <2>5, <2>6 DEF Held
    <2>8. Held(req'[r].rows) = {} BY <2>6, NoRowsOK
    <2>9. UNCHANGED loans BY <1>4 DEF FinalizePay, table
    <2>10. \A p \in Requests \ {r} : Finalizing(p)' => Finalizing(p) BY <2>6 DEF Finalizing
    <2>11. \A l \in Loans : Bounded(l, loans'[l]) BY <2>9 DEF Instalments
    <2>12. \A p \in Requests : Finalizing(p)' =>
             /\ \A l \in Held(req'[p].rows) :
                   Bounded(l, req'[p].rows[l]) /\ req'[p].rows[l].status = "ACTIVE"
             /\ \A l \in Held(req'[p].wrote) : Bounded(l, req'[p].wrote[l])
      <3> TAKE p \in Requests
      <3>1. CASE p = r BY <3>1, <2>7, <2>8
      <3>2. CASE p # r BY <3>2, <2>6, <2>10 DEF Instalments
      <3> QED BY <3>1, <3>2
    <2> QED BY <2>11, <2>12 DEF Instalments
  <1>5. ASSUME NEW r \in Requests, FinalizeCommit(r) PROVE Instalments'
    <2>1. Finalizing(r) BY <1>5 DEF FinalizeCommit, Finalizing
    <2>2. \A l \in Loans : Bounded(l, loans'[l]) BY <1>5, <2>1, ViewBounded DEF FinalizeCommit
    <2>3. /\ \A p \in Requests \ {r} : req'[p] = req[p]
          /\ req'[r].pc = "emit"
          BY <1>5 DEF FinalizeCommit, TypeOK
    <2>4. \A p \in Requests : Finalizing(p)' => p # r /\ Finalizing(p)
          BY <2>3 DEF Finalizing
    <2> QED BY <2>2, <2>3, <2>4 DEF Instalments
  <1>6. ASSUME UNCHANGED <<req, loans>> PROVE Instalments'
    BY <1>6, InstalmentsKept
  <1>7. ASSUME NEW x \in Runs, CreateRun(x) PROVE Instalments'
    BY <1>6, <1>7 DEF CreateRun
  <1>8. ASSUME NEW e \in Employees, NEW s \in Decisions, UpdateAdvance(e, s) PROVE Instalments'
    BY <1>6, <1>8 DEF UpdateAdvance
  <1>9. ASSUME NEW w \in Workers, NEW job \in queue, Take(w, job) PROVE Instalments'
    BY <1>6, <1>9 DEF Take, table
  <1>10. ASSUME NEW w \in Workers, Compute(w) \/ Stall(w) \/ JobFails(w) PROVE Instalments'
    BY <1>6, <1>10 DEF Compute, Stall, JobFails, table
  <1>11. CASE UNCHANGED vars
    BY <1>6, <1>11 DEF vars, table
  <1> QED BY <1>1, <1>2, <1>3, <1>4, <1>5, <1>7, <1>8, <1>9, <1>10, <1>11 DEF Next, Server

LEMMA InstalmentsHold == Spec => []Instalments
  BY TypeInit, TypeNext, InstalmentsInit, InstalmentsNext, PTL DEF Spec
----------------------------------------------------------------------------
Status(x) == IF x \in DOMAIN runs THEN runs[x] ELSE "NONE"
HasRun(r, x) == req[r] # Idle /\ req[r].run = x
OnRun(w, x) == worker[w] # Idle /\ worker[w].job.run = x

\* One request or one worker has run x.
OneAtATime(x) ==
    /\ \A p, t \in Requests : HasRun(p, x) /\ HasRun(t, x) => p = t
    /\ \A v, w \in Workers : OnRun(v, x) /\ OnRun(w, x) => v = w
    /\ \A r \in Requests, w \in Workers : ~(HasRun(r, x) /\ OnRun(w, x))

(* What a request was allowed to do when it loaded run x it still is.      *)
StillAllowed(x) ==
    \A r \in Requests : HasRun(r, x) =>
        /\ req[r].pc = "loaded" => Target[req[r].op] \in ValidNext(Status(x))
        /\ Finalizing(r) => Status(x) = "APPROVED"
        /\ req[r].pc = "enqueue" => Status(x) = "PROCESSING" /\ \A j \in queue : j.run # x

(* Run x has one job: somebody is going to add it, it waits, or a worker   *)
(* has it; until the worker is done the run can be cancelled, no more.     *)
OneJob(x) ==
    /\ \A j \in queue : j.run = x =>
          /\ Status(x) \in {"PROCESSING", "CANCELLED"}
          /\ \A k \in queue : k.run = x => k = j
          /\ \A w \in Workers : ~OnRun(w, x)
    /\ \A w \in Workers : OnRun(w, x) => Status(x) \in {"PROCESSING", "CANCELLED"}

DoneOnce(x) ==
    \/ finalized[x] = 0
    \/ finalized[x] = 1 /\ Status(x) \in {"PROCESSED", "PAID"}

InTurn(x) == OneAtATime(x) /\ StillAllowed(x) /\ OneJob(x) /\ DoneOnce(x)

(* A run that nobody raced for, and whose job came once, is in turn.       *)
Turns == \A x \in Runs \ (raced \cup again) : InTurn(x)

\* A run whose event is neither heard nor lost.
Announcing(x) == \E r \in Requests : req[r].pc = "emit" /\ req[r].run = x

Announced ==
    \A x \in Runs : finalized[x] > 0 => x \in unheard \/ journal # {} \/ Announcing(x)

\* Only runs that are finalized announce themselves.
Heard ==
    /\ \A y \in journal : finalized[y] > 0
    /\ \A r \in Requests : req[r].pc = "emit" => finalized[req[r].run] > 0

(* An advance that was approved in time for a payslip is withheld by it,   *)
(* or the worker that makes the payslip will.                              *)
InTime(e) ==
    /\ advances[e] = "DEDUCTED" => e \in withheld \cup late \cup byHand
    /\ advances[e] = "APPROVED" =>
          /\ (\E x \in Runs : slips[x][e] > 0) => e \in withheld \cup late
          /\ \A w \in Workers : worker[w] # Idle /\ e \in worker[w].job.who =>
                e \in withheld \cup late \cup worker[w].withhold

WithheldInTime == \A e \in Employees : InTime(e)
----------------------------------------------------------------------------
(* A step that moves run x on in nobody's hands: whoever has it, or its    *)
(* job, had it before and no less was known of it then.                    *)
LEMMA TurnFrame ==
    ASSUME NEW x \in Runs, InTurn(x), Status(x)' = Status(x), finalized'[x] = finalized[x],
           \A r \in Requests : HasRun(r, x)' =>
               /\ HasRun(r, x)
               /\ req'[r].pc = "loaded" => req'[r] = req[r]
               /\ Finalizing(r)' => Finalizing(r)
               /\ req'[r].pc = "enqueue" => req[r].pc = "enqueue",
           \A w \in Workers : OnRun(w, x)' => OnRun(w, x),
           \A j \in queue' : j.run = x => j \in queue
    PROVE  InTurn(x)'
  <1>1. OneAtATime(x)' BY DEF InTurn, OneAtATime
  <1>2. StillAllowed(x)' BY DEF InTurn, StillAllowed
  <1>3. OneJob(x)' BY DEF InTurn, OneJob
  <1>4. DoneOnce(x)' BY DEF InTurn, DoneOnce
  <1> QED BY <1>1, <1>2, <1>3, <1>4 DEF InTurn

\* What a save does to the status of every run.
LEMMA SaveStatuses ==
    ASSUME NEW y \in Runs, NEW s, Save(y, s), NEW x \in Runs
    PROVE  Status(x)' = IF x = y THEN s ELSE Status(x)
  BY DEF Save, Status

LEMMA SameStatus == ASSUME UNCHANGED runs, NEW x \in Runs PROVE Status(x)' = Status(x)
  BY DEF Status

LEMMA HeldRuns ==
    ASSUME TypeOK
    PROVE  /\ \A r \in Requests : req[r] # Idle => req[r].run \in Runs /\ Status(req[r].run) # "NONE"
           /\ \A w \in Workers : worker[w] # Idle =>
                 worker[w] \in Computing /\ worker[w].job.run \in Runs
           /\ \A j \in queue : j.run \in Runs
  <1>1. \A x \in DOMAIN runs : x \in Runs /\ Status(x) # "NONE"
        BY DEF TypeOK, Status, RunStatus
  <1>2. \A r \in Requests : req[r] # Idle => req[r].run \in DOMAIN runs BY Zenon DEF TypeOK
  <1>3. \A w \in Workers : worker[w] # Idle => worker[w] \in Computing BY Zenon DEF TypeOK
  <1>4. \A w \in Workers : worker[w] \in Computing => worker[w].job.run \in Runs
        BY DEF Computing, Job
  <1>5. \A j \in queue : j.run \in Runs BY DEF TypeOK, Job
  <1> QED BY <1>1, <1>2, <1>3, <1>4, <1>5

\* A request that is not Idle holds its run.
LEMMA PcHolds ==
    ASSUME NEW r \in Requests, req[r].pc # "idle"
    PROVE  HasRun(r, req[r].run)
  BY DEF HasRun, Idle

\* The past is not forgotten.
LEMMA PayrollHistory ==
    ASSUME TypeOK, [Next]_vars
    PROVE  raced \subseteq raced' /\ again \subseteq again'
  <1>1. CASE UNCHANGED vars \/ \E x \in Runs : CreateRun(x)
        BY <1>1 DEF CreateRun, vars, history
  <1>2. ASSUME NEW r \in Requests,
               SaveStatus(r) \/ Enqueue(r) \/ Emit(r) \/ Fail(r)
        PROVE  raced \subseteq raced' /\ again \subseteq again'
    <2>1. UNCHANGED <<raced, again>> BY <1>2, Zenon DEF SaveStatus, Enqueue, Emit, Fail, history
    <2> QED BY <2>1
  <1>3. ASSUME NEW r \in Requests,
               \/ \E e \in Employees : FinalizeRead(r, e)
               \/ FinalizePay(r) \/ FinalizeCommit(r)
        PROVE  raced \subseteq raced' /\ again \subseteq again'
        BY <1>3 DEF FinalizeRead, FinalizePay, FinalizeCommit, history
  <1>4. ASSUME NEW r \in Requests, NEW x \in Runs, NEW op \in Calls, NEW who \in Filters,
               Load(r, x, op, who)
        PROVE  raced \subseteq raced' /\ again \subseteq again'
        BY <1>4 DEF Load, Touch
  <1>5. ASSUME \/ \E e \in Employees, s \in Decisions : UpdateAdvance(e, s)
               \/ \E w \in Workers : \/ \E job \in queue : Take(w, job)
                                     \/ Compute(w) \/ Stall(w) \/ JobFails(w)
        PROVE  raced \subseteq raced' /\ again \subseteq again'
        BY <1>5 DEF UpdateAdvance, Take, Compute, Stall, JobFails, Touch
  <1> QED BY <1>1, <1>2, <1>3, <1>4, <1>5 DEF Next, Server

LEMMA TurnsNext == ASSUME TypeOK, Turns, [Next]_vars PROVE Turns'
  <1> SUFFICES ASSUME NEW x \in Runs, x \notin raced', x \notin again' PROVE InTurn(x)'
      BY DEF Turns
  <1>0. InTurn(x) BY PayrollHistory DEF Turns
  <1>a. ASSUME NEW r \in Requests, UNCHANGED <<runs, queue, worker, finalized>>,
               \A p \in Requests \ {r} : req'[p] = req[p],
               \/ req'[r] = Idle
               \/ Finalizing(r) /\ Finalizing(r)' /\ req'[r].run = req[r].run
        PROVE  InTurn(x)'
    <2>1. HasRun(r, x)' => HasRun(r, x) /\ Finalizing(r) /\ Finalizing(r)'
          BY <1>a DEF HasRun, Finalizing, Idle
    <2>2. Finalizing(r)' => req'[r].pc # "loaded" /\ req'[r].pc # "enqueue" BY DEF Finalizing
    <2>3. \A p \in Requests \ {r} : HasRun(p, x)' => HasRun(p, x) BY <1>a DEF HasRun
    <2>4. \A p \in Requests \ {r} : Finalizing(p)' => Finalizing(p) BY <1>a DEF Finalizing
    <2>5. \A w \in Workers : OnRun(w, x)' => OnRun(w, x) BY <1>a DEF OnRun
    <2>6. Status(x)' = Status(x) BY <1>a DEF Status
    <2>7. ASSUME NEW p \in Requests, HasRun(p, x)'
          PROVE  /\ HasRun(p, x)
                 /\ req'[p].pc = "loaded" => req'[p] = req[p]
                 /\ Finalizing(p)' => Finalizing(p)
                 /\ req'[p].pc = "enqueue" => req[p].pc = "enqueue"
      <3>1. CASE p = r BY <2>1, <2>2, <2>7, <3>1
      <3>2. CASE p # r BY <1>a, <2>3, <2>4, <2>7, <3>2
      <3> QED BY <3>1, <3>2
    <2> QED BY <1>0, <1>a, <2>5, <2>6, <2>7, TurnFrame
  <1>b. ASSUME NEW w \in Workers, UNCHANGED <<req, finalized>>, Status(x)' = Status(x),
               \A j \in queue' : j.run = x => j \in queue,
               \A v \in Workers : OnRun(v, x)' => OnRun(v, x)
        PROVE  InTurn(x)'
        BY <1>0, <1>b, TurnFrame DEF HasRun, Finalizing
  <1>1. ASSUME NEW y \in Runs, CreateRun(y) PROVE InTurn(x)'
    <2>1. CASE x = y
      <3>1. Status(x) = "NONE" /\ Status(x)' = "DRAFT"
            BY <1>1, <2>1, SaveStatuses DEF CreateRun, Status
      <3>2. /\ \A r \in Requests : ~HasRun(r, x)
            /\ \A w \in Workers : ~OnRun(w, x)
            /\ \A j \in queue : j.run # x
            /\ finalized[x] = 0
            BY <1>0, <3>1, HeldRuns DEF InTurn, OneJob, DoneOnce, HasRun
      <3> QED BY <1>1, <3>2 DEF CreateRun, history, InTurn, OneAtATime, StillAllowed, OneJob,
                                DoneOnce, HasRun, OnRun
    <2>2. CASE x # y
      <3>1. Status(x)' = Status(x) BY <1>1, <2>2, SaveStatuses DEF CreateRun
      <3> QED BY <1>0, <1>1, <3>1, TurnFrame
              DEF CreateRun, history, HasRun, OnRun, Finalizing
    <2> QED BY <2>1, <2>2
  <1>2. ASSUME NEW r \in Requests, NEW y \in Runs, NEW op \in Calls, NEW who \in Filters,
               Load(r, y, op, who)
        PROVE  InTurn(x)'
    <2>1. /\ req[r] = Idle /\ \A p \in Requests \ {r} : req'[p] = req[p]
          /\ UNCHANGED <<runs, queue, worker, finalized>>
          BY <1>2 DEF Load, TypeOK, table
    <2>2. /\ req'[r].run = y /\ req'[r].pc \in {"next", "loaded"}
          /\ req'[r].pc = "next" => op = "finalize"
          /\ req'[r].pc = "loaded" => req'[r].op = op
          /\ req'[r] # Idle
          BY <1>2 DEF Load, TypeOK, Idle
    <2>3. Status(x)' = Status(x) BY <2>1, SameStatus
    <2>4. CASE x = y
      <3>1. ~Busy(x) BY <1>2, <2>4 DEF Load, Touch
      <3>2. /\ \A p \in Requests \ {r} : ~HasRun(p, x)'
            /\ \A w \in Workers : ~OnRun(w, x)'
            BY <2>1, <3>1 DEF Busy, HasRun, OnRun
      <3>3. Status(x) = runs[x] /\ Target[op] \in ValidNext(Status(x))
            BY <1>2, <2>4 DEF Load, Status
      <3>4. op = "finalize" => Status(x) = "APPROVED" BY <3>3, NextStatus DEF Target
      <3>5. StillAllowed(x)' BY <2>2, <2>3, <3>2, <3>3, <3>4 DEF StillAllowed, Finalizing
      <3>6. OneAtATime(x)' BY <3>2 DEF OneAtATime
      <3>7. OneJob(x)' BY <1>0, <2>1, <2>3 DEF InTurn, OneJob, OnRun
      <3>8. DoneOnce(x)' BY <1>0, <2>1, <2>3 DEF InTurn, DoneOnce
      <3> QED BY <3>5, <3>6, <3>7, <3>8 DEF InTurn
    <2>5. CASE x # y
      <3>1. ~HasRun(r, x)' BY <2>2, <2>5 DEF HasRun
      <3> QED BY <1>0, <2>1, <2>3, <3>1, TurnFrame DEF HasRun, OnRun, Finalizing
    <2> QED BY <2>4, <2>5
  <1>3. ASSUME NEW r \in Requests, SaveStatus(r) PROVE InTurn(x)'
    <2> DEFINE q == req[r]
    <2>1. q \in Saving /\ q.run \in Runs /\ q.pc = "loaded" /\ HasRun(r, q.run)
          BY <1>3, SavingReq, PcHolds DEF SaveStatus
    <2>2. /\ \A p \in Requests \ {r} : req'[p] = req[p]
          /\ UNCHANGED <<queue, worker, finalized>>
          /\ Save(q.run, Target[q.op])
          BY <1>3 DEF SaveStatus, TypeOK
    <2>3. \/ req'[r] = Idle /\ q.op # "process"
          \/ q.op = "process" /\ req'[r].pc = "enqueue" /\ req'[r].run = q.run
          BY <1>3, <2>1 DEF SaveStatus, TypeOK, Saving
    <2>4. CASE x = q.run
      <3>1. /\ \A p \in Requests \ {r} : ~HasRun(p, x)' /\ ~HasRun(p, x)
            /\ \A w \in Workers : ~OnRun(w, x)' /\ ~OnRun(w, x)
            BY <1>0, <2>1, <2>2, <2>4 DEF InTurn, OneAtATime, HasRun, OnRun
      <3>2. Target[q.op] \in ValidNext(Status(x))
            BY <1>0, <2>1, <2>4 DEF InTurn, StillAllowed
      <3>3. Status(x)' = Target[q.op] BY <2>1, <2>2, <2>4, SaveStatuses
      <3>4. Target[q.op] \in {"PROCESSING", "APPROVED", "CANCELLED", "PAID"}
            BY <2>1 DEF Saving, Target
      <3>5. \A j \in queue : j.run = x => Status(x)' = "CANCELLED"
        <4>1. SUFFICES ASSUME NEW j \in queue, j.run = x PROVE Status(x)' = "CANCELLED"
              OBVIOUS
        <4>2. Status(x) \in {"PROCESSING", "CANCELLED"} BY <1>0, <4>1 DEF InTurn, OneJob
        <4> QED BY <3>2, <3>3, <3>4, <4>2 DEF ValidNext
      <3>6. finalized[x] # 0 => Status(x)' = "PAID"
            BY <1>0, <3>2, <3>3 DEF InTurn, DoneOnce, ValidNext
      <3>7. StillAllowed(x)'
        <4>1. CASE q.op = "process"
          <5>1. Status(x)' = "PROCESSING" BY <3>3, <4>1 DEF Target
          <5>2. \A j \in queue' : j.run # x BY <2>2, <3>5, <5>1
          <5>3. req'[r].pc = "enqueue" BY <2>3, <4>1
          <5> QED BY <3>1, <5>1, <5>2, <5>3 DEF StillAllowed, Finalizing
        <4>2. CASE q.op # "process" BY <2>3, <3>1, <4>2 DEF StillAllowed, HasRun
        <4> QED BY <4>1, <4>2
      <3>8. OneAtATime(x)' BY <3>1 DEF OneAtATime
      <3>9. OneJob(x)' BY <1>0, <2>2, <3>1, <3>5 DEF InTurn, OneJob
      <3>10. DoneOnce(x)' BY <1>0, <2>2, <3>6 DEF InTurn, DoneOnce
      <3> QED BY <3>7, <3>8, <3>9, <3>10 DEF InTurn
    <2>5. CASE x # q.run
      <3>1. ~HasRun(r, x)' BY <2>3, <2>5 DEF HasRun
      <3>2. Status(x)' = Status(x) BY <2>1, <2>2, <2>5, SaveStatuses
      <3> QED BY <1>0, <2>2, <3>1, <3>2, TurnFrame DEF HasRun, OnRun, Finalizing
    <2> QED BY <2>4, <2>5
  <1>4. ASSUME NEW r \in Requests, Enqueue(r) PROVE InTurn(x)'
    <2> DEFINE job == [run |-> req[r].run, who |-> req[r].who, stalls |-> 0,
                       id |-> sent[req[r].run]]
    <2>1. req[r].pc = "enqueue" /\ HasRun(r, req[r].run) /\ req[r].run \in Runs
          BY <1>4, SavingReq, PcHolds DEF Enqueue
    <2>2. /\ queue' = queue \cup {job} /\ job.run = req[r].run
          /\ req'[r] = Idle /\ \A p \in Requests \ {r} : req'[p] = req[p]
          /\ UNCHANGED <<runs, worker, finalized>>
          BY <1>4 DEF Enqueue, TypeOK, table, history
    <2>3. Status(x)' = Status(x) BY <2>2, SameStatus
    <2>4. CASE x = req[r].run
      <3>1. /\ \A p \in Requests : ~HasRun(p, x)'
            /\ \A w \in Workers : ~OnRun(w, x)'
            BY <1>0, <2>1, <2>2, <2>4 DEF InTurn, OneAtATime, HasRun, OnRun
      <3>2. Status(x) = "PROCESSING" /\ \A j \in queue : j.run # x
            BY <1>0, <2>1, <2>4 DEF InTurn, StillAllowed
      <3>3. \A j \in queue' : j.run = x => j = job BY <2>2, <3>2
      <3>4. OneJob(x)' BY <2>3, <3>1, <3>2, <3>3 DEF OneJob
      <3>5. OneAtATime(x)' /\ StillAllowed(x)' BY <3>1 DEF OneAtATime, StillAllowed
      <3>6. DoneOnce(x)' BY <1>0, <2>2, <2>3 DEF InTurn, DoneOnce
      <3> QED BY <3>4, <3>5, <3>6 DEF InTurn
    <2>5. CASE x # req[r].run
      <3>1. ~HasRun(r, x)' BY <2>2 DEF HasRun
      <3>2. \A j \in queue' : j.run = x => j \in queue BY <2>2, <2>5
      <3> QED BY <1>0, <2>2, <2>3, <3>1, <3>2, TurnFrame DEF HasRun, OnRun, Finalizing
    <2> QED BY <2>4, <2>5
  <1>5. ASSUME NEW r \in Requests, NEW e \in Employees, FinalizeRead(r, e) PROVE InTurn(x)'
    <2>1. req[r] \in Transaction BY <1>5, FinalizingReq DEF FinalizeRead, Finalizing
    <2>2. req'[r].pc = "pay" /\ req'[r].run = req[r].run
          BY <1>5, <2>1 DEF FinalizeRead, TypeOK, Transaction
    <2>3. /\ Finalizing(r) /\ Finalizing(r)'
          /\ UNCHANGED <<runs, queue, worker, finalized>>
          BY <1>5, <2>2 DEF FinalizeRead, Finalizing, table
    <2>4. \A p \in Requests \ {r} : req'[p] = req[p] BY <1>5, Zenon DEF FinalizeRead, TypeOK
    <2> QED BY <1>a, <2>2, <2>3, <2>4
  <1>6. ASSUME NEW r \in Requests, FinalizePay(r) PROVE InTurn(x)'
    <2>1. req[r] \in Transaction BY <1>6, FinalizingReq DEF FinalizePay, Finalizing
    <2>2. req'[r].pc = "next" /\ req'[r].run = req[r].run
          BY <1>6, <2>1 DEF FinalizePay, TypeOK, Transaction
    <2> QED BY <1>6, <1>a, <2>2 DEF FinalizePay, Finalizing, TypeOK, table, history
  <1>7. ASSUME NEW r \in Requests, FinalizeCommit(r) PROVE InTurn(x)'
    <2>1. Finalizing(r) /\ HasRun(r, req[r].run) /\ req[r].run \in Runs
          BY <1>7, FinalizingReq, PcHolds DEF FinalizeCommit, Finalizing
    <2>2. /\ req'[r] = [pc |-> "emit", run |-> req[r].run]
          /\ \A p \in Requests \ {r} : req'[p] = req[p]
          /\ UNCHANGED <<queue, worker>> /\ Save(req[r].run, "PROCESSED")
          /\ finalized' = [finalized EXCEPT ![req[r].run] = @ + 1]
          BY <1>7 DEF FinalizeCommit, TypeOK
    <2>3. CASE x = req[r].run
      <3>1. /\ \A p \in Requests \ {r} : ~HasRun(p, x)'
            /\ \A w \in Workers : ~OnRun(w, x)'
            BY <1>0, <2>1, <2>2, <2>3 DEF InTurn, OneAtATime, HasRun, OnRun
      <3>2. Status(x) = "APPROVED" BY <1>0, <2>1, <2>3 DEF InTurn, StillAllowed
      <3>3. finalized[x] = 0 /\ \A j \in queue : j.run # x
            BY <1>0, <3>2 DEF InTurn, DoneOnce, OneJob
      <3>4. Status(x)' = "PROCESSED" BY <2>1, <2>2, <2>3, SaveStatuses
      <3>5. finalized'[x] = 1 BY <2>2, <2>3, <3>3 DEF TypeOK
      <3>6. StillAllowed(x)' BY <2>2, <3>1 DEF StillAllowed, Finalizing
      <3>7. OneAtATime(x)' /\ OneJob(x)' BY <2>2, <3>1, <3>3 DEF OneAtATime, OneJob
      <3> QED BY <3>4, <3>5, <3>6, <3>7 DEF InTurn, DoneOnce
    <2>4. CASE x # req[r].run
      <3>1. ~HasRun(r, x)' BY <2>2, <2>4 DEF HasRun
      <3>2. Status(x)' = Status(x) BY <2>1, <2>2, <2>4, SaveStatuses
      <3>3. finalized'[x] = finalized[x] BY <2>2, <2>4 DEF TypeOK
      <3> QED BY <1>0, <2>2, <3>1, <3>2, <3>3, TurnFrame DEF HasRun, OnRun, Finalizing
    <2> QED BY <2>3, <2>4
  <1>8. ASSUME NEW r \in Requests, Emit(r) \/ Fail(r) PROVE InTurn(x)'
    <2>1. req'[r] = Idle /\ \A p \in Requests \ {r} : req'[p] = req[p]
          BY <1>8 DEF Emit, Fail, TypeOK
    <2>2. UNCHANGED <<runs, queue, worker, finalized>>
          BY <1>8 DEF Emit, Fail, table, history
    <2> QED BY <1>a, <2>1, <2>2
  <1>9. ASSUME NEW e \in Employees, NEW s \in Decisions, UpdateAdvance(e, s) PROVE InTurn(x)'
        BY <1>0, <1>9, SameStatus, TurnFrame DEF UpdateAdvance, HasRun, OnRun, Finalizing
  <1>10. ASSUME NEW w \in Workers, NEW job \in queue, Take(w, job) PROVE InTurn(x)'
    <2>1. /\ worker[w] = Idle /\ worker'[w] # Idle /\ worker'[w].job = job
          /\ \A v \in Workers \ {w} : worker'[v] = worker[v]
          /\ queue' = queue \ {job}
          /\ UNCHANGED <<runs, req, finalized>>
          BY <1>10 DEF Take, TypeOK, table, Idle
    <2>2. Status(x)' = Status(x) BY <2>1, SameStatus
    <2>3. CASE x = job.run
      <3>1. ~Busy(x) BY <1>10, <2>3 DEF Take, Touch
      <3>2. /\ \A p \in Requests : ~HasRun(p, x)'
            /\ \A v \in Workers \ {w} : ~OnRun(v, x)'
            BY <2>1, <3>1 DEF Busy, HasRun, OnRun
      <3>3. /\ Status(x) \in {"PROCESSING", "CANCELLED"}
            /\ \A k \in queue : k.run = x => k = job
            BY <1>0, <2>3 DEF InTurn, OneJob
      <3>4. OneJob(x)' BY <2>1, <2>2, <3>3 DEF OneJob
      <3>5. OneAtATime(x)' /\ StillAllowed(x)' BY <3>2 DEF OneAtATime, StillAllowed
      <3>6. DoneOnce(x)' BY <1>0, <2>1, <2>2 DEF InTurn, DoneOnce
      <3> QED BY <3>4, <3>5, <3>6 DEF InTurn
    <2>4. CASE x # job.run
      <3>1. ~OnRun(w, x)' BY <2>1, <2>4 DEF OnRun
      <3>2. \A v \in Workers : OnRun(v, x)' => OnRun(v, x) BY <2>1, <3>1 DEF OnRun
      <3> QED BY <1>b, <2>1, <2>2, <3>2
    <2> QED BY <2>3, <2>4
  <1>11. ASSUME NEW w \in Workers, Compute(w) PROVE InTurn(x)'
    <2> DEFINE y == worker[w].job.run
    <2>1. y \in Runs /\ OnRun(w, y) BY <1>11, HeldRuns DEF Compute, OnRun
    <2>2. /\ worker'[w] = Idle /\ \A v \in Workers \ {w} : worker'[v] = worker[v]
          /\ Save(y, "REVIEW")
          /\ UNCHANGED <<queue, req, finalized>>
          BY <1>11 DEF Compute, Computed, TypeOK
    <2>3. \A v \in Workers : OnRun(v, x)' => OnRun(v, x) BY <2>2 DEF OnRun, Idle
    <2>4. CASE x = y
      <3>1. /\ \A p \in Requests : ~HasRun(p, x)'
            /\ \A v \in Workers : ~OnRun(v, x)'
            BY <1>0, <2>1, <2>2, <2>4 DEF InTurn, OneAtATime, HasRun, OnRun
      <3>2. Status(x) \in {"PROCESSING", "CANCELLED"} BY <1>0, <2>1, <2>4 DEF InTurn, OneJob
      <3>3. \A j \in queue : j.run # x BY <1>0, <2>1, <2>4 DEF InTurn, OneJob
      <3>4. finalized'[x] = 0 BY <1>0, <2>2, <3>2 DEF InTurn, DoneOnce
      <3> QED BY <2>2, <3>1, <3>3, <3>4 DEF InTurn, OneAtATime, StillAllowed, OneJob, DoneOnce
    <2>5. CASE x # y
      <3>1. Status(x)' = Status(x) BY <2>1, <2>2, <2>5, SaveStatuses
      <3> QED BY <1>b, <2>2, <2>3, <3>1
    <2> QED BY <2>4, <2>5
  <1>12. ASSUME NEW w \in Workers, Stall(w) PROVE InTurn(x)'
    <2> DEFINE job == worker[w].job
    <2>1. worker[w] # Idle /\ worker[w] \in Computing
          BY <1>12, HeldRuns DEF Stall, Idle
    <2>2. /\ \A v \in Workers \ {w} : worker'[v] = worker[v]
          /\ worker'[w] = Idle \/ worker'[w].job = job
          BY <1>12, <2>1 DEF Stall, TypeOK, Computing
    <2>3. \A v \in Workers : OnRun(v, x)' => OnRun(v, x) BY <2>1, <2>2 DEF OnRun
    <2>4. \A j \in queue' : j.run = x => j \in queue
      <3>1. CASE job.stalls < MaxStalls
        <4>1. job.run # x BY <1>12, <3>1 DEF Stall
        <4>2. [job EXCEPT !.stalls = @ + 1].run = job.run BY <2>1 DEF Computing, Job
        <4> QED BY <1>12, <3>1, <4>1, <4>2 DEF Stall
      <3>2. CASE ~(job.stalls < MaxStalls) BY <1>12, <3>2 DEF Stall
      <3> QED BY <3>1, <3>2
    <2>5. UNCHANGED <<runs, req, finalized>> BY <1>12 DEF Stall, table
    <2>6. Status(x)' = Status(x) BY <2>5, SameStatus
    <2> QED BY <1>b, <2>3, <2>4, <2>5, <2>6
  <1>13. ASSUME NEW w \in Workers, JobFails(w) PROVE InTurn(x)'
    <2>1. /\ worker'[w] = Idle /\ \A v \in Workers \ {w} : worker'[v] = worker[v]
          /\ UNCHANGED <<runs, queue, req, finalized>>
          BY <1>13 DEF JobFails, TypeOK, table
    <2>2. \A v \in Workers : OnRun(v, x)' => OnRun(v, x) BY <2>1 DEF OnRun
    <2> QED BY <1>b, <2>1, <2>2, SameStatus
  <1>14. CASE UNCHANGED vars
         BY <1>0, <1>14, SameStatus, TurnFrame
            DEF vars, table, history, HasRun, OnRun, Finalizing
  <1> QED BY <1>1, <1>2, <1>3, <1>4, <1>5, <1>6, <1>7, <1>8, <1>9, <1>10, <1>11, <1>12, <1>13,
             <1>14 DEF Next, Server

(* For any number of requests and workers: a run that is finalized a       *)
(* second time was in two hands at once, or its job was delivered again.   *)
THEOREM FinalizedOnce == Spec => []FinalizedTwiceNeedsRace
  <1>1. Init => Turns
        BY DEF Init, Turns, InTurn, OneAtATime, StillAllowed, OneJob, DoneOnce, HasRun, OnRun
  <1>2. TypeOK /\ Turns /\ [Next]_vars => Turns' BY TurnsNext
  <1>3. Turns => FinalizedTwiceNeedsRace BY DEF Turns, InTurn, DoneOnce, FinalizedTwiceNeedsRace
  <1> QED BY <1>1, <1>2, <1>3, TypeCorrect, PTL DEF Spec
----------------------------------------------------------------------------
LEMMA AnnouncedNext == ASSUME TypeOK, Announced, [Next]_vars PROVE Announced'
  <1> SUFFICES ASSUME NEW x \in Runs, finalized'[x] > 0
               PROVE  x \in unheard' \/ journal' # {} \/ Announcing(x)'
      BY DEF Announced
  <1>1. ASSUME UNCHANGED <<finalized, journal, unheard>>,
               \A r \in Requests : req[r].pc = "emit" => req'[r] = req[r]
        PROVE  x \in unheard' \/ journal' # {} \/ Announcing(x)'
        BY <1>1 DEF Announced, Announcing
  <1>2. ASSUME NEW r \in Requests,
               \/ \E y \in Runs, op \in Calls, who \in Filters : Load(r, y, op, who)
               \/ SaveStatus(r) \/ Enqueue(r) \/ FinalizePay(r)
               \/ \E e \in Employees : FinalizeRead(r, e)
        PROVE  x \in unheard' \/ journal' # {} \/ Announcing(x)'
    <2>1. req[r] = Idle \/ req[r].pc \in {"loaded", "enqueue", "pay", "next"}
          BY <1>2 DEF Load, SaveStatus, Enqueue, FinalizePay, FinalizeRead
    <2>2. \A p \in Requests \ {r} : req'[p] = req[p]
          BY <1>2 DEF Load, SaveStatus, Enqueue, FinalizePay, FinalizeRead, TypeOK
    <2>3. UNCHANGED <<finalized, journal, unheard>>
      <3>1. CASE \E y \in Runs, op \in Calls, who \in Filters : Load(r, y, op, who)
            BY <3>1 DEF Load, table
      <3>2. CASE SaveStatus(r) \/ Enqueue(r) BY <3>2 DEF SaveStatus, Enqueue, table, history
      <3>3. CASE FinalizePay(r) BY <3>3 DEF FinalizePay, table, history
      <3>4. CASE \E e \in Employees : FinalizeRead(r, e) BY <3>4 DEF FinalizeRead, table
      <3> QED BY <1>2, <3>1, <3>2, <3>3, <3>4
    <2> QED BY <1>1, <2>1, <2>2, <2>3 DEF Idle
  <1>3. ASSUME NEW r \in Requests, FinalizeCommit(r)
        PROVE  x \in unheard' \/ journal' # {} \/ Announcing(x)'
    <2>1. /\ req'[r] = [pc |-> "emit", run |-> req[r].run]
          /\ \A p \in Requests \ {r} : req'[p] = req[p]
          /\ finalized' = [finalized EXCEPT ![req[r].run] = @ + 1]
          /\ UNCHANGED <<journal, unheard>> /\ req[r].pc # "emit"
          BY <1>3 DEF FinalizeCommit, TypeOK
    <2>2. CASE x = req[r].run BY <2>1, <2>2 DEF Announcing
    <2>3. CASE x # req[r].run BY <2>1, <2>3 DEF Announced, Announcing, TypeOK
    <2> QED BY <2>2, <2>3
  <1>4. ASSUME NEW r \in Requests, Emit(r)
        PROVE  x \in unheard' \/ journal' # {} \/ Announcing(x)'
        BY <1>4 DEF Emit, Entered
  <1>5. ASSUME NEW r \in Requests, Fail(r)
        PROVE  x \in unheard' \/ journal' # {} \/ Announcing(x)'
    <2>1. /\ \A p \in Requests \ {r} : req'[p] = req[p]
          /\ UNCHANGED <<finalized, journal>> /\ unheard \subseteq unheard'
          /\ req[r].pc = "emit" => req[r].run \in unheard'
          BY <1>5 DEF Fail, TypeOK, table
    <2> QED BY <2>1 DEF Announced, Announcing
  <1>6. ASSUME \/ \E y \in Runs : CreateRun(y)
               \/ \E e \in Employees, s \in Decisions : UpdateAdvance(e, s)
               \/ \E w \in Workers : (\E job \in queue : Take(w, job)) \/ Compute(w)
               \/ UNCHANGED vars
        PROVE  x \in unheard' \/ journal' # {} \/ Announcing(x)'
    <2>1. UNCHANGED <<finalized, journal, unheard, req>>
          BY <1>6 DEF CreateRun, UpdateAdvance, Take, Compute, vars, table, history
    <2> QED BY <1>1, <2>1
  <1>7. ASSUME NEW w \in Workers, Stall(w) \/ JobFails(w)
        PROVE  x \in unheard' \/ journal' # {} \/ Announcing(x)'
    <2>1. UNCHANGED <<finalized, journal, unheard, req>>
          BY <1>7 DEF Stall, JobFails, table
    <2> QED BY <1>1, <2>1
  <1> QED BY <1>2, <1>3, <1>4, <1>5, <1>6, <1>7 DEF Next, Server

LEMMA HeardNext == ASSUME TypeOK, Heard, [Next]_vars PROVE Heard'
  <1>1. ASSUME UNCHANGED <<finalized, journal>>,
               \A r \in Requests : req'[r].pc = "emit" => req'[r] = req[r]
        PROVE  Heard'
        BY <1>1 DEF Heard
  <1>2. ASSUME NEW r \in Requests, UNCHANGED <<finalized, journal>>, req'[r].pc # "emit",
               \A p \in Requests \ {r} : req'[p] = req[p]
        PROVE  Heard'
        BY <1>1, <1>2
  <1>3. ASSUME NEW r \in Requests,
               \/ \E y \in Runs, op \in Calls, who \in Filters : Load(r, y, op, who)
               \/ SaveStatus(r) \/ Enqueue(r)
        PROVE  Heard'
    <2>1. req'[r].pc \in {"next", "loaded", "enqueue", "idle"}
      <3>1. CASE \E y \in Runs, op \in Calls, who \in Filters : Load(r, y, op, who)
        <4> PICK y \in Runs, op \in Calls, who \in Filters : Load(r, y, op, who) BY <3>1
        <4>1. CASE op = "finalize" BY <4>1 DEF Load, TypeOK
        <4>2. CASE op # "finalize" BY <4>2 DEF Load, TypeOK
        <4> QED BY <4>1, <4>2
      <3>2. CASE SaveStatus(r)
        <4>1. req[r] \in Saving BY <3>2, SavingReq DEF SaveStatus
        <4>2. [req[r] EXCEPT !.pc = "enqueue"].pc = "enqueue" BY <4>1 DEF Saving
        <4> QED BY <3>2, <4>2 DEF SaveStatus, Idle, TypeOK
      <3>3. CASE Enqueue(r) BY <3>3 DEF Enqueue, Idle, TypeOK
      <3> QED BY <1>3, <3>1, <3>2, <3>3
    <2>2. UNCHANGED <<finalized, journal>> /\ \A p \in Requests \ {r} : req'[p] = req[p]
          BY <1>3 DEF Load, SaveStatus, Enqueue, table, history, TypeOK
    <2> QED BY <1>2, <2>1, <2>2
  <1>4. ASSUME NEW r \in Requests,
               FinalizePay(r) \/ \E e \in Employees : FinalizeRead(r, e)
        PROVE  Heard'
    <2>1. Finalizing(r)
          BY <1>4 DEF FinalizePay, FinalizeRead, Finalizing
    <2>2. req[r] \in Transaction BY <2>1, FinalizingReq
    <2>3. req'[r].pc \in {"next", "pay"}
      <3>1. ASSUME NEW e \in Employees, FinalizeRead(r, e) PROVE req'[r].pc = "pay"
        <4> PICK q : q = req[r] OBVIOUS
        <4> DEFINE found == {l \in Loans : Borrower[l] = e /\ View(q, l).status = "ACTIVE"}
                   rows == [l \in Loans |-> IF l \in found THEN View(q, l) ELSE NoRow]
        <4>1. rows \in LoanRows /\ found \in SUBSET Loans
          <5>1. \A l \in found : View(q, l) \in LoanRow BY <2>2, ViewRow DEF TypeOK
          <5>2. found \in SUBSET Loans OBVIOUS
          <5> HIDE DEF found
          <5> QED BY <5>1, <5>2 DEF LoanRows
        <4>2. q.todo[e] > 0 BY <3>1 DEF FinalizeRead
        <4>3. req' = [req EXCEPT ![r] = AfterRead(q, e, found, rows)]
              BY <3>1 DEF FinalizeRead, AfterRead
        <4> HIDE DEF found, rows
        <4>4. AfterRead(q, e, found, rows).pc = "pay" BY <2>2, <4>1, <4>2, ReadRequest
        <4> QED BY <4>3, <4>4 DEF TypeOK
      <3>2. ASSUME FinalizePay(r) PROVE req'[r].pc = "next"
        <4> PICK q : q = req[r] OBVIOUS
        <4> DEFINE W == [l \in Loans |-> IF l \in Held(q.rows) THEN Repaid(l, q.rows[l])
                                                              ELSE q.wrote[l]]
                   m == [l \in Loans |-> IF l \in Held(q.rows) THEN q.made[l] + 1 ELSE q.made[l]]
        <4>1. q.rows \in LoanRows /\ q.wrote \in LoanRows BY <2>2 DEF Transaction
        <4>2. \A l \in Loans : W[l] \in LoanRow \cup {NoRow}
              BY <4>1, RowsHave, RepaidRow DEF LoanRows
        <4>3. W \in LoanRows BY <4>2 DEF LoanRows
        <4>4. m \in [Loans -> Nat] BY <2>2 DEF Transaction
        <4>5. req' = [req EXCEPT ![r] = AfterPay(q, W, m)] BY <3>2 DEF FinalizePay, AfterPay
        <4> HIDE DEF W, m
        <4>6. AfterPay(q, W, m).pc = "next" BY <2>2, <4>3, <4>4, PaidRequest
        <4> QED BY <4>5, <4>6 DEF TypeOK
      <3> QED BY <1>4, <3>1, <3>2
    <2>4. UNCHANGED <<finalized, journal>> /\ \A p \in Requests \ {r} : req'[p] = req[p]
          BY <1>4 DEF FinalizePay, FinalizeRead, table, history, TypeOK
    <2> QED BY <1>2, <2>3, <2>4
  <1>5. ASSUME NEW r \in Requests, FinalizeCommit(r) PROVE Heard'
    <2>1. /\ req'[r] = [pc |-> "emit", run |-> req[r].run]
          /\ \A p \in Requests \ {r} : req'[p] = req[p]
          /\ finalized' = [finalized EXCEPT ![req[r].run] = @ + 1]
          /\ journal' = journal
          BY <1>5 DEF FinalizeCommit, TypeOK
    <2>2. req[r].run \in Runs BY <1>5, FinalizingReq DEF FinalizeCommit, Finalizing
    <2>3. \A y \in Runs : finalized[y] \in Nat BY DEF TypeOK
    <2>4. /\ finalized'[req[r].run] > 0
          /\ \A y \in Runs : finalized[y] > 0 => finalized'[y] > 0
          BY <2>1, <2>2, <2>3 DEF TypeOK
    <2>5. journal \subseteq Runs BY DEF TypeOK
    <2>6. \A p \in Requests : req[p].pc = "emit" => req[p].run \in Runs
          BY HeldRuns, PcHolds DEF HasRun
    <2> QED BY <2>1, <2>4, <2>5, <2>6 DEF Heard
  <1>6. ASSUME NEW r \in Requests, Emit(r) PROVE Heard'
    <2>1. /\ req[r].pc = "emit" /\ req'[r] = Idle /\ finalized' = finalized
          /\ \A p \in Requests \ {r} : req'[p] = req[p]
          /\ journal' \subseteq journal \cup {req[r].run}
          BY <1>6 DEF Emit, Entered, history, TypeOK
    <2> QED BY <2>1 DEF Heard, Idle
  <1>7. ASSUME NEW r \in Requests, Fail(r) PROVE Heard'
    <2>1. /\ UNCHANGED <<finalized, journal>> /\ req'[r] = Idle
          /\ \A p \in Requests \ {r} : req'[p] = req[p]
          BY <1>7 DEF Fail, table, TypeOK
    <2> QED BY <1>2, <2>1 DEF Idle
  <1>8. ASSUME \/ \E y \in Runs : CreateRun(y)
               \/ \E e \in Employees, s \in Decisions : UpdateAdvance(e, s)
               \/ \E w \in Workers :
                     (\E job \in queue : Take(w, job)) \/ Compute(w) \/ Stall(w) \/ JobFails(w)
               \/ UNCHANGED vars
        PROVE  Heard'
    <2>1. UNCHANGED <<finalized, journal, req>>
      <3>1. CASE UNCHANGED vars \/ \E y \in Runs : CreateRun(y)
            BY <3>1 DEF CreateRun, vars, table, history
      <3>2. CASE \E e \in Employees, s \in Decisions : UpdateAdvance(e, s)
            BY <3>2 DEF UpdateAdvance
      <3>3. ASSUME NEW w \in Workers,
                   (\E job \in queue : Take(w, job)) \/ Compute(w) \/ Stall(w) \/ JobFails(w)
            PROVE  UNCHANGED <<finalized, journal, req>>
            BY <3>3 DEF Take, Compute, Stall, JobFails, table
      <3> QED BY <1>8, <3>1, <3>2, <3>3
    <2> QED BY <1>1, <2>1
  <1> QED BY <1>3, <1>4, <1>5, <1>6, <1>7, <1>8 DEF Next, Server

(* A finalized run whose requests are over is in the ledger, or its event  *)
(* got lost, or another finalized run of the period took the entry number. *)
THEOREM FinalizedIsJournalled == Spec => []ProcessedIsJournalled
  <1>1. Init => Announced /\ Heard BY DEF Init, Announced, Heard, Idle
  <1>2. TypeOK /\ Announced /\ [Next]_vars => Announced' BY AnnouncedNext
  <1>3. TypeOK /\ Heard /\ [Next]_vars => Heard' BY HeardNext
  <1>4. Announced /\ Heard => ProcessedIsJournalled
    <2> SUFFICES ASSUME Announced, Heard, \A r \in Requests : req[r] = Idle,
                        NEW x \in Runs, finalized[x] > 0
                 PROVE  \/ x \in journal \cup unheard
                        \/ \E y \in journal \ {x} : finalized[y] > 0
        BY DEF ProcessedIsJournalled
    <2>1. ~Announcing(x) BY DEF Announcing, Idle
    <2> QED BY <2>1 DEF Announced, Heard
  <1> QED BY <1>1, <1>2, <1>3, <1>4, TypeCorrect, PTL DEF Spec
----------------------------------------------------------------------------
LEMMA WithheldNext ==
    ASSUME TypeOK, WithheldInTime, [Next]_vars
    PROVE  WithheldInTime'
  <1>1. ASSUME UNCHANGED <<advances, slips, withheld, late, byHand>>,
               \A w \in Workers : worker'[w] = Idle \/ worker'[w] = worker[w]
                  \/ /\ worker[w] # Idle /\ worker'[w].job = worker[w].job
                     /\ worker'[w].withhold = worker[w].withhold
        PROVE  WithheldInTime'
        BY <1>1 DEF WithheldInTime, InTime
  <1>2. ASSUME \/ \E x \in Runs : CreateRun(x)
               \/ \E r \in Requests :
                     \/ \E x \in Runs, op \in Calls, who \in Filters : Load(r, x, op, who)
                     \/ SaveStatus(r) \/ Enqueue(r) \/ FinalizePay(r) \/ Emit(r) \/ Fail(r)
                     \/ \E e \in Employees : FinalizeRead(r, e)
               \/ UNCHANGED vars
        PROVE  WithheldInTime'
    <2>1. ASSUME UNCHANGED <<advances, slips, withheld, late, byHand, worker>> PROVE WithheldInTime'
          BY <1>1, <2>1
    <2>2. CASE UNCHANGED vars \/ \E x \in Runs : CreateRun(x)
          BY <2>1, <2>2 DEF CreateRun, vars, table, history
    <2>3. ASSUME NEW r \in Requests,
                 NEW x \in Runs, NEW op \in Calls, NEW who \in Filters, Load(r, x, op, who)
          PROVE  WithheldInTime'
          BY <2>1, <2>3 DEF Load, table
    <2>4. ASSUME NEW r \in Requests, SaveStatus(r) PROVE WithheldInTime'
          BY <2>1, <2>4 DEF SaveStatus
    <2>5. ASSUME NEW r \in Requests, Enqueue(r) \/ Emit(r) \/ Fail(r) PROVE WithheldInTime'
          BY <2>1, <2>5 DEF Enqueue, Emit, Fail, table, history
    <2>6. ASSUME NEW r \in Requests, FinalizePay(r) PROVE WithheldInTime'
          BY <2>1, <2>6 DEF FinalizePay, table, history
    <2>7. ASSUME NEW r \in Requests, NEW e \in Employees, FinalizeRead(r, e)
          PROVE  WithheldInTime'
          BY <2>1, <2>7 DEF FinalizeRead, table
    <2> QED BY <1>2, <2>2, <2>3, <2>4, <2>5, <2>6, <2>7
  <1>3. ASSUME NEW r \in Requests, FinalizeCommit(r) PROVE WithheldInTime'
    <2>1. req[r].run \in Runs BY <1>3, FinalizingReq DEF FinalizeCommit, Finalizing
    <2>2. /\ slips[req[r].run] = req[r].slips
          /\ advances' = [e \in Employees |-> IF req[r].slips[e] > 0 /\ Deductible(advances[e])
                                              THEN "DEDUCTED" ELSE advances[e]]
          /\ UNCHANGED <<slips, withheld, late, byHand, worker>>
          BY <1>3 DEF FinalizeCommit
    <2>3. ASSUME NEW e \in Employees PROVE InTime(e)'
      <3>1. InTime(e) BY DEF WithheldInTime
      <3>2. CASE req[r].slips[e] > 0 /\ Deductible(advances[e])
        <4>1. e \in withheld \cup late BY <2>1, <2>2, <3>1, <3>2 DEF Deductible, InTime
        <4> QED BY <2>2, <3>2, <4>1 DEF InTime
      <3>3. CASE ~(req[r].slips[e] > 0 /\ Deductible(advances[e]))
        <4>1. advances'[e] = advances[e] BY <2>2, <3>3
        <4> QED BY <2>2, <3>1, <4>1 DEF InTime
      <3> QED BY <3>2, <3>3
    <2> QED BY <2>3 DEF WithheldInTime
  <1>4. ASSUME NEW a \in Employees, NEW s \in Decisions, UpdateAdvance(a, s)
        PROVE  WithheldInTime'
    <2>1. /\ UNCHANGED <<slips, withheld, worker>> /\ late \subseteq late'
          /\ advances'[a] = s /\ \A e \in Employees \ {a} : advances'[e] = advances[e]
          /\ s = "APPROVED" /\ Reckoned(a) => a \in late'
          BY <1>4 DEF UpdateAdvance, TypeOK
    <2>2. /\ \A e \in Employees \ {a} : e \in byHand => e \in byHand'
          /\ s = "DEDUCTED" => a \in byHand'
          BY <1>4 DEF UpdateAdvance
    <2> QED BY <2>1, <2>2 DEF WithheldInTime, InTime, Reckoned
  <1>5. ASSUME NEW w \in Workers, NEW job \in queue, Take(w, job) PROVE WithheldInTime'
    <2>1. /\ \A v \in Workers \ {w} : worker'[v] = worker[v]
          /\ worker'[w].job = job
          /\ worker'[w].withhold = {e \in job.who : advances[e] = "APPROVED"}
          /\ UNCHANGED <<advances, slips, withheld, late, byHand>>
          BY <1>5 DEF Take, TypeOK, table
    <2> QED BY <2>1 DEF WithheldInTime, InTime
  <1>6. ASSUME NEW w \in Workers, Compute(w) PROVE WithheldInTime'
    <2> DEFINE job == worker[w].job
    <2>1. /\ worker[w] # Idle /\ worker'[w] = Idle
          /\ \A v \in Workers \ {w} : worker'[v] = worker[v]
          /\ withheld' = withheld \cup worker[w].withhold
          /\ UNCHANGED <<advances, late, byHand>>
          BY <1>6 DEF Compute, TypeOK
    <2>2. ASSUME NEW x \in Runs, NEW e \in Employees, slips'[x][e] > 0
          PROVE  slips[x][e] > 0 \/ e \in job.who
          BY <1>6, <2>2 DEF Compute, TypeOK
    <2> QED BY <2>1, <2>2 DEF WithheldInTime, InTime
  <1>7. ASSUME NEW w \in Workers, Stall(w) \/ JobFails(w) PROVE WithheldInTime'
    <2>1. worker[w] \in Computing /\ worker[w] # Idle
          BY <1>7, HeldRuns DEF Stall, JobFails, Idle
    <2>2. UNCHANGED <<advances, slips, withheld, late, byHand>>
          BY <1>7 DEF Stall, JobFails, table
    <2>3. /\ \A v \in Workers \ {w} : worker'[v] = worker[v]
          /\ \/ worker'[w] = Idle
             \/ /\ worker'[w].job = worker[w].job
                /\ worker'[w].withhold = worker[w].withhold
          BY <1>7, <2>1 DEF Stall, JobFails, TypeOK, Computing
    <2> QED BY <1>1, <2>1, <2>2, <2>3
  <1> QED BY <1>2, <1>3, <1>4, <1>5, <1>6, <1>7 DEF Next, Server

(* An advance is DEDUCTED only if a payslip withheld it, if it was         *)
(* approved too late for the payslips, or by a user's last decision.       *)
THEOREM DeductionsAreExplained == Spec => []DeductedWasWithheld
  <1>1. Init => WithheldInTime
        BY DEF Init, WithheldInTime, InTime
  <1>2. TypeOK /\ WithheldInTime /\ [Next]_vars => WithheldInTime' BY WithheldNext
  <1>3. WithheldInTime => DeductedWasWithheld BY DEF WithheldInTime, InTime, DeductedWasWithheld
  <1> QED BY <1>1, <1>2, <1>3, TypeCorrect, PTL DEF Spec
----------------------------------------------------------------------------
(* The repayments of loan l, over all runs.                                *)
RepaidIn(l) == [x \in Runs |-> repayments[x][l]]

(* What the transaction of request r has in memory of loan l: nothing it   *)
(* has not read, and what it saved is the balance with its repayments.     *)
Keeps(r, l) ==
    /\ l \notin req[r].read => l \notin Held(req[r].rows) /\ l \notin Held(req[r].wrote)
    /\ l \notin Held(req[r].wrote) => req[r].made[l] = 0
    /\ l \in Held(req[r].wrote) =>
          req[r].wrote[l].repaid = loans[l].repaid + Monthly[l] * req[r].made[l]
    /\ l \in Held(req[r].rows) => req[r].rows[l].repaid = View(req[r], l).repaid

(* A loan nobody shares is read by one transaction at a time.              *)
ReadOnce(l) ==
    \A r, p \in Requests :
        r # p /\ Finalizing(r) /\ Finalizing(p) => l \notin req[r].read \/ l \notin req[p].read

InKeeping(l) ==
    /\ loans[l].repaid = Monthly[l] * Sum(RepaidIn(l), Runs)
    /\ ReadOnce(l)
    /\ \A r \in Requests : Finalizing(r) => Keeps(r, l)

Keeping == \A l \in Loans \ shared : InKeeping(l)

(* A step that changes neither a balance nor a transaction.                *)
LEMMA KeepingFrame ==
    ASSUME Keeping, UNCHANGED <<loans, repayments>>, shared \subseteq shared',
           \A r \in Requests : Finalizing(r)' => Finalizing(r) /\ req'[r] = req[r]
    PROVE  Keeping'
  <1> SUFFICES ASSUME NEW l \in Loans, l \notin shared PROVE InKeeping(l)'
      BY DEF Keeping
  <1>1. InKeeping(l) BY DEF Keeping
  <1>2. loans'[l].repaid = Monthly[l] * Sum(RepaidIn(l), Runs)' BY <1>1 DEF InKeeping, RepaidIn
  <1>3. ReadOnce(l)' BY <1>1 DEF InKeeping, ReadOnce
  <1>4. ASSUME NEW r \in Requests, Finalizing(r)' PROVE Keeps(r, l)'
        BY <1>1, <1>4 DEF InKeeping, Keeps, View
  <1> QED BY <1>2, <1>3, <1>4 DEF InKeeping

LEMMA KeepingInit == Init => Keeping
  <1> SUFFICES ASSUME Init, NEW l \in Loans PROVE InKeeping(l)
      BY DEF Keeping
  <1>1. \A x \in Runs : RepaidIn(l)[x] = 0 BY DEF Init, RepaidIn
  <1>2. Sum(RepaidIn(l), Runs) = 0 BY <1>1, SumZero, PayrollAssumption
  <1>3. loans[l].repaid = 0 /\ Monthly[l] \in Nat BY PayrollAssumption DEF Init
  <1>4. \A r \in Requests : ~Finalizing(r) BY DEF Init, Finalizing, Idle
  <1> QED BY <1>2, <1>3, <1>4 DEF InKeeping, ReadOnce

LEMMA KeepingNext == ASSUME TypeOK, Keeping, [Next]_vars PROVE Keeping'
  <1>1. ASSUME NEW r \in Requests, NEW x \in Runs, NEW op \in Calls, NEW who \in Filters,
               Load(r, x, op, who)
        PROVE  Keeping'
    <2>1. /\ \A p \in Requests \ {r} : req'[p] = req[p]
          /\ UNCHANGED <<loans, repayments, shared>>
          BY <1>1 DEF Load, TypeOK, table
    <2>2. Finalizing(r)' => /\ req'[r].read = {} /\ req'[r].rows = NoRows
                            /\ req'[r].wrote = NoRows
                            /\ req'[r].made = [l \in Loans |-> 0]
          BY <1>1 DEF Load, TypeOK, Finalizing
    <2> SUFFICES ASSUME NEW l \in Loans \ shared PROVE InKeeping(l)'
        BY <2>1 DEF Keeping
    <2>3. InKeeping(l) BY DEF Keeping
    <2>4. Finalizing(r)' => Keeps(r, l)' BY <2>2, NoRowsOK DEF Keeps
    <2>5. \A p \in Requests \ {r} : Finalizing(p)' => Keeps(p, l)'
          BY <2>1, <2>3 DEF InKeeping, Keeps, Finalizing, View
    <2>6. ReadOnce(l)' BY <2>1, <2>2, <2>3 DEF InKeeping, ReadOnce, Finalizing
    <2>7. RepaidIn(l)' = RepaidIn(l) BY <2>1 DEF RepaidIn
    <2> QED BY <2>1, <2>3, <2>4, <2>5, <2>6, <2>7 DEF InKeeping
  <1>2. ASSUME NEW r \in Requests, NEW e \in Employees, FinalizeRead(r, e) PROVE Keeping'
    <2> DEFINE q == req[r]
               found == {l \in Loans : Borrower[l] = e /\ View(q, l).status = "ACTIVE"}
    <2>1. Finalizing(r) /\ q \in Transaction
          BY <1>2, FinalizingReq DEF FinalizeRead, Finalizing
    <2>2. /\ \A p \in Requests \ {r} : req'[p] = req[p]
          /\ UNCHANGED <<loans, repayments>> /\ shared \subseteq shared'
          /\ \A l \in found, p \in Requests \ {r} :
                Finalizing(p) /\ l \in req[p].read => l \in shared'
          BY <1>2 DEF FinalizeRead, TypeOK, table
    <2>3. /\ req'[r].read = q.read \cup found
          /\ req'[r].rows = [l \in Loans |-> IF l \in found THEN View(q, l) ELSE NoRow]
          /\ req'[r].wrote = q.wrote /\ req'[r].made = q.made
          BY <1>2, <2>1 DEF FinalizeRead, TypeOK, Transaction
    <2> HIDE DEF found
    <2> SUFFICES ASSUME NEW l \in Loans \ shared' PROVE InKeeping(l)'
        BY DEF Keeping
    <2>4. InKeeping(l) /\ Keeps(r, l) BY <2>1, <2>2 DEF Keeping, InKeeping
    <2>5. View(req[r], l)' = View(req[r], l) BY <2>2, <2>3 DEF View
    <2>6. l \in Held(req'[r].rows) => l \in found /\ req'[r].rows[l] = View(q, l)
          BY <2>3 DEF Held
    <2>7. Keeps(r, l)' BY <2>2, <2>3, <2>4, <2>5, <2>6 DEF Keeps
    <2>8. \A p \in Requests \ {r} : Finalizing(p)' => Keeps(p, l)'
          BY <2>2, <2>4 DEF InKeeping, Keeps, Finalizing, View
    <2>9. ReadOnce(l)' BY <2>1, <2>2, <2>3, <2>4 DEF InKeeping, ReadOnce, Finalizing
    <2>10. RepaidIn(l)' = RepaidIn(l) BY <2>2 DEF RepaidIn
    <2> QED BY <2>2, <2>4, <2>7, <2>8, <2>9, <2>10 DEF InKeeping
  <1>3. ASSUME NEW r \in Requests, FinalizePay(r) PROVE Keeping'
    <2> DEFINE q == req[r]
    <2>1. Finalizing(r) /\ q \in Transaction
          BY <1>3, FinalizingReq DEF FinalizePay, Finalizing
    <2>2. /\ \A p \in Requests \ {r} : req'[p] = req[p]
          /\ UNCHANGED <<loans, repayments, shared>>
          BY <1>3 DEF FinalizePay, TypeOK, table, history
    <2>3. /\ req'[r].read = q.read /\ req'[r].rows = NoRows
          /\ req'[r].wrote = [l \in Loans |-> IF l \in Held(q.rows) THEN Repaid(l, q.rows[l])
                                                                   ELSE q.wrote[l]]
          /\ req'[r].made = [l \in Loans |-> IF l \in Held(q.rows) THEN q.made[l] + 1
                                                                  ELSE q.made[l]]
          BY <1>3, <2>1 DEF FinalizePay, TypeOK, Transaction
    <2> SUFFICES ASSUME NEW l \in Loans \ shared PROVE InKeeping(l)'
        BY <2>2 DEF Keeping
    <2>4. InKeeping(l) /\ Keeps(r, l) BY <2>1 DEF Keeping, InKeeping
    <2>5. /\ q.rows \in LoanRows /\ q.wrote \in LoanRows /\ q.made \in [Loans -> Nat]
          /\ loans[l] \in LoanRow /\ Monthly[l] \in Nat
          BY <2>1, PayrollAssumption DEF Transaction, TypeOK
    <2>6. ASSUME l \in Held(q.rows) PROVE Keeps(r, l)'
      <3>1. /\ q.rows[l] \in LoanRow /\ Repaid(l, q.rows[l]) \in LoanRow
            /\ Repaid(l, q.rows[l]).repaid = q.rows[l].repaid + Monthly[l]
            BY <2>5, <2>6, RowsHave, RepaidRow DEF Repaid
      <3>2. req'[r].wrote[l] = Repaid(l, q.rows[l]) /\ l \in Held(req'[r].wrote)
            BY <2>3, <2>6, <3>1 DEF Held, LoanRow, NoRow
      <3>3. q.rows[l].repaid = loans[l].repaid + Monthly[l] * q.made[l]
        <4>1. q.rows[l].repaid = View(q, l).repaid BY <2>4, <2>6 DEF Keeps
        <4>2. CASE l \in Held(q.wrote) BY <2>4, <4>1, <4>2 DEF Keeps, View
        <4>3. CASE l \notin Held(q.wrote)
              BY <2>4, <2>5, <4>1, <4>3 DEF Keeps, View, LoanRow
        <4> QED BY <4>2, <4>3
      <3>4. req'[r].made[l] = q.made[l] + 1 /\ q.made[l] \in Nat BY <2>3, <2>5, <2>6
      <3>5. Monthly[l] * (q.made[l] + 1) = Monthly[l] * q.made[l] + Monthly[l]
            BY <2>5, <3>4
      <3>6. req'[r].wrote[l].repaid = loans[l].repaid + Monthly[l] * req'[r].made[l]
            BY <2>5, <3>1, <3>2, <3>3, <3>4, <3>5 DEF LoanRow
      <3>7. l \in q.read BY <2>4, <2>6 DEF Keeps
      <3>8. l \notin Held(req'[r].rows) BY <2>3, NoRowsOK
      <3> QED BY <2>2, <2>3, <3>2, <3>6, <3>7, <3>8 DEF Keeps
    <2>7. ASSUME l \notin Held(q.rows) PROVE Keeps(r, l)'
      <3>1. /\ req'[r].wrote[l] = q.wrote[l] /\ req'[r].made[l] = q.made[l]
            /\ l \in Held(req'[r].wrote) <=> l \in Held(q.wrote)
            BY <2>3, <2>7 DEF Held
      <3>2. l \notin Held(req'[r].rows) BY <2>3, NoRowsOK
      <3> QED BY <2>2, <2>3, <2>4, <3>1, <3>2 DEF Keeps
    <2>8. \A p \in Requests \ {r} : Finalizing(p)' => Keeps(p, l)'
          BY <2>2, <2>4 DEF InKeeping, Keeps, Finalizing, View
    <2>9. ReadOnce(l)' BY <2>1, <2>2, <2>3, <2>4 DEF InKeeping, ReadOnce, Finalizing
    <2>10. RepaidIn(l)' = RepaidIn(l) BY <2>2 DEF RepaidIn
    <2> QED BY <2>2, <2>4, <2>6, <2>7, <2>8, <2>9, <2>10 DEF InKeeping
  <1>4. ASSUME NEW r \in Requests, FinalizeCommit(r) PROVE Keeping'
    <2> DEFINE q == req[r]
    <2>1. Finalizing(r) /\ q \in Transaction /\ q.run \in Runs
          BY <1>4, FinalizingReq DEF FinalizeCommit, Finalizing
    <2>2. /\ \A p \in Requests \ {r} : req'[p] = req[p]
          /\ ~Finalizing(r)' /\ UNCHANGED shared
          BY <1>4 DEF FinalizeCommit, TypeOK, Finalizing
    <2>3. /\ loans' = [l \in Loans |-> View(q, l)]
          /\ repayments' = [repayments EXCEPT ![q.run] = [l \in Loans |-> @[l] + q.made[l]]]
          BY <1>4 DEF FinalizeCommit
    <2> SUFFICES ASSUME NEW l \in Loans \ shared PROVE InKeeping(l)'
        BY <2>2 DEF Keeping
    <2>4. InKeeping(l) /\ Keeps(r, l) BY <2>1 DEF Keeping, InKeeping
    <2>5. /\ q.made[l] \in Nat /\ q.wrote \in LoanRows /\ Monthly[l] \in Nat
          /\ loans[l].repaid \in Nat
          BY <2>1, PayrollAssumption DEF Transaction, TypeOK, LoanRow
    <2>6. loans'[l] = View(q, l) BY <2>3
    <2>7. loans'[l].repaid = loans[l].repaid + Monthly[l] * q.made[l]
      <3>1. CASE l \in Held(q.wrote) BY <2>4, <2>6, <3>1 DEF Keeps, View
      <3>2. CASE l \notin Held(q.wrote)
        <4>1. loans'[l] = loans[l] /\ q.made[l] = 0 BY <2>4, <2>6, <3>2 DEF Keeps, View
        <4> HIDE DEF q
        <4> QED BY <2>5, <4>1
      <3> QED BY <3>1, <3>2
    <2>8. Sum(RepaidIn(l)', Runs) = Sum(RepaidIn(l), Runs) + q.made[l]
      <3> DEFINE f == RepaidIn(l)
                 h == RepaidIn(l)'
      <3>1. \A x \in Runs : f[x] = repayments[x][l] /\ f[x] \in Int
            BY DEF RepaidIn, TypeOK
      <3>2. \A x \in Runs : h[x] = repayments'[x][l] BY DEF RepaidIn
      <3>3. repayments'[q.run][l] = repayments[q.run][l] + q.made[l] BY <2>1, <2>3 DEF TypeOK
      <3>4. \A x \in Runs \ {q.run} : repayments'[x] = repayments[x] BY <2>3 DEF TypeOK
      <3>5. h[q.run] \in Int /\ h[q.run] - f[q.run] = q.made[l]
            BY <2>1, <2>5, <3>1, <3>2, <3>3
      <3>6. \A x \in Runs \ {q.run} : h[x] = f[x] BY <3>1, <3>2, <3>4
      <3> HIDE DEF f, h
      <3>7. Sum(h, Runs) = Sum(f, Runs) + (h[q.run] - f[q.run])
            BY <2>1, <3>1, <3>5, <3>6, SumChange, PayrollAssumption
      <3> QED BY <3>5, <3>7 DEF f, h
    <2>9. loans'[l].repaid = Monthly[l] * Sum(RepaidIn(l)', Runs)
      <3>1. \A x \in Runs : RepaidIn(l)[x] \in Int BY DEF RepaidIn, TypeOK
      <3>2. Sum(RepaidIn(l), Runs) \in Int BY <3>1, SumInt, PayrollAssumption
      <3>3. Monthly[l] * (Sum(RepaidIn(l), Runs) + q.made[l])
              = Monthly[l] * Sum(RepaidIn(l), Runs) + Monthly[l] * q.made[l]
            BY <2>5, <3>2
      <3> QED BY <2>4, <2>7, <2>8, <3>3 DEF InKeeping
    <2>10. ASSUME NEW p \in Requests, Finalizing(p)' PROVE Keeps(p, l)'
      <3>1. p # r /\ req'[p] = req[p] /\ Finalizing(p) BY <2>2, <2>10 DEF Finalizing
      <3>2. Keeps(p, l) BY <2>4, <3>1 DEF InKeeping
      <3>3. CASE l \in q.read
        <4>1. l \notin req[p].read BY <2>1, <2>4, <3>1, <3>3 DEF InKeeping, ReadOnce
        <4> QED BY <3>1, <3>2, <4>1 DEF Keeps
      <3>4. CASE l \notin q.read
        <4>1. loans'[l] = loans[l] BY <2>4, <2>6, <3>4 DEF Keeps, View
        <4>2. View(req[p], l)' = View(req[p], l) BY <3>1, <4>1 DEF View
        <4> QED BY <3>1, <3>2, <4>1, <4>2 DEF Keeps
      <3> QED BY <3>3, <3>4
    <2>11. ReadOnce(l)' BY <2>2, <2>4 DEF InKeeping, ReadOnce, Finalizing
    <2> QED BY <2>9, <2>10, <2>11 DEF InKeeping
  <1>5. ASSUME NEW r \in Requests, SaveStatus(r) \/ Enqueue(r) \/ Emit(r) \/ Fail(r)
        PROVE  Keeping'
    <2>1. /\ \A p \in Requests \ {r} : req'[p] = req[p]
          /\ ~Finalizing(r)'
          BY <1>5, SavingReq DEF SaveStatus, Enqueue, Emit, Fail, TypeOK, Finalizing, Idle, Saving
    <2>2. UNCHANGED <<loans, repayments, shared>>
          BY <1>5 DEF SaveStatus, Enqueue, Emit, Fail, table, history
    <2> QED BY <2>1, <2>2, KeepingFrame DEF Finalizing
  <1>6. ASSUME \/ \E x \in Runs : CreateRun(x)
               \/ \E e \in Employees, s \in Decisions : UpdateAdvance(e, s)
               \/ \E w \in Workers :
                     (\E job \in queue : Take(w, job)) \/ Compute(w) \/ Stall(w) \/ JobFails(w)
               \/ UNCHANGED vars
        PROVE  Keeping'
    <2>1. UNCHANGED <<loans, repayments, shared, req>>
          BY <1>6 DEF CreateRun, UpdateAdvance, Take, Compute, Stall, JobFails, vars, table, history
    <2> QED BY <2>1, KeepingFrame DEF Finalizing
  <1> QED BY <1>1, <1>2, <1>3, <1>4, <1>5, <1>6 DEF Next, Server

(* The balance of a loan is the sum of its repayment rows over all runs,   *)
(* unless two finalizations read the loan at the same time.                *)
THEOREM BalancesAreRepayments == Spec => []BalanceIsRepayments
  <1>1. TypeOK /\ Keeping /\ [Next]_vars => Keeping' BY KeepingNext
  <1>2. Keeping => BalanceIsRepayments
        BY DEF Keeping, InKeeping, RepaidIn, Taken, BalanceIsRepayments
  <1> QED BY <1>1, <1>2, KeepingInit, TypeCorrect, PTL DEF Spec

(* Repayments stop with the instalment that pays the loan off: the balance *)
(* with any number of payslips and of concurrent finalizations, and what   *)
(* the repayment rows take unless two finalizations shared the loan.       *)
THEOREM LoansStop == Spec => []RepaymentStops
  <1>1. Instalments /\ BalanceIsRepayments => RepaymentStops
    <2> SUFFICES ASSUME Instalments, BalanceIsRepayments, NEW l \in Loans
                 PROVE  /\ loans[l].repaid > Monthly[l] =>
                              loans[l].repaid < Principal[l] + Monthly[l]
                        /\ l \notin shared /\ Taken(l) > Monthly[l] =>
                              Taken(l) < Principal[l] + Monthly[l]
        BY DEF RepaymentStops
    <2>1. loans[l].repaid > Monthly[l] => loans[l].repaid < Principal[l] + Monthly[l]
          BY DEF Instalments, Bounded
    <2>2. l \notin shared => loans[l].repaid = Taken(l)
          BY DEF BalanceIsRepayments
    <2> QED BY <2>1, <2>2
  <1> QED BY InstalmentsHold, BalancesAreRepayments, <1>1, PTL
=============================================================================

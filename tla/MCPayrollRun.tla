---------------------------- MODULE MCPayrollRun ----------------------------
(* Small instances of PayrollRun for TLC.                                  *)
EXTENDS PayrollRun, TLC

CONSTANTS regular, offcycle, ann, loan, r1, r2, w1, w2

MCRuns == {regular, offcycle}
MCOffCycle == {offcycle}
OneRun == {regular}
MCEmployees == {ann}
MCFilters == {{ann}}
MCLoans == {loan}
MCBorrower == [l \in MCLoans |-> ann]
MCPrincipal == [l \in MCLoans |-> 2]
MCMonthly == [l \in MCLoans |-> 1]
MCRequests == {r1, r2}
MCWorkers == {w1, w2}
OneWorker == {w1}
OneRequest == {r1}
RequestSymmetry == Permutations(MCRequests) \cup Permutations(MCWorkers)
=============================================================================

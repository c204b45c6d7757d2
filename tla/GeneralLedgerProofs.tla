------------------------ MODULE GeneralLedgerProofs ------------------------
(* Proofs about GeneralLedger, for any journals, accounts and requests.    *)
EXTENDS GeneralLedger, SumsProofs

USE LedgerAssumption

(* What a request in flight is, by its program counter.                    *)
LEMMA RequestShape ==
    ASSUME TypeOK, NEW r \in Requests
    PROVE  /\ req[r].pc \in {"idle", "loaded", "saving"}
           /\ req[r].pc = "idle" => req[r] = Idle
           /\ req[r].pc = "loaded" => req[r] \in InFlight
           /\ req[r].pc = "saving" => req[r] \in Saving
  BY DEF TypeOK, Idle, InFlight, Saving

(* The rows stay rows after one is saved.                                  *)
LEMMA SavedType ==
    ASSUME TypeOK, NEW j \in Journals, NEW row \in Rows
    PROVE  /\ DOMAIN Saved(j, row) = DOMAIN journals \cup {j}
           /\ Saved(j, row) \in [DOMAIN Saved(j, row) -> Rows]
           /\ Saved(j, row)[j] = row
           /\ \A k \in DOMAIN journals \ {j} : Saved(j, row)[k] = journals[k]
  BY DEF TypeOK, Saved

(* A posting keeps the balances integers.                                  *)
LEMMA NewBalancesType ==
    ASSUME TypeOK, NEW e \in Contents, NEW F, NEW R \in [Accounts -> AccountRow],
           NEW x \in Rates, NEW y \in Rates
    PROVE  NewBalances(e, F, R, x, y) \in [Accounts -> Int]
<1>1. x \in Int /\ y \in Int /\ e.debit \in Int /\ e.credit \in Int
  BY DEF Contents
<1>2. ASSUME NEW amount \in Int, NEW rate \in Int, NEW a \in Accounts
      PROVE  Converted(amount, e, R[a], rate) \in Int
  <2>1. amount * rate \in Int
    BY <1>2
  <2> QED BY <1>2, <2>1 DEF Converted
<1>3. ASSUME NEW a \in Accounts PROVE Adjustment(a, e, R[a], x, y) \in Int
  <2> DEFINE dr == IF e.dr = a THEN e.debit ELSE 0
             cr == IF e.cr = a THEN e.credit ELSE 0
  <2>1. dr \in Int /\ cr \in Int
    BY <1>1
  <2>2. Adjustment(a, e, R[a], x, y) =
           IF R[a].debitNormal THEN Converted(dr, e, R[a], x) - Converted(cr, e, R[a], y)
                               ELSE -(Converted(dr, e, R[a], x) - Converted(cr, e, R[a], y))
    BY DEF Adjustment
  <2> HIDE DEF dr, cr
  <2>3. Converted(dr, e, R[a], x) \in Int /\ Converted(cr, e, R[a], y) \in Int
    BY <1>1, <1>2, <2>1
  <2> QED BY <2>2, <2>3
<1> QED BY <1>3 DEF TypeOK, NewBalances

(* The rows after a save.                                                  *)
LEMMA SavedRows ==
    ASSUME TypeOK, NEW j \in Journals, NEW row \in Rows, journals' = Saved(j, row)
    PROVE  /\ DOMAIN journals' = DOMAIN journals \cup {j}
           /\ journals' \in [DOMAIN journals' -> Rows]
           /\ journals'[j] = row
           /\ \A k \in DOMAIN journals \ {j} : journals'[k] = journals[k]
<1>1. /\ DOMAIN Saved(j, row) = DOMAIN journals \cup {j}
      /\ Saved(j, row) \in [DOMAIN Saved(j, row) -> Rows]
      /\ Saved(j, row)[j] = row
      /\ \A k \in DOMAIN journals \ {j} : Saved(j, row)[k] = journals[k]
  BY SavedType
<1> QED BY <1>1

LEMMA TypeInit == Init => TypeOK
  BY DEF Init, TypeOK

LEMMA TypeNext == TypeOK /\ [Next]_vars => TypeOK'
<1>2. TypeOK /\ [Next]_vars => TypeOK'
  <2> SUFFICES ASSUME TypeOK, [Next]_vars PROVE TypeOK'
    OBVIOUS
  <2>1. ASSUME NEW r \in Requests, NEW j \in Journals, NEW e \in Entries,
               NEW s \in InitialStatuses, CreateCheck(r, j, e, s)
        PROVE  TypeOK'
    <3>1. Loaded("create", j, [status |-> s, deleted |-> FALSE, entry |-> e]) \in InFlight
      BY DEF Loaded, InFlight, Rows, Operations, JournalStatus
    <3> QED BY <2>1, <3>1 DEF CreateCheck, Begin, TypeOK
  <2>2. ASSUME NEW r \in Requests, NEW j \in Journals,
               NEW op \in Operations \ {"create"}, Load(r, j, op)
        PROVE  TypeOK'
    <3>1. journals[j] \in Rows
      BY <2>2 DEF Load, Visible, TypeOK
    <3>2. Writes[op] \in JournalStatus
      BY DEF Writes, Operations, JournalStatus
    <3>3. [journals[j] EXCEPT !.status = Writes[op]] \in Rows
      BY <3>1, <3>2 DEF Rows
    <3>4. Loaded(op, j, [journals[j] EXCEPT !.status = Writes[op]]) \in InFlight
      BY <3>3 DEF Loaded, InFlight
    <3> QED BY <2>2, <3>4 DEF Load, Begin, TypeOK
  <2>3. ASSUME NEW r \in Requests, SaveStatus(r) PROVE TypeOK'
    <3>1. req[r] \in InFlight
      BY <2>3, RequestShape DEF SaveStatus
    <3>2. req[r].j \in Journals /\ req[r].row \in Rows
      BY <3>1 DEF InFlight
    <3>3. req[r].op \in {"review", "approve", "reject"}
      BY <2>3 DEF SaveStatus
    <3>4. signed' \in [Journals -> SUBSET {"review", "approve", "preset"}]
      BY <2>3, <3>2, <3>3 DEF SaveStatus, TypeOK
    <3>5. /\ DOMAIN journals' \subseteq Journals
          /\ journals' \in [DOMAIN journals' -> Rows]
      <4>1. journals' = Saved(req[r].j, req[r].row)
        BY <2>3 DEF SaveStatus
      <4>2. /\ DOMAIN journals' = DOMAIN journals \cup {req[r].j}
            /\ journals' \in [DOMAIN journals' -> Rows]
        BY <4>1, <3>2, SavedRows
      <4> QED BY <4>2, <3>2 DEF TypeOK
    <3>6. req' \in [Requests -> {Idle} \cup InFlight \cup Saving]
      BY <2>3 DEF SaveStatus, Finish, TypeOK
    <3> QED BY <2>3, <3>4, <3>5, <3>6 DEF SaveStatus, TypeOK
  <2>4. ASSUME NEW r \in Requests, SaveEntry(r) PROVE TypeOK'
    <3>1. req[r] \in InFlight
      BY <2>4, RequestShape DEF SaveEntry
    <3>2. req'[r] \in Saving
      BY <2>4, <3>1 DEF SaveEntry, InFlight, Saving, TypeOK
    <3> QED BY <2>4, <3>2 DEF SaveEntry, history, TypeOK
  <2>5. ASSUME NEW r \in Requests, RejectInsert(r) PROVE TypeOK'
    BY <2>5 DEF RejectInsert, Finish, history, TypeOK
  <2>6. ASSUME NEW r \in Requests, NEW x \in Rates, NEW y \in Rates, Commit(r, x, y) PROVE TypeOK'
    <3>1. req[r] \in Saving
      BY <2>6, RequestShape DEF Commit
    <3>2. req[r].j \in Journals /\ req[r].row \in Rows
      BY <3>1 DEF Saving
    <3>3. req[r].row.entry \in Contents
      BY <3>2 DEF Rows
    <3>4. balance' \in [Accounts -> Int]
      <4>1. req[r].rows \in [Accounts -> AccountRow]
        BY <3>1 DEF Saving
      <4>2. NewBalances(req[r].row.entry, req[r].found, req[r].rows, x, y) \in [Accounts -> Int]
        BY <3>3, <4>1, NewBalancesType
      <4> QED BY <2>6, <4>2 DEF Commit, TypeOK
    <3>5. applied' \in [Journals -> Nat]
      BY <2>6, <3>2 DEF Commit, Posts, TypeOK
    <3>6. unsettled' \subseteq Currencies
      <4>1. Unsettles(req[r].row.entry, req[r].found, req[r].rows) \subseteq Currencies
        BY <3>1, <3>3 DEF Unsettles, Saving, AccountRow, Contents
      <4> QED BY <2>6, <4>1 DEF Commit, TypeOK
    <3>7. signed' \in [Journals -> SUBSET {"review", "approve", "preset"}]
      BY <2>6, <3>2 DEF Commit, Posts, TypeOK
    <3>8. /\ DOMAIN journals' \subseteq Journals
          /\ journals' \in [DOMAIN journals' -> Rows]
      <4>1. journals' = Saved(req[r].j, req[r].row)
        BY <2>6 DEF Commit
      <4>2. /\ DOMAIN journals' = DOMAIN journals \cup {req[r].j}
            /\ journals' \in [DOMAIN journals' -> Rows]
        BY <4>1, <3>2, SavedRows
      <4> QED BY <4>2, <3>2 DEF TypeOK
    <3>9. req' \in [Requests -> {Idle} \cup InFlight \cup Saving]
      BY <2>6 DEF Commit, Finish, TypeOK
    <3> QED BY <2>6, <3>4, <3>5, <3>6, <3>7, <3>8, <3>9 DEF Commit, Posts, TypeOK
  <2>7. ASSUME NEW r \in Requests, Abort(r) PROVE TypeOK'
    BY <2>7 DEF Abort, Finish, history, TypeOK
  <2>8. ASSUME NEW j \in Journals, RemoveJournal(j) PROVE TypeOK'
    <3>1. journals[j] \in Rows /\ j \in DOMAIN journals
      BY <2>8 DEF RemoveJournal, Visible, TypeOK
    <3>2. [journals[j] EXCEPT !.deleted = TRUE] \in Rows
      BY <3>1 DEF Rows
    <3> QED BY <2>8, <3>1, <3>2 DEF RemoveJournal, history, TypeOK
  <2>9. ASSUME NEW a \in Accounts, RemoveAccount(a) PROVE TypeOK'
    BY <2>9 DEF RemoveAccount, history, TypeOK
  <2>12. ASSUME NEW a \in Accounts, NEW row \in AccountRows, UpdateAccount(a, row)
         PROVE  TypeOK'
    <3>1. row \in AccountRow /\ chart[a] \in AccountRow
      BY DEF TypeOK
    <3>2. /\ chart' \in [Accounts -> AccountRow]
          /\ unsettled' \subseteq Currencies
      BY <2>12, <3>1 DEF UpdateAccount, AccountRow, TypeOK
    <3> QED BY <2>12, <3>2 DEF UpdateAccount, TypeOK
  <2>10. ASSUME NEW p \in Periods, ClosePeriod(p) \/ ReopenPeriod(p) PROVE TypeOK'
    BY <2>10 DEF ClosePeriod, ReopenPeriod, history, TypeOK
  <2>11. CASE UNCHANGED vars
    BY <2>11 DEF vars, history, TypeOK
  <2> QED
    BY <2>1, <2>2, <2>3, <2>4, <2>5, <2>6, <2>7, <2>8, <2>9, <2>10, <2>11, <2>12
       DEF Next, Server
<1> QED BY <1>2

(* Every reachable state has the types of the tables.                      *)
THEOREM TypeCorrect == Spec => []TypeOK
  BY TypeInit, TypeNext, PTL DEF Spec

----------------------------------------------------------------------------
(* The inductive invariant.                                                *)

\* The signatures a journal needs before it may be posted.
Cleared(j) == "preset" \in signed[j] \/ {"review", "approve"} \subseteq signed[j]

\* What the status of a saved row says of its signatures.
StatusIsSigned ==
    \A j \in DOMAIN journals :
        /\ journals[j].status \in {"DRAFT", "APPROVED", "POSTED"} => Cleared(j)
        /\ journals[j].status = "PENDING_APPROVAL" =>
               "preset" \in signed[j] \/ "review" \in signed[j]

\* What a request in flight has read and will write.
RequestIsSigned ==
    \A r \in Requests : req[r].pc # "idle" =>
        /\ req[r].op = "review" => req[r].row.status = "PENDING_APPROVAL"
        /\ req[r].op = "approve" =>
              /\ req[r].row.status = "APPROVED"
              /\ "preset" \in signed[req[r].j] \/ "review" \in signed[req[r].j]
        /\ req[r].op = "reject" => req[r].row.status = "REJECTED"
        /\ req[r].op = "post" => req[r].row.status = "POSTED" /\ Cleared(req[r].j)
        /\ req[r].op = "create" =>
              req[r].row.status \in {"DRAFT", "PENDING_REVIEW", "APPROVED", "POSTED"}

AppliedIsCleared == \A j \in Journals : applied[j] > 0 => Cleared(j)

SignInv == TypeOK /\ StatusIsSigned /\ RequestIsSigned /\ AppliedIsCleared

\* Two requests on one journal have raced, and only one of them can hold its row.
HoldersRaced ==
    \A r, q \in Requests : \A j \in Journals :
        r # q /\ Holds(r, j) /\ Holds(q, j) => j \in raced

OneLockHolder ==
    \A r, q \in Requests :
        req[r].pc = "saving" /\ req[q].pc = "saving" /\ req[r].j = req[q].j => r = q

\* An insert in progress is the first of its entry number.
InsertIsFirst ==
    \A r \in Requests :
        req[r].pc = "saving" /\ req[r].op = "create" => req[r].j \notin DOMAIN journals

AbsentIsUnapplied == \A j \in Journals \ DOMAIN journals : applied[j] = 0

\* Without a race, a journal that reached the balances stays out of the states
\* from which it could be posted, and nobody is about to post it.
SettledStays ==
    \A j \in Journals \ raced : applied[j] > 0 =>
        /\ j \in DOMAIN journals => journals[j].status \in {"POSTED", "REJECTED"}
        /\ \A r \in Requests : Holds(r, j) => req[r].op \in {"reject", "create"}

RaceInv ==
    /\ SignInv
    /\ HoldersRaced
    /\ OneLockHolder
    /\ InsertIsFirst
    /\ AbsentIsUnapplied
    /\ SettledStays
    /\ PostedIsApplied
    /\ DoublePostingNeedsRace

----------------------------------------------------------------------------
(* The signatures survive every step.                                      *)
LEMMA SignInit == Init => SignInv
  BY TypeInit DEF Init, SignInv, TypeOK, StatusIsSigned, RequestIsSigned,
     AppliedIsCleared, Idle

LEMMA SignNext ==
    ASSUME SignInv, [Next]_vars, TypeOK'
    PROVE  SignInv'
<1> USE DEF SignInv
<1>1. ASSUME NEW r \in Requests, NEW j \in Journals, NEW e \in Entries,
             NEW s \in InitialStatuses, CreateCheck(r, j, e, s)
      PROVE  SignInv'
  <2>1. req'[r] = Loaded("create", j, [status |-> s, deleted |-> FALSE, entry |-> e])
    BY <1>1 DEF CreateCheck, Begin, TypeOK
  <2>2. RequestIsSigned'
    BY <1>1, <2>1 DEF CreateCheck, Begin, TypeOK, RequestIsSigned, Cleared, Loaded
  <2> QED BY <1>1, <2>2 DEF CreateCheck, StatusIsSigned, AppliedIsCleared, Cleared
<1>2. ASSUME NEW r \in Requests, NEW j \in Journals,
             NEW op \in Operations \ {"create"}, Load(r, j, op)
      PROVE  SignInv'
  <2>1. /\ j \in DOMAIN journals
        /\ journals[j] \in Rows
        /\ journals[j].status \in Requires[op]
    BY <1>2 DEF Load, Visible, TypeOK
  <2>2. /\ req'[r].op = op
        /\ req'[r].j = j
        /\ req'[r].row.status = Writes[op]
        /\ \A q \in Requests \ {r} : req'[q] = req[q]
    BY <1>2, <2>1 DEF Load, Begin, Loaded, TypeOK, Rows
  <2>3. /\ op = "approve" => "preset" \in signed[j] \/ "review" \in signed[j]
        /\ op = "post" => Cleared(j)
    BY <2>1 DEF StatusIsSigned, Requires
  <2>4. signed' = signed
    BY <1>2 DEF Load
  <2>5. RequestIsSigned'
    BY <2>2, <2>3, <2>4 DEF RequestIsSigned, Cleared, Writes, Operations
  <2> QED BY <1>2, <2>5 DEF Load, StatusIsSigned, AppliedIsCleared, Cleared
<1>3. ASSUME NEW r \in Requests, SaveStatus(r) PROVE SignInv'
  <2> PICK q : q = req[r]
    OBVIOUS
  <2>1. q \in InFlight /\ q.j \in Journals /\ q.row \in Rows
    BY <1>3, RequestShape DEF SaveStatus, InFlight
  <2>2. q.op \in {"review", "approve", "reject"} /\ q.pc # "idle"
    BY <1>3 DEF SaveStatus
  <2>3. /\ DOMAIN journals' = DOMAIN journals \cup {q.j}
        /\ journals'[q.j] = q.row
        /\ \A k \in DOMAIN journals \ {q.j} : journals'[k] = journals[k]
    <3>1. journals' = Saved(q.j, q.row)
      BY <1>3 DEF SaveStatus
    <3> QED BY <2>1, <3>1, SavedRows
  <2>4. /\ signed'[q.j] = signed[q.j] \cup ({q.op} \ {"reject"})
        /\ \A k \in Journals \ {q.j} : signed'[k] = signed[k]
    BY <1>3, <2>1 DEF SaveStatus, TypeOK
  <2>5. \A k \in Journals : Cleared(k) => Cleared(k)'
    BY <2>4 DEF Cleared
  <2>6. /\ q.op = "review" => q.row.status = "PENDING_APPROVAL"
        /\ q.op = "approve" => /\ q.row.status = "APPROVED"
                               /\ "preset" \in signed[q.j] \/ "review" \in signed[q.j]
        /\ q.op = "reject" => q.row.status = "REJECTED"
    BY <2>2 DEF RequestIsSigned
  <2>7. StatusIsSigned'
    <3> SUFFICES ASSUME NEW k \in DOMAIN journals'
                 PROVE  /\ journals'[k].status \in {"DRAFT", "APPROVED", "POSTED"}
                               => Cleared(k)'
                        /\ journals'[k].status = "PENDING_APPROVAL" =>
                               "preset" \in signed'[k] \/ "review" \in signed'[k]
      BY DEF StatusIsSigned
    <3>1. CASE k = q.j
      BY <3>1, <2>2, <2>3, <2>4, <2>6 DEF Cleared
    <3>2. CASE k # q.j
      BY <3>2, <2>3, <2>4, <2>5 DEF StatusIsSigned, TypeOK
    <3> QED BY <3>1, <3>2
  <2>8. RequestIsSigned'
    <3>1. \A p \in Requests \ {r} : req'[p] = req[p]
      BY <1>3 DEF SaveStatus, Finish, TypeOK
    <3>2. req'[r].pc = "idle"
      BY <1>3 DEF SaveStatus, Finish, Idle, TypeOK
    <3>3. \A p \in Requests : req[p].pc # "idle" => req[p].j \in Journals
      BY RequestShape DEF InFlight, Saving
    <3>4. \A k \in Journals : signed[k] \subseteq signed'[k]
      BY <2>4
    <3> QED BY <2>5, <3>1, <3>2, <3>3, <3>4 DEF RequestIsSigned
  <2>9. AppliedIsCleared'
    BY <1>3, <2>5 DEF SaveStatus, AppliedIsCleared
  <2> QED BY <2>7, <2>8, <2>9
<1>4. ASSUME NEW r \in Requests, SaveEntry(r) PROVE SignInv'
  <2>1. /\ req'[r].op = req[r].op /\ req'[r].j = req[r].j /\ req'[r].row = req[r].row
        /\ req[r].pc # "idle"
        /\ \A p \in Requests \ {r} : req'[p] = req[p]
    BY <1>4 DEF SaveEntry, TypeOK
  <2>2. UNCHANGED <<journals, signed, applied>>
    BY <1>4 DEF SaveEntry, history
  <2>3. RequestIsSigned'
    BY <2>1, <2>2 DEF RequestIsSigned, Cleared
  <2> QED BY <2>2, <2>3 DEF StatusIsSigned, AppliedIsCleared, Cleared
<1>5. ASSUME NEW r \in Requests, NEW x \in Rates, NEW y \in Rates, Commit(r, x, y) PROVE SignInv'
  <2> PICK q : q = req[r]
    OBVIOUS
  <2>1. q \in Saving /\ q.j \in Journals /\ q.row \in Rows /\ q.op \in {"create", "post"}
    BY <1>5, RequestShape DEF Commit, Saving
  <2>2. /\ DOMAIN journals' = DOMAIN journals \cup {q.j}
        /\ journals'[q.j] = q.row
        /\ \A k \in DOMAIN journals \ {q.j} : journals'[k] = journals[k]
    <3>1. journals' = Saved(q.j, q.row)
      BY <1>5 DEF Commit
    <3> QED BY <2>1, <3>1, SavedRows
  <2>3. /\ q.op = "create" =>
              q.row.status \in {"DRAFT", "PENDING_REVIEW", "APPROVED", "POSTED"}
        /\ q.op = "post" => q.row.status = "POSTED" /\ Cleared(q.j)
    BY <1>5 DEF Commit, RequestIsSigned
  <2>4. /\ \A k \in Journals : signed[k] \subseteq signed'[k]
        /\ q.op = "create" /\ q.row.status # "PENDING_REVIEW" => "preset" \in signed'[q.j]
    BY <1>5, <2>1 DEF Commit, Posts, TypeOK
  <2>5. \A k \in Journals : Cleared(k) => Cleared(k)'
    BY <2>4 DEF Cleared
  <2>6. q.row.status \in {"DRAFT", "APPROVED", "POSTED"} => Cleared(q.j)'
    BY <2>1, <2>3, <2>4, <2>5 DEF Cleared
  <2>7. StatusIsSigned'
    <3> SUFFICES ASSUME NEW k \in DOMAIN journals'
                 PROVE  /\ journals'[k].status \in {"DRAFT", "APPROVED", "POSTED"}
                               => Cleared(k)'
                        /\ journals'[k].status = "PENDING_APPROVAL" =>
                               "preset" \in signed'[k] \/ "review" \in signed'[k]
      BY DEF StatusIsSigned
    <3>1. CASE k = q.j
      BY <3>1, <2>1, <2>2, <2>3, <2>6
    <3>2. CASE k # q.j
      BY <3>2, <2>2, <2>4, <2>5 DEF StatusIsSigned, TypeOK
    <3> QED BY <3>1, <3>2
  <2>8. RequestIsSigned'
    <3>1. \A p \in Requests \ {r} : req'[p] = req[p]
      BY <1>5 DEF Commit, Finish, TypeOK
    <3>2. req'[r].pc = "idle"
      BY <1>5 DEF Commit, Finish, Idle, TypeOK
    <3>3. \A p \in Requests : req[p].pc # "idle" => req[p].j \in Journals
      BY RequestShape DEF InFlight, Saving
    <3> QED BY <2>4, <2>5, <3>1, <3>2, <3>3 DEF RequestIsSigned
  <2>9. AppliedIsCleared'
    <3>1. \A k \in Journals \ {q.j} : applied'[k] = applied[k]
      BY <1>5 DEF Commit, Posts, TypeOK
    <3>2. q.row.status # "POSTED" => applied' = applied
      BY <1>5 DEF Commit, Posts
    <3> QED BY <2>1, <2>5, <2>6, <3>1, <3>2 DEF AppliedIsCleared
  <2> QED BY <2>7, <2>8, <2>9
<1>6. ASSUME NEW r \in Requests, RejectInsert(r) \/ Abort(r) PROVE SignInv'
  <2>1. /\ \A p \in Requests \ {r} : req'[p] = req[p]
        /\ req'[r].pc = "idle"
    BY <1>6 DEF RejectInsert, Abort, Finish, Idle, TypeOK
  <2>2. UNCHANGED <<journals, signed, applied>>
    BY <1>6 DEF RejectInsert, Abort, history
  <2>3. RequestIsSigned'
    BY <2>1, <2>2 DEF RequestIsSigned, Cleared
  <2> QED BY <2>2, <2>3 DEF StatusIsSigned, AppliedIsCleared, Cleared
<1>7. ASSUME NEW j \in Journals, RemoveJournal(j) PROVE SignInv'
  <2>1. /\ DOMAIN journals' = DOMAIN journals
        /\ \A k \in DOMAIN journals : journals'[k].status = journals[k].status
    BY <1>7 DEF RemoveJournal, Visible, TypeOK, Rows
  <2>2. UNCHANGED <<req, signed, applied>>
    BY <1>7 DEF RemoveJournal, history
  <2> QED BY <2>1, <2>2 DEF StatusIsSigned, RequestIsSigned, AppliedIsCleared, Cleared
<1>8. CASE UNCHANGED <<journals, req, signed, applied>>
  BY <1>8 DEF StatusIsSigned, RequestIsSigned, AppliedIsCleared, Cleared
<1> QED
  BY <1>1, <1>2, <1>3, <1>4, <1>5, <1>6, <1>7, <1>8
     DEF Next, Server, vars, history, RemoveAccount, UpdateAccount, ClosePeriod, ReopenPeriod

(* Every posting carries the review and the approval, or the journal was   *)
(* created past them.                                                      *)
THEOREM PostingSigned == Spec => []PostingIsSigned
<1>1. TypeOK /\ SignInv /\ [Next]_vars /\ TypeOK' => SignInv'
  BY SignNext
<1>2. SignInv => PostingIsSigned
  BY DEF SignInv, AppliedIsCleared, Cleared, PostingIsSigned
<1> QED BY <1>1, <1>2, SignInit, TypeCorrect, PTL DEF Spec

----------------------------------------------------------------------------
(* One request after the other never posts a journal twice.                *)
LEMMA RaceInit == Init => RaceInv
  BY SignInit DEF Init, RaceInv, HoldersRaced, OneLockHolder, InsertIsFirst,
     AbsentIsUnapplied, SettledStays, PostedIsApplied, DoublePostingNeedsRace,
     Holds, Idle

(* A request that starts on journal j either finds it free or races.       *)
LEMMA BeginRaces ==
    ASSUME RaceInv, NEW r \in Requests, NEW j \in Journals, NEW row, NEW op,
           Begin(r, j, Loaded(op, j, row))
    PROVE  /\ req[r].pc = "idle"
           /\ req'[r] = Loaded(op, j, row)
           /\ \A q \in Requests \ {r} : req'[q] = req[q]
           /\ raced \subseteq raced'
           /\ (\E q \in Requests \ {r} : Holds(q, j)) => j \in raced'
           /\ HoldersRaced'
           /\ OneLockHolder'
<1>1. /\ req[r].pc = "idle"
      /\ req'[r] = Loaded(op, j, row)
      /\ \A q \in Requests \ {r} : req'[q] = req[q]
  BY DEF Begin, RaceInv, SignInv, TypeOK
<1>2. /\ raced \subseteq raced'
      /\ (\E q \in Requests \ {r} : Holds(q, j)) => j \in raced'
  BY DEF Begin
<1>3. HoldersRaced'
  BY <1>1, <1>2 DEF HoldersRaced, RaceInv, Holds, Loaded
<1>4. OneLockHolder'
  BY <1>1 DEF OneLockHolder, RaceInv, Loaded
<1> QED BY <1>1, <1>2, <1>3, <1>4

(* A request that ends leaves the others as they are.                      *)
LEMMA FinishFrees ==
    ASSUME RaceInv, NEW r \in Requests, Finish(r), UNCHANGED raced
    PROVE  /\ req'[r].pc = "idle"
           /\ \A q \in Requests \ {r} : req'[q] = req[q]
           /\ HoldersRaced'
           /\ OneLockHolder'
<1>1. /\ req'[r].pc = "idle"
      /\ \A q \in Requests \ {r} : req'[q] = req[q]
  BY DEF Finish, RaceInv, SignInv, TypeOK, Idle
<1> QED BY <1>1 DEF HoldersRaced, OneLockHolder, RaceInv, Holds

LEMMA RaceNext ==
    ASSUME RaceInv, [Next]_vars, SignInv'
    PROVE  RaceInv'
<1> USE DEF RaceInv
<1>1. ASSUME NEW r \in Requests, NEW j \in Journals, NEW e \in Entries,
             NEW s \in InitialStatuses, CreateCheck(r, j, e, s)
      PROVE  RaceInv'
  <2>1. /\ UNCHANGED <<journals, applied>>
        /\ Begin(r, j, Loaded("create", j, [status |-> s, deleted |-> FALSE, entry |-> e]))
    BY <1>1 DEF CreateCheck
  <2>2. /\ req'[r].pc = "loaded" /\ req'[r].op = "create"
        /\ \A q \in Requests \ {r} : req'[q] = req[q]
        /\ raced \subseteq raced'
        /\ HoldersRaced' /\ OneLockHolder'
    BY <2>1, BeginRaces DEF Loaded
  <2>3. SettledStays'
    BY <2>1, <2>2 DEF SettledStays, Holds
  <2> QED
    BY <2>1, <2>2, <2>3 DEF InsertIsFirst, AbsentIsUnapplied, PostedIsApplied,
       DoublePostingNeedsRace
<1>2. ASSUME NEW r \in Requests, NEW j \in Journals,
             NEW op \in Operations \ {"create"}, Load(r, j, op)
      PROVE  RaceInv'
  <2>1. /\ UNCHANGED <<journals, applied>>
        /\ Begin(r, j, Loaded(op, j, [journals[j] EXCEPT !.status = Writes[op]]))
        /\ j \in DOMAIN journals
        /\ journals[j].status \in Requires[op]
    BY <1>2 DEF Load, Visible
  <2>2. /\ req'[r].pc = "loaded" /\ req'[r].op = op /\ req'[r].j = j
        /\ \A q \in Requests \ {r} : req'[q] = req[q]
        /\ raced \subseteq raced'
        /\ HoldersRaced' /\ OneLockHolder'
    BY <2>1, BeginRaces DEF Loaded
  <2>3. j \notin raced /\ applied[j] > 0 => op = "reject"
    BY <2>1 DEF SettledStays, Requires, Operations
  <2>4. SettledStays'
    BY <2>1, <2>2, <2>3 DEF SettledStays, Holds
  <2> QED
    BY <2>1, <2>2, <2>4 DEF InsertIsFirst, AbsentIsUnapplied, PostedIsApplied,
       DoublePostingNeedsRace
<1>3. ASSUME NEW r \in Requests, SaveStatus(r) PROVE RaceInv'
  <2> PICK q : q = req[r]
    OBVIOUS
  <2>1. q \in InFlight /\ q.j \in Journals /\ q.row \in Rows
    BY <1>3, RequestShape DEF SaveStatus, InFlight, SignInv
  <2>2. /\ q.op \in {"review", "approve", "reject"} /\ q.pc # "idle"
        /\ ~Locked(q.j)
        /\ UNCHANGED <<applied, raced>>
    BY <1>3 DEF SaveStatus
  <2>3. /\ DOMAIN journals' = DOMAIN journals \cup {q.j}
        /\ journals'[q.j] = q.row
        /\ \A k \in DOMAIN journals \ {q.j} : journals'[k] = journals[k]
    <3>1. journals' = Saved(q.j, q.row)
      BY <1>3 DEF SaveStatus
    <3> QED BY <2>1, <3>1, SavedRows DEF SignInv
  <2>4. /\ req'[r].pc = "idle"
        /\ \A p \in Requests \ {r} : req'[p] = req[p]
        /\ HoldersRaced' /\ OneLockHolder'
    BY <1>3, FinishFrees DEF SaveStatus
  <2>5. q.row.status \in {"PENDING_APPROVAL", "APPROVED", "REJECTED"}
    BY <2>2 DEF SignInv, RequestIsSigned
  <2>6. q.op = "reject" => q.row.status = "REJECTED"
    BY <2>2 DEF SignInv, RequestIsSigned
  <2>7. SettledStays'
    <3> SUFFICES ASSUME NEW k \in Journals \ raced, applied[k] > 0
                 PROVE  /\ k \in DOMAIN journals' =>
                              journals'[k].status \in {"POSTED", "REJECTED"}
                        /\ \A p \in Requests : Holds(p, k)' =>
                              req'[p].op \in {"reject", "create"}
      BY <2>2 DEF SettledStays
    <3>1. CASE k = q.j
      BY <3>1, <2>2, <2>3, <2>4, <2>6 DEF SettledStays, Holds
    <3>2. CASE k # q.j
      BY <3>2, <2>3, <2>4 DEF SettledStays, Holds
    <3> QED BY <3>1, <3>2
  <2>8. InsertIsFirst'
    BY <2>2, <2>3, <2>4 DEF InsertIsFirst, Locked
  <2>9. PostedIsApplied'
    BY <2>2, <2>3, <2>5 DEF PostedIsApplied
  <2> QED
    BY <2>2, <2>3, <2>4, <2>7, <2>8, <2>9 DEF AbsentIsUnapplied, DoublePostingNeedsRace
<1>4. ASSUME NEW r \in Requests, SaveEntry(r) PROVE RaceInv'
  <2>1. /\ req[r].pc = "loaded"
        /\ req'[r].op = req[r].op /\ req'[r].j = req[r].j /\ req'[r].pc = "saving"
        /\ \A p \in Requests \ {r} : req'[p] = req[p]
    BY <1>4 DEF SaveEntry, SignInv, TypeOK
  <2>2. /\ UNCHANGED <<journals, raced, applied>>
        /\ ~Locked(req[r].j)
        /\ req[r].op = "create" => req[r].j \notin DOMAIN journals
    BY <1>4 DEF SaveEntry, history
  <2>3. OneLockHolder'
    BY <2>1, <2>2 DEF OneLockHolder, Locked
  <2>4. InsertIsFirst'
    BY <2>1, <2>2 DEF InsertIsFirst
  <2>5. HoldersRaced' /\ SettledStays'
    BY <2>1, <2>2 DEF HoldersRaced, SettledStays, Holds
  <2> QED
    BY <2>2, <2>3, <2>4, <2>5 DEF AbsentIsUnapplied, PostedIsApplied,
       DoublePostingNeedsRace
<1>5. ASSUME NEW r \in Requests, NEW x \in Rates, NEW y \in Rates, Commit(r, x, y) PROVE RaceInv'
  <2> PICK q : q = req[r]
    OBVIOUS
  <2>1. q \in Saving /\ q.j \in Journals /\ q.row \in Rows /\ q.op \in {"create", "post"}
    BY <1>5, RequestShape DEF Commit, Saving, SignInv
  <2>2. q.pc = "saving" /\ UNCHANGED raced
    BY <1>5 DEF Commit
  <2>3. /\ DOMAIN journals' = DOMAIN journals \cup {q.j}
        /\ journals'[q.j] = q.row
        /\ \A k \in DOMAIN journals \ {q.j} : journals'[k] = journals[k]
    <3>1. journals' = Saved(q.j, q.row)
      BY <1>5 DEF Commit
    <3> QED BY <2>1, <3>1, SavedRows DEF SignInv
  <2>4. /\ req'[r].pc = "idle"
        /\ \A p \in Requests \ {r} : req'[p] = req[p]
        /\ HoldersRaced' /\ OneLockHolder'
    BY <1>5, <2>2, FinishFrees DEF Commit
  <2>5. /\ q.row.status = "POSTED" => applied'[q.j] = applied[q.j] + 1
        /\ q.row.status # "POSTED" => applied'[q.j] = applied[q.j]
        /\ \A k \in Journals \ {q.j} : applied'[k] = applied[k]
        /\ applied[q.j] \in Nat
    BY <1>5, <2>1 DEF Commit, Posts, SignInv, TypeOK
  <2>6. /\ q.op = "create" => q.j \notin DOMAIN journals /\ applied[q.j] = 0
        /\ q.op = "post" => q.row.status = "POSTED"
    BY <2>1, <2>2 DEF InsertIsFirst, AbsentIsUnapplied, SignInv, RequestIsSigned
  <2>7. q.j \notin raced => applied[q.j] = 0
    BY <2>1, <2>2, <2>5, <2>6 DEF SettledStays, Holds
  <2>8. q.j \notin raced => \A p \in Requests : ~Holds(p, q.j)'
    BY <2>1, <2>2, <2>4 DEF HoldersRaced, Holds
  <2>9. SettledStays'
    <3> SUFFICES ASSUME NEW k \in Journals \ raced, applied'[k] > 0
                 PROVE  /\ k \in DOMAIN journals' =>
                              journals'[k].status \in {"POSTED", "REJECTED"}
                        /\ \A p \in Requests : Holds(p, k)' =>
                              req'[p].op \in {"reject", "create"}
      BY <2>2 DEF SettledStays
    <3>1. CASE k = q.j
      BY <3>1, <2>3, <2>5, <2>7, <2>8
    <3>2. CASE k # q.j
      BY <3>2, <2>3, <2>4, <2>5 DEF SettledStays, Holds
    <3> QED BY <3>1, <3>2
  <2>10. InsertIsFirst'
    BY <2>2, <2>3, <2>4 DEF InsertIsFirst, OneLockHolder
  <2>11. PostedIsApplied'
    <3> SUFFICES ASSUME NEW k \in DOMAIN journals', journals'[k].status = "POSTED"
                 PROVE  applied'[k] > 0
      BY DEF PostedIsApplied
    <3>1. CASE k = q.j
      BY <3>1, <2>3, <2>5
    <3>2. CASE k # q.j
      BY <3>2, <2>3, <2>5 DEF PostedIsApplied, SignInv, TypeOK
    <3> QED BY <3>1, <3>2
  <2>12. DoublePostingNeedsRace'
    BY <2>2, <2>5, <2>7 DEF DoublePostingNeedsRace
  <2>13. AbsentIsUnapplied'
    BY <2>3, <2>5 DEF AbsentIsUnapplied
  <2> QED BY <2>4, <2>9, <2>10, <2>11, <2>12, <2>13
<1>6. ASSUME NEW r \in Requests, RejectInsert(r) \/ Abort(r) PROVE RaceInv'
  <2>1. UNCHANGED <<journals, raced, applied>> /\ Finish(r)
    BY <1>6 DEF RejectInsert, Abort, history
  <2>2. /\ req'[r].pc = "idle"
        /\ \A p \in Requests \ {r} : req'[p] = req[p]
        /\ HoldersRaced' /\ OneLockHolder'
    BY <2>1, FinishFrees
  <2> QED
    BY <2>1, <2>2 DEF InsertIsFirst, AbsentIsUnapplied, SettledStays, PostedIsApplied,
       DoublePostingNeedsRace, Holds
<1>7. ASSUME NEW j \in Journals, RemoveJournal(j) PROVE RaceInv'
  <2>1. /\ DOMAIN journals' = DOMAIN journals
        /\ \A k \in DOMAIN journals : journals'[k].status = journals[k].status
    BY <1>7 DEF RemoveJournal, Visible, SignInv, TypeOK, Rows
  <2>2. UNCHANGED <<req, raced, applied>>
    BY <1>7 DEF RemoveJournal, history
  <2> QED
    BY <2>1, <2>2 DEF HoldersRaced, OneLockHolder, InsertIsFirst, AbsentIsUnapplied,
       SettledStays, PostedIsApplied, DoublePostingNeedsRace, Holds
<1>8. CASE UNCHANGED <<journals, req, raced, applied>>
  BY <1>8 DEF HoldersRaced, OneLockHolder, InsertIsFirst, AbsentIsUnapplied,
     SettledStays, PostedIsApplied, DoublePostingNeedsRace, Holds
<1> QED
  BY <1>1, <1>2, <1>3, <1>4, <1>5, <1>6, <1>7, <1>8
     DEF Next, Server, vars, history, RemoveAccount, UpdateAccount, ClosePeriod, ReopenPeriod

LEMMA RaceInvariant == Spec => []RaceInv
<1>1. RaceInv /\ [Next]_vars => RaceInv'
  BY RaceNext, SignNext, TypeNext DEF RaceInv, SignInv
<1> QED BY <1>1, RaceInit, PTL DEF Spec

(* A journal whose requests never overlap reaches the balances at most once. *)
THEOREM SerialPostingIsOnce == Spec => []DoublePostingNeedsRace
  BY RaceInvariant, PTL DEF RaceInv

(* A row never says POSTED before its lines reached the balances.          *)
THEOREM PostedApplied == Spec => []PostedIsApplied
  BY RaceInvariant, PTL DEF RaceInv
----------------------------------------------------------------------------
(* The books balance.  The invariant adds what the check of                *)
(* createJournalEntry leaves behind: every row, saved or in the memory of  *)
(* a request, holds an entry that balances.                                *)
EntriesBalance ==
    /\ \A j \in DOMAIN journals : Balances(journals[j].entry)
    /\ \A r \in Requests : req[r].pc # "idle" => Balances(req[r].row.entry)

\* The accounts a posting has looked up are still as it read them, or their
\* currencies are unsettled.
LookupsFresh ==
    \A r \in Requests : req[r].pc = "saving" =>
        \A a \in Accounts :
            \/ req[r].rows[a] = chart[a]
            \/ req[r].rows[a].currency \in unsettled /\ chart[a].currency \in unsettled

BalanceInv == TypeOK /\ EntriesBalance /\ LookupsFresh /\ BooksBalance

\* What entry e does to the account a, counted as a debit.
Effect(e) ==
    [a \in Accounts |-> (IF e.dr = a THEN e.debit ELSE 0) - (IF e.cr = a THEN e.credit ELSE 0)]

LEMMA AccountsInFinite ==
    ASSUME NEW c
    PROVE  AccountsIn(c) \subseteq Accounts /\ IsFiniteSet(AccountsIn(c))
  BY FS_Subset DEF AccountsIn

(* The two lines of an entry add its difference to the accounts, no more.  *)
LEMMA SumEffect ==
    ASSUME NEW e \in Contents, NEW S \in SUBSET Accounts, IsFiniteSet(S),
           e.dr \in S, e.cr \in S
    PROVE  Sum(Effect(e), S) = e.debit - e.credit
<1> DEFINE D == [a \in S |-> IF a = e.dr THEN e.debit ELSE 0]
           C == [a \in S |-> IF a = e.cr THEN -e.credit ELSE 0]
           E == Effect(e)
<1>1. e.debit \in Int /\ e.credit \in Int
  BY DEF Contents
<1>2. Sum(D, S) = e.debit
  <2>1. \A a \in S : D[a] = IF a = e.dr THEN e.debit ELSE 0
    OBVIOUS
  <2> HIDE DEF D
  <2> QED BY <1>1, <2>1, SumPoint
<1>3. Sum(C, S) = -e.credit
  <2>1. \A a \in S : C[a] = IF a = e.cr THEN -e.credit ELSE 0
    OBVIOUS
  <2>2. -e.credit \in Int
    BY <1>1
  <2> HIDE DEF C
  <2> QED BY <1>1, <2>1, <2>2, SumPoint
<1>4. \A a \in S : D[a] \in Int /\ C[a] \in Int /\ E[a] = D[a] + C[a]
  BY <1>1 DEF Effect
<1>5. Sum(E, S) = Sum(D, S) + Sum(C, S)
  <2> HIDE DEF D, C, E
  <2> QED BY <1>4, SumAdd
<1> QED BY <1>1, <1>2, <1>3, <1>5

(* A posting in the currency of both accounts moves every balance by its   *)
(* effect, so the debits and credits of the currency by its difference.    *)
LEMMA PostingNets ==
    ASSUME TypeOK, NEW c \in Currencies, NEW e \in Contents, NEW F,
           NEW R \in [Accounts -> AccountRow], NEW x \in Rates, NEW y \in Rates,
           Settles(e, F, R), e.currency = c,
           e.dr \in AccountsIn(c), e.cr \in AccountsIn(c),
           R[e.dr] = chart[e.dr], R[e.cr] = chart[e.cr],
           chart' = chart, balance' = NewBalances(e, F, R, x, y)
    PROVE  Sum(NetDebit', AccountsIn(c)) = Sum(NetDebit, AccountsIn(c)) + (e.debit - e.credit)
<1>1. /\ AccountsIn(c) \subseteq Accounts /\ IsFiniteSet(AccountsIn(c))
      /\ e.dr \in AccountsIn(c) /\ e.cr \in AccountsIn(c)
      /\ e.debit \in Int /\ e.credit \in Int /\ x \in Int /\ y \in Int
  BY AccountsInFinite DEF Contents
<1>2. \A a \in AccountsIn(c) : balance[a] \in Int /\ chart[a] = chart'[a]
  BY <1>1 DEF TypeOK
<1>3. \A a \in AccountsIn(c) : NetDebit[a] \in Int /\ Effect(e)[a] \in Int
  BY <1>1, <1>2 DEF NetDebit, Effect
<1>4. ASSUME NEW a \in AccountsIn(c)
      PROVE  NetDebit'[a] = NetDebit[a] + Effect(e)[a]
  <2>1. NetDebit'[a] = IF chart[a].debitNormal THEN balance'[a] ELSE -balance'[a]
    BY <1>1 DEF NetDebit
  <2>2. balance'[a] = IF a \in F THEN balance[a] + Adjustment(a, e, R[a], x, y) ELSE balance[a]
    BY <1>1 DEF NewBalances
  <2>3. CASE a \in {e.dr, e.cr}
    <3>1. a \in F /\ R[a] = chart[a] /\ R[a].currency = e.currency
      BY <2>3 DEF Settles
    <3>2. Adjustment(a, e, R[a], x, y) =
             IF chart[a].debitNormal THEN Effect(e)[a] ELSE -Effect(e)[a]
      BY <1>1, <3>1 DEF Adjustment, Converted, Effect
    <3>3. NetDebit[a] = IF chart[a].debitNormal THEN balance[a] ELSE -balance[a]
      BY <1>1 DEF NetDebit
    <3>4. balance[a] \in Int /\ Effect(e)[a] \in Int
      BY <1>2, <1>3
    <3> HIDE DEF NetDebit, Effect
    <3> QED BY <2>1, <2>2, <3>1, <3>2, <3>3, <3>4
  <2>4. CASE a \notin {e.dr, e.cr}
    <3>1. Effect(e)[a] = 0
      BY <1>1, <2>4 DEF Effect
    <3>2. Adjustment(a, e, R[a], x, y) = 0
      BY <1>1, <2>4 DEF Adjustment, Converted
    <3> QED BY <1>1, <1>2, <2>1, <2>2, <3>1, <3>2 DEF NetDebit
  <2> QED BY <2>3, <2>4
<1>5. Sum(NetDebit', AccountsIn(c)) = Sum(NetDebit, AccountsIn(c)) + Sum(Effect(e), AccountsIn(c))
  <2> QED BY <1>1, <1>3, <1>4, SumAdd
<1>6. Sum(Effect(e), AccountsIn(c)) = e.debit - e.credit
  <2> QED BY <1>1, SumEffect
<1> QED BY <1>5, <1>6

(* A posting leaves the accounts of every other currency alone, unless it  *)
(* unsettles the currency.                                                 *)
LEMMA PostingSpares ==
    ASSUME TypeOK, NEW c \in Currencies, NEW e \in Contents, NEW F,
           NEW R \in [Accounts -> AccountRow], NEW x \in Rates, NEW y \in Rates,
           ~(Settles(e, F, R) /\ e.currency = c), c \notin Unsettles(e, F, R),
           \A a \in AccountsIn(c) : R[a] = chart[a],
           balance' = NewBalances(e, F, R, x, y)
    PROVE  \A a \in AccountsIn(c) : balance'[a] = balance[a]
<1> SUFFICES ASSUME NEW a \in AccountsIn(c) PROVE balance'[a] = balance[a]
  OBVIOUS
<1>1. /\ a \in Accounts /\ R[a].currency = c
      /\ balance[a] \in Int /\ x \in Int /\ y \in Int
  BY DEF AccountsIn, TypeOK
<1>2. ~(a \in {e.dr, e.cr} /\ a \in F)
  BY <1>1 DEF Unsettles, Settles
<1>3. a \notin {e.dr, e.cr} => Adjustment(a, e, R[a], x, y) = 0
  BY <1>1 DEF Adjustment, Converted
<1> QED BY <1>1, <1>2, <1>3 DEF NewBalances

(* Nothing is applied and every account is at its opening balance of zero. *)
LEMMA BalanceInit == Init => BalanceInv
<1> SUFFICES ASSUME Init PROVE BalanceInv
  OBVIOUS
<1>1. ASSUME NEW c PROVE Sum(NetDebit, AccountsIn(c)) = 0
  <2>1. AccountsIn(c) \subseteq Accounts /\ IsFiniteSet(AccountsIn(c))
    BY AccountsInFinite
  <2>2. \A a \in AccountsIn(c) : NetDebit[a] = 0
    <3>1. \A a \in Accounts : balance[a] = 0
      BY DEF Init
    <3> QED BY <2>1, <3>1 DEF NetDebit
  <2> QED BY <2>1, <2>2, SumZero
<1>2. Sum(applied, Journals) = 0
  <2>1. \A j \in Journals : applied[j] = 0
    BY DEF Init
  <2> QED BY <2>1, SumZero
<1>3. EntriesBalance /\ LookupsFresh
  BY DEF Init, EntriesBalance, LookupsFresh, Idle
<1>4. BooksBalance
  BY <1>1, <1>2 DEF BooksBalance
<1> QED BY <1>3, <1>4, TypeInit DEF BalanceInv

(* Entries are checked before they are saved and never changed afterwards. *)
LEMMA EntriesNext ==
    ASSUME TypeOK, EntriesBalance, [Next]_vars
    PROVE  EntriesBalance'
<1>1. ASSUME NEW r \in Requests, NEW j \in Journals, NEW e \in Entries,
             NEW s \in InitialStatuses, CreateCheck(r, j, e, s)
      PROVE  EntriesBalance'
  BY <1>1 DEF CreateCheck, Begin, Loaded, EntriesBalance, TypeOK
<1>2. ASSUME NEW r \in Requests, NEW j \in Journals,
             NEW op \in Operations \ {"create"}, Load(r, j, op)
      PROVE  EntriesBalance'
  <2>1. j \in DOMAIN journals /\ journals[j] \in Rows
    BY <1>2 DEF Load, Visible, TypeOK
  <2>2. [journals[j] EXCEPT !.status = Writes[op]].entry = journals[j].entry
    BY <2>1 DEF Rows
  <2> QED BY <1>2, <2>1, <2>2 DEF Load, Begin, Loaded, EntriesBalance, TypeOK
<1>3. ASSUME NEW r \in Requests,
             SaveStatus(r) \/ \E x, y \in Rates : Commit(r, x, y)
      PROVE  EntriesBalance'
  <2>1. req[r].j \in Journals /\ req[r].row \in Rows /\ req[r].pc # "idle"
    BY <1>3, RequestShape DEF SaveStatus, Commit, InFlight, Saving
  <2>2. journals' = Saved(req[r].j, req[r].row)
    BY <1>3 DEF SaveStatus, Commit
  <2>3. \A k \in DOMAIN journals' : Balances(journals'[k].entry)
    <3>1. /\ DOMAIN journals' = DOMAIN journals \cup {req[r].j}
          /\ journals'[req[r].j] = req[r].row
          /\ \A k \in DOMAIN journals \ {req[r].j} : journals'[k] = journals[k]
      BY <2>1, <2>2, SavedRows
    <3>2. Balances(req[r].row.entry)
      BY <2>1 DEF EntriesBalance
    <3> QED BY <3>1, <3>2 DEF EntriesBalance
  <2>4. /\ req'[r].pc = "idle"
        /\ \A p \in Requests \ {r} : req'[p] = req[p]
    BY <1>3 DEF SaveStatus, Commit, Finish, Idle, TypeOK
  <2> QED BY <2>3, <2>4 DEF EntriesBalance
<1>4. ASSUME NEW r \in Requests, SaveEntry(r) PROVE EntriesBalance'
  BY <1>4 DEF SaveEntry, EntriesBalance, TypeOK
<1>5. ASSUME NEW r \in Requests, RejectInsert(r) \/ Abort(r) PROVE EntriesBalance'
  BY <1>5 DEF RejectInsert, Abort, Finish, Idle, EntriesBalance, TypeOK
<1>6. ASSUME NEW j \in Journals, RemoveJournal(j) PROVE EntriesBalance'
  <2>1. /\ DOMAIN journals' = DOMAIN journals
        /\ \A k \in DOMAIN journals : journals'[k].entry = journals[k].entry
    BY <1>6 DEF RemoveJournal, Visible, TypeOK, Rows
  <2> QED BY <1>6, <2>1 DEF RemoveJournal, EntriesBalance
<1>7. CASE UNCHANGED <<journals, req>>
  BY <1>7 DEF EntriesBalance
<1> QED
  BY <1>1, <1>2, <1>3, <1>4, <1>5, <1>6, <1>7
     DEF Next, Server, vars, RemoveAccount, UpdateAccount, ClosePeriod, ReopenPeriod

(* A change of the chart unsettles the currencies it may surprise.         *)
LEMMA LookupsNext ==
    ASSUME TypeOK, LookupsFresh, [Next]_vars
    PROVE  LookupsFresh'
<1>1. ASSUME NEW r \in Requests, SaveEntry(r) PROVE LookupsFresh'
  <2>1. req'[r].rows = chart /\ \A q \in Requests \ {r} : req'[q] = req[q]
    BY <1>1 DEF SaveEntry, TypeOK
  <2>2. UNCHANGED <<chart, unsettled>>
    BY <1>1 DEF SaveEntry, history
  <2> QED BY <2>1, <2>2 DEF LookupsFresh
<1>2. ASSUME NEW a \in Accounts, NEW row \in AccountRows, UpdateAccount(a, row)
      PROVE  LookupsFresh'
  <2>1. /\ chart'[a] = row
        /\ \A b \in Accounts \ {a} : chart'[b] = chart[b]
        /\ unsettled' = unsettled \cup {chart[a].currency, row.currency}
        /\ req' = req
    BY <1>2 DEF UpdateAccount, TypeOK
  <2> QED BY <2>1 DEF LookupsFresh
<1>3. ASSUME NEW r \in Requests, req'[r].pc # "saving",
             \A q \in Requests \ {r} : req'[q] = req[q],
             chart' = chart, unsettled \subseteq unsettled'
      PROVE  LookupsFresh'
  BY <1>3 DEF LookupsFresh
<1>4. ASSUME NEW r \in Requests, NEW j \in Journals, NEW e \in Entries,
             NEW s \in InitialStatuses, CreateCheck(r, j, e, s)
      PROVE  LookupsFresh'
  BY <1>3, <1>4 DEF CreateCheck, Begin, Loaded, TypeOK
<1>5. ASSUME NEW r \in Requests, NEW j \in Journals,
             NEW op \in Operations \ {"create"}, Load(r, j, op)
      PROVE  LookupsFresh'
  BY <1>3, <1>5 DEF Load, Begin, Loaded, TypeOK
<1>6. ASSUME NEW r \in Requests, SaveStatus(r) \/ RejectInsert(r) \/ Abort(r)
      PROVE  LookupsFresh'
  BY <1>3, <1>6 DEF SaveStatus, RejectInsert, Abort, Finish, Idle, history, TypeOK
<1>7. ASSUME NEW r \in Requests, NEW x \in Rates, NEW y \in Rates, Commit(r, x, y)
      PROVE  LookupsFresh'
  BY <1>3, <1>7 DEF Commit, Finish, Idle, TypeOK
<1>8. CASE UNCHANGED <<req, chart, unsettled>>
  BY <1>8 DEF LookupsFresh
<1> QED
  BY <1>1, <1>2, <1>4, <1>5, <1>6, <1>7, <1>8
     DEF Next, Server, vars, history, RemoveJournal, RemoveAccount, ClosePeriod, ReopenPeriod

(* Every posting may widen the difference by the tolerance of its check.   *)
LEMMA ToleranceGrows ==
    ASSUME NEW n \in Int, NEW net \in Int, NEW d \in Int, d \in -Tolerance .. Tolerance,
           net \in -(Tolerance * n) .. (Tolerance * n)
    PROVE  net + d \in -(Tolerance * (n + 1)) .. (Tolerance * (n + 1))
<1>1. Tolerance * n \in Int /\ Tolerance * (n + 1) = Tolerance * n + Tolerance
  OBVIOUS
<1> QED BY <1>1

(* Only a commit that posts moves the balances, and only updateAccount     *)
(* moves an account from one currency to another.                          *)
LEMMA BooksNext ==
    ASSUME BalanceInv, [Next]_vars
    PROVE  BooksBalance'
<1> USE DEF BalanceInv
<1>1. ASSUME NEW c PROVE Sum(NetDebit, AccountsIn(c)) \in Int
  <2>1. AccountsIn(c) \subseteq Accounts /\ IsFiniteSet(AccountsIn(c))
    BY AccountsInFinite
  <2>2. \A a \in AccountsIn(c) : NetDebit[a] \in Int
    BY <2>1 DEF NetDebit, TypeOK
  <2> QED BY <2>1, <2>2, SumInt
<1>2. Sum(applied, Journals) \in Int
  <2>1. \A j \in Journals : applied[j] \in Int
    BY DEF TypeOK
  <2> QED BY <2>1, SumInt
<1>3. ASSUME NEW r \in Requests, NEW x \in Rates, NEW y \in Rates, Commit(r, x, y),
             req[r].row.status = "POSTED"
      PROVE  BooksBalance'
  <2> DEFINE q == req[r]
             e == q.row.entry
             posted == Sum(applied, Journals)
  <2>1. /\ q \in Saving /\ q.j \in Journals /\ e \in Contents
        /\ q.rows \in [Accounts -> AccountRow]
    BY <1>3, RequestShape DEF Commit, Saving, Rows
  <2>2. e.debit - e.credit \in -Tolerance .. Tolerance /\ e.debit - e.credit \in Int
    BY <1>3, <2>1 DEF Commit, EntriesBalance, Balances, Contents
  <2>3. /\ balance' = NewBalances(e, q.found, q.rows, x, y)
        /\ unsettled' = unsettled \cup Unsettles(e, q.found, q.rows)
        /\ chart' = chart
    BY <1>3 DEF Commit, Posts
  <2>4. posted' = posted + 1
    <3>1. /\ applied'[q.j] = applied[q.j] + 1 /\ applied[q.j] \in Int
          /\ \A k \in Journals \ {q.j} : applied'[k] = applied[k]
          /\ \A k \in Journals : applied[k] \in Int
      BY <1>3, <2>1 DEF Commit, Posts, TypeOK
    <3>2. posted' = posted + (applied'[q.j] - applied[q.j])
      BY <2>1, <3>1, SumChange
    <3> QED BY <1>2, <3>1, <3>2
  <2>6. \A a \in Accounts :
           \/ q.rows[a] = chart[a]
           \/ q.rows[a].currency \in unsettled /\ chart[a].currency \in unsettled
    <3>1. q.pc = "saving"
      BY <1>3 DEF Commit
    <3> QED BY <3>1 DEF LookupsFresh
  <2>7. \A c : AccountsIn(c)' = AccountsIn(c)
    BY <2>3 DEF AccountsIn
  <2>8. SUFFICES ASSUME NEW c \in Currencies \ unsettled'
                 PROVE  Sum(NetDebit', AccountsIn(c)) \in
                            -(Tolerance * posted') .. (Tolerance * posted')
    BY <2>7 DEF BooksBalance
  <2> DEFINE net == Sum(NetDebit, AccountsIn(c))
             net1 == Sum(NetDebit', AccountsIn(c))
  <2>9. c \in Currencies \ unsettled /\ c \notin Unsettles(e, q.found, q.rows)
    BY <2>3
  <2>10. \A a \in AccountsIn(c) : q.rows[a] = chart[a]
    BY <2>6, <2>9 DEF AccountsIn
  <2>11. net \in Int /\ net \in -(Tolerance * posted) .. (Tolerance * posted)
    BY <1>1, <2>9 DEF BooksBalance
  <2>12. CASE Settles(e, q.found, q.rows) /\ e.currency = c
    <3>1. \A a \in {e.dr, e.cr} : q.rows[a].currency = c /\ a \in Accounts
      BY <2>1, <2>12 DEF Settles, Contents
    <3>2. e.dr \in AccountsIn(c) /\ e.cr \in AccountsIn(c)
      BY <3>1, <2>6, <2>9 DEF AccountsIn
    <3>3. net1 = net + (e.debit - e.credit)
      BY <2>1, <2>3, <2>9, <2>10, <2>12, <3>2, PostingNets
    <3> HIDE DEF net, net1, e, posted
    <3>4. posted \in Int
      BY <1>2 DEF posted
    <3>5. net + (e.debit - e.credit) \in -(Tolerance * (posted + 1)) .. (Tolerance * (posted + 1))
      BY <2>2, <2>11, <3>4, ToleranceGrows
    <3> QED BY <2>4, <3>3, <3>5 DEF net1
  <2>13. CASE ~(Settles(e, q.found, q.rows) /\ e.currency = c)
    <3>1. \A a \in AccountsIn(c) : balance'[a] = balance[a]
      BY <2>1, <2>3, <2>9, <2>10, <2>13, PostingSpares
    <3>2. net1 = net
      <4>1. AccountsIn(c) \subseteq Accounts /\ IsFiniteSet(AccountsIn(c))
        BY AccountsInFinite
      <4>2. \A a \in AccountsIn(c) : NetDebit[a] \in Int /\ NetDebit'[a] = NetDebit[a]
        BY <2>3, <3>1, <4>1 DEF NetDebit, TypeOK
      <4> QED BY <4>1, <4>2, SumSame
    <3> HIDE DEF net, net1, posted
    <3>3. posted \in Int
      BY <1>2 DEF posted
    <3>4. net + 0 \in -(Tolerance * (posted + 1)) .. (Tolerance * (posted + 1))
      BY <2>11, <3>3, ToleranceGrows
    <3> QED BY <2>4, <2>11, <3>2, <3>4 DEF net1
  <2> QED BY <2>12, <2>13
<1>4. CASE UNCHANGED <<balance, chart, applied, unsettled>>
  BY <1>4 DEF BooksBalance, NetDebit, AccountsIn
<1>5. ASSUME NEW r \in Requests, NEW x \in Rates, NEW y \in Rates, Commit(r, x, y),
             req[r].row.status # "POSTED"
      PROVE  BooksBalance'
  BY <1>4, <1>5 DEF Commit, Posts
<1>6. ASSUME NEW a \in Accounts, NEW row \in AccountRows, UpdateAccount(a, row)
      PROVE  BooksBalance'
  <2>1. /\ chart'[a] = row
        /\ \A b \in Accounts \ {a} : chart'[b] = chart[b]
        /\ unsettled' = unsettled \cup {chart[a].currency, row.currency}
        /\ balance' = balance /\ applied' = applied
    BY <1>6 DEF UpdateAccount, TypeOK
  <2>2. SUFFICES ASSUME NEW c \in Currencies \ unsettled'
                 PROVE  Sum(NetDebit', AccountsIn(c)') \in
                            -(Tolerance * Sum(applied, Journals)) ..
                                (Tolerance * Sum(applied, Journals))
    BY <2>1 DEF BooksBalance
  <2>3. c \in Currencies \ unsettled /\ a \notin AccountsIn(c) /\ AccountsIn(c)' = AccountsIn(c)
    BY <2>1 DEF AccountsIn
  <2>4. Sum(NetDebit', AccountsIn(c)) = Sum(NetDebit, AccountsIn(c))
    <3>1. AccountsIn(c) \subseteq Accounts /\ IsFiniteSet(AccountsIn(c))
      BY AccountsInFinite
    <3>2. \A b \in AccountsIn(c) : NetDebit[b] \in Int /\ NetDebit'[b] = NetDebit[b]
      BY <2>1, <2>3, <3>1 DEF NetDebit, TypeOK
    <3> QED BY <3>1, <3>2, SumSame
  <2> QED BY <2>3, <2>4 DEF BooksBalance
<1> QED
  BY <1>3, <1>4, <1>5, <1>6
     DEF Next, Server, vars, history, CreateCheck, Load, SaveStatus, SaveEntry,
         RejectInsert, Abort, RemoveJournal, RemoveAccount, ClosePeriod, ReopenPeriod

(* Debits and credits of the account balances agree in every currency that *)
(* no conversion, skipped line or change of the chart has touched, up to   *)
(* the tolerance of the check for every posting.                           *)
THEOREM BooksStayBalanced == Spec => []BooksBalance
<1>1. BalanceInv /\ [Next]_vars => BalanceInv'
  BY TypeNext, EntriesNext, LookupsNext, BooksNext DEF BalanceInv
<1>2. BalanceInv => BooksBalance
  BY DEF BalanceInv
<1> QED BY <1>1, <1>2, BalanceInit, PTL DEF Spec
=============================================================================

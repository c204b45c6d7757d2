------------------------- MODULE BankReconciliation -------------------------
(***************************************************************************)
(* Matching the transactions of bank statements with journal lines, by     *)
(* reconcileTransaction and autoMatchTransactions of finance.service.ts    *)
(* and by reconcile of bank-reconciliation.service.ts.                     *)
(*                                                                         *)
(* A match is saved in a transaction, but what it is decided on is read    *)
(* before and without a lock.  A bank transaction keeps the journal entry  *)
(* it was matched with, a line only that it was.  All transactions and     *)
(* lines are of one bank account and its account of the ledger.            *)
(***************************************************************************)
EXTENDS Integers, FiniteSets

CONSTANTS
    Transactions,  \* rows of bank transactions
    Lines,         \* journal lines of the account
    Entries,       \* journal entries
    EntryOf,       \* the entry of a line
    Fits,          \* transactions and lines that agree in amount and date
    Matchers,      \* requests the API may serve at the same time
    MaxStarted     \* bound: requests that start

None == [none |-> TRUE]

ASSUME MatchAssumption ==
    /\ EntryOf \in [Lines -> Entries] /\ None \notin Entries
    /\ Fits \subseteq Transactions \X Lines
    /\ IsFiniteSet(Transactions) /\ IsFiniteSet(Lines)
    /\ Transactions \cap Lines = {}
    /\ MaxStarted \in Nat

VARIABLES
    imported,    \* transactions the statements have brought
    matched,     \* the entry of every reconciled transaction
    reconciled,  \* the lines that are reconciled
    matching,    \* the requests in progress
    started,     \* how many requests have started
    \* history, read by the properties only
    shared,      \* transactions and lines two requests held at the same time
    unlined,     \* transactions matched with an entry without a line left
    rematched,   \* transactions reconciled by hand a second time
    marks        \* the transaction a line was reconciled with

matchHistory == <<shared, unlined, rematched, marks>>
bankVars == <<imported, matched, reconciled, matching, started, matchHistory>>

NotMatching == [pc |-> "idle"]
Matching ==
    {NotMatching}
    \cup [pc : {"load"}, trx : Transactions, entry : Entries]
    \cup [pc : {"save"}, trx : Transactions, entry : Entries, lines : SUBSET Lines,
          writes : BOOLEAN]
    \cup [pc : {"pick"}, rest : SUBSET Transactions]
    \cup [pc : {"match"}, rest : SUBSET Transactions, trx : Transactions, line : Lines]
    \cup [pc : {"checked"}, trx : Transactions, line : Lines]

BankTypeOK ==
    /\ imported \subseteq Transactions
    /\ matched \in [Transactions -> Entries \cup {None}]
    /\ reconciled \subseteq Lines
    /\ matching \in [Matchers -> Matching] /\ started \in Nat
    /\ shared \subseteq Transactions \cup Lines
    /\ unlined \subseteq Transactions /\ rematched \subseteq Transactions
    /\ marks \in [Lines -> Transactions \cup {None}]

BankInit ==
    /\ imported = {}
    /\ matched = [t \in Transactions |-> None]
    /\ reconciled = {}
    /\ matching = [r \in Matchers |-> NotMatching] /\ started = 0
    /\ shared = {} /\ unlined = {} /\ rematched = {}
    /\ marks = [l \in Lines |-> None]

----------------------------------------------------------------------------
\* The rows a request has decided to save.
Decided(r) ==
    LET q == matching[r] IN
    CASE q.pc = "load"    -> {q.trx}
      [] q.pc = "save"    -> {q.trx} \cup q.lines
      [] q.pc = "pick"    -> q.rest
      [] q.pc = "match"   -> q.rest \cup {q.trx, q.line}
      [] q.pc = "checked" -> {q.trx, q.line}
      [] OTHER            -> {}

Shared(r, rows) == shared \cup {k \in rows : \E p \in Matchers \ {r} : k \in Decided(p)}

StartMatching(r, new, rows) ==
    /\ matching[r] = NotMatching
    /\ started < MaxStarted  \* bound
    /\ started' = started + 1
    /\ matching' = [matching EXCEPT ![r] = new]
    /\ shared' = Shared(r, rows)
    /\ UNCHANGED <<imported, matched, reconciled, unlined, rematched, marks>>

\* A mutant of MatchedBy: the id of the line is saved, not that of its entry.
MatchedByLine(l) == l
MatchedBy(l) == EntryOf[l]

\* Transaction t is matched with entry e and some of its lines are marked.
Match(t, e, lines) ==
    /\ matched' = [matched EXCEPT ![t] = e]
    /\ reconciled' = reconciled \cup lines
    /\ marks' = [l \in Lines |-> IF l \in lines THEN t ELSE marks[l]]

(* importBankStatement, one transaction.                                   *)
ImportTransaction(t) ==
    /\ t \notin imported
    /\ imported' = imported \cup {t}
    /\ UNCHANGED <<matched, reconciled, matching, started, matchHistory>>

----------------------------------------------------------------------------
(* reconcileTransaction: any transaction, whatever its status, and any     *)
(* entry.                                                                  *)
LoadToReconcile(r, t, e) ==
    /\ t \in imported
    /\ StartMatching(r, [pc |-> "load", trx |-> t, entry |-> e], {t})

\* A mutant of OpenLines: a reconciled line is found as well.
OpenLinesAny(e) == {l \in Lines : EntryOf[l] = e}
OpenLines(e) == {l \in Lines : EntryOf[l] = e /\ l \notin reconciled}

\* The lock on the row of transaction t is not with another request.
Unlocked(r, t) ==
    ~\E p \in Matchers \ {r} : matching[p].pc = "save" /\ matching[p].trx = t /\ matching[p].writes

(* The transaction is saved, and so locked, before a line is looked for; a *)
(* transaction that has the entry already is not written.                  *)
FindLine(r) ==
    LET q == matching[r]
        writes == matched[q.trx] # q.entry
    IN
    /\ q.pc = "load"
    /\ writes => Unlocked(r, q.trx)
    /\ \E lines \in IF OpenLines(q.entry) = {} THEN {{}} ELSE {{l} : l \in OpenLines(q.entry)} :
          /\ matching' = [matching EXCEPT ![r] = [pc |-> "save", trx |-> q.trx, entry |-> q.entry,
                                        lines |-> lines, writes |-> writes]]
          /\ shared' = Shared(r, lines)
    /\ UNCHANGED <<imported, matched, reconciled, started, unlined, rematched, marks>>

CommitReconciled(r) ==
    LET q == matching[r] IN
    /\ q.pc = "save"
    /\ Match(q.trx, IF q.writes THEN q.entry ELSE matched[q.trx], q.lines)
    /\ matching' = [matching EXCEPT ![r] = NotMatching]
    /\ unlined' = IF q.lines = {} THEN unlined \cup {q.trx} ELSE unlined
    /\ rematched' = IF matched[q.trx] # None THEN rematched \cup {q.trx} ELSE rematched
    /\ UNCHANGED <<imported, started, shared>>

----------------------------------------------------------------------------
(* reconcile: both rows are looked at before either is saved.              *)
\* A mutant of Unmatched: a reconciled transaction is accepted.
UnmatchedLine(t, l) == l \notin reconciled
Unmatched(t, l) == matched[t] = None /\ l \notin reconciled

CheckBoth(r, t, l) ==
    /\ t \in imported
    /\ Unmatched(t, l)
    /\ StartMatching(r, [pc |-> "checked", trx |-> t, line |-> l], {t, l})

CommitChecked(r) ==
    LET q == matching[r] IN
    /\ q.pc = "checked"
    /\ matched[q.trx] # MatchedBy(q.line) => Unlocked(r, q.trx)
    /\ Match(q.trx, MatchedBy(q.line), {q.line})
    /\ matching' = [matching EXCEPT ![r] = NotMatching]
    /\ UNCHANGED <<imported, started, shared, unlined, rematched>>

----------------------------------------------------------------------------
(* autoMatchTransactions: the transactions are read once, the lines that   *)
(* fit for each in its turn.                                               *)
FindUnreconciled(r) ==
    LET found == {t \in imported : matched[t] = None} IN
    StartMatching(r, [pc |-> "pick", rest |-> found], found)

Candidates(t) == {l \in Lines : <<t, l>> \in Fits /\ l \notin reconciled}

PickBest(r, t) ==
    LET q == matching[r] IN
    /\ q.pc = "pick"
    /\ t \in q.rest
    /\ \E l \in Candidates(t) :
          /\ matching' = [matching EXCEPT ![r] = [pc |-> "match", rest |-> q.rest \ {t}, trx |-> t,
                                        line |-> l]]
          /\ shared' = Shared(r, {l})
    /\ UNCHANGED <<imported, matched, reconciled, started, unlined, rematched, marks>>

PickNone(r, t) ==
    LET q == matching[r] IN
    /\ q.pc = "pick"
    /\ t \in q.rest
    /\ Candidates(t) = {}
    /\ matching' = [matching EXCEPT ![r].rest = @ \ {t}]
    /\ UNCHANGED <<imported, matched, reconciled, started, matchHistory>>

CommitMatch(r) ==
    LET q == matching[r] IN
    /\ q.pc = "match"
    /\ matched[q.trx] # MatchedBy(q.line) => Unlocked(r, q.trx)
    /\ Match(q.trx, MatchedBy(q.line), {q.line})
    /\ matching' = [matching EXCEPT ![r] = [pc |-> "pick", rest |-> q.rest]]
    /\ UNCHANGED <<imported, started, shared, unlined, rematched>>

FinishMatching(r) ==
    /\ matching[r].pc = "pick" /\ matching[r].rest = {}
    /\ matching' = [matching EXCEPT ![r] = NotMatching]
    /\ UNCHANGED <<imported, matched, reconciled, started, matchHistory>>

----------------------------------------------------------------------------
(* A request that fails or dies: what it had not committed is rolled back. *)
FailMatching(r) ==
    /\ matching[r] # NotMatching
    /\ matching' = [matching EXCEPT ![r] = NotMatching]
    /\ UNCHANGED <<imported, matched, reconciled, started, matchHistory>>

MatchStep(r) ==
    \/ FindLine(r) \/ CommitReconciled(r) \/ CommitChecked(r)
    \/ \E t \in Transactions : PickBest(r, t) \/ PickNone(r, t)
    \/ CommitMatch(r) \/ FinishMatching(r)

BankNext ==
    \/ \E t \in Transactions : ImportTransaction(t)
    \/ \E r \in Matchers :
          \/ \E t \in Transactions :
                \/ \E e \in Entries : LoadToReconcile(r, t, e)
                \/ \E l \in Lines : CheckBoth(r, t, l)
          \/ FindUnreconciled(r) \/ MatchStep(r) \/ FailMatching(r)

BankSpec == BankInit /\ [][BankNext]_bankVars

----------------------------------------------------------------------------
(* Every reconciled transaction has a line of its own: an entry has at     *)
(* least as many reconciled lines as transactions, unless one was matched  *)
(* by hand and found no line, or two requests held one of its lines or     *)
(* transactions at the same time.                                          *)
OwnLine ==
    \A e \in Entries :
        LET ts == {t \in Transactions : matched[t] = e}
            ls == {l \in Lines : EntryOf[l] = e}
        IN  (ts \cup ls) \cap (shared \cup unlined) = {}
                => Cardinality(ts) <= Cardinality(ls \cap reconciled)

(* The transaction a line was reconciled with has the entry of the line,   *)
(* unless it was matched again by hand or two requests held it: a line     *)
(* that is reconciled with nothing.                                        *)
MarkedIsMatched ==
    \A l \in reconciled :
        marks[l] \notin shared \cup rematched => matched[marks[l]] = EntryOf[l]
=============================================================================

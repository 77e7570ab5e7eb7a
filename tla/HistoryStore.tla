---------------------------- MODULE HistoryStore ----------------------------
(***************************************************************************)
(* The conversion history (crates/llmime-core/src/history/mod.rs): one     *)
(* SQLite file, opened by the input method in the process of every         *)
(* application.  A statement is atomic for all processes; a method is      *)
(* several statements under a mutex of its own process only.  A statement  *)
(* may fail (the file is locked, the disk is full); errors are ignored.    *)
(***************************************************************************)
EXTENDS Integers, FiniteSets, Functions

CONSTANTS
  Processes,   \* processes that have the store open
  Keys,        \* what is recorded: [reading, surface, prev]
  MaxRows,     \* bound: rows ever inserted
  MaxChosen    \* bound: conversions recorded

ASSUME KeysAssumption == IsFiniteSet(Keys)
ASSUME BoundsAssumption == MaxRows \in Nat /\ MaxChosen \in Nat

VARIABLES
  rows,        \* conversion_preference: set of [id, key, count, old]
  reranks,     \* number of rows of rerank_history
  doing,       \* per process: the method between two of its statements
  inserted,    \* the AUTOINCREMENT counter
  chosen,      \* history: per key, conversions recorded and not deleted since
  total        \* history: conversions recorded in all

historyVars == <<rows, reranks, doing, inserted, chosen, total>>

Free == [what |-> "nothing"]
Inserting(k) == [what |-> "insert", key |-> k]
Resetting == [what |-> "reset"]

HistoryInit ==
  /\ rows = {} /\ reranks = 0
  /\ doing = [p \in Processes |-> Free]
  /\ inserted = 0
  /\ chosen = [k \in Keys |-> 0]
  /\ total = 0

Does(p, what) == doing' = [doing EXCEPT ![p] = what]
RowsOf(k) == {r \in rows : r.key = k}

\* Fault: the count starts again.
Used_Restarts(r) == [r EXCEPT !.count = 1, !.old = FALSE]

\* count + 1, last_used_at = now.
Used(r) == [r EXCEPT !.count = @ + 1, !.old = FALSE]

Chosen(k) == chosen' = [chosen EXCEPT ![k] = @ + 1] /\ total' = total + 1

\* The UPDATE of record_conversion, which takes every row of its key.
RecordUpdates(p, k) ==
  /\ doing[p] = Free /\ total < MaxChosen
  /\ RowsOf(k) # {}
  /\ rows' = (rows \ RowsOf(k)) \cup {Used(r) : r \in RowsOf(k)}
  /\ Chosen(k)
  /\ UNCHANGED <<reranks, doing, inserted>>

\* No row of that key, or an UPDATE that fails: unwrap_or(0) makes no difference.
RecordMisses(p, k) ==
  /\ doing[p] = Free /\ total < MaxChosen
  /\ Does(p, Inserting(k))
  /\ UNCHANGED <<rows, reranks, inserted, chosen, total>>

\* The INSERT of record_conversion.
RecordInserts(p) ==
  /\ doing[p].what = "insert" /\ inserted < MaxRows /\ total < MaxChosen
  /\ inserted' = inserted + 1
  /\ rows' = rows \cup {[id |-> inserted', key |-> doing[p].key, count |-> 1, old |-> FALSE]}
  /\ Chosen(doing[p].key)
  /\ Does(p, Free)
  /\ UNCHANGED reranks

\* A second statement that fails, or whose process dies before it.
SecondIsLost(p) ==
  /\ doing[p] # Free
  /\ Does(p, Free)
  /\ UNCHANGED <<rows, reranks, inserted, chosen, total>>

\* record_rerank.
RecordRerank(p) ==
  /\ doing[p] = Free /\ reranks = 0
  /\ reranks' = reranks + 1
  /\ UNCHANGED <<rows, doing, inserted, chosen, total>>

\* The first DELETE of reset_all, then the second, also where the first fails.
ResetPreferences(p) ==
  /\ doing[p] = Free
  /\ \/ rows' = {} /\ chosen' = [k \in Keys |-> 0]
     \/ UNCHANGED <<rows, chosen>>
  /\ Does(p, Resetting)
  /\ UNCHANGED <<reranks, inserted, total>>

ResetReranks(p) ==
  /\ doing[p] = Resetting
  /\ reranks' = 0
  /\ Does(p, Free)
  /\ UNCHANGED <<rows, inserted, chosen, total>>

\* Six months pass without this row being used.
Ages(r) ==
  /\ rows' = (rows \ {r}) \cup {[r EXCEPT !.old = TRUE]}
  /\ UNCHANGED <<reranks, doing, inserted, chosen, total>>

Stale(r) == r.count < 2 /\ r.old

\* vacuum_stale_entries.
Vacuum(p) ==
  LET gone == {r \in rows : Stale(r)} IN
  /\ doing[p] = Free
  /\ rows' = rows \ gone
  /\ chosen' = [k \in Keys |-> chosen[k] - Cardinality(gone \cap RowsOf(k))]
  /\ UNCHANGED <<reranks, doing, inserted, total>>

HistoryNext ==
  \/ \E p \in Processes :
       \/ \E k \in Keys : RecordUpdates(p, k) \/ RecordMisses(p, k)
       \/ RecordInserts(p) \/ SecondIsLost(p) \/ RecordRerank(p)
       \/ ResetPreferences(p) \/ ResetReranks(p) \/ Vacuum(p)
  \/ \E r \in rows : Ages(r)

-----------------------------------------------------------------------------
\* SUM(count) over some rows.
SumOfCounts(some) == SumFunctionOnSet([r \in some |-> r.count], some)

\* boost_candidates: the sum for the candidate of a reading and a surface, whose
\* score it raises by five for each.
SameWord(k, l) == k.reading = l.reading /\ k.surface = l.surface
Selections(word) == SumOfCounts({r \in rows : SameWord(r.key, word)})

-----------------------------------------------------------------------------
(* Properties *)

HistoryTypeOK ==
  /\ inserted \in 0 .. MaxRows /\ reranks \in {0, 1} /\ total \in 0 .. MaxChosen
  /\ \A r \in rows : r.id \in 1 .. inserted /\ r.count \in 1 .. MaxChosen /\ r.key \in Keys
  /\ \A r, s \in rows : r.id = s.id => r = s

\* What the user chose counts from then on, through lost statements, races for
\* the first row, resets and vacuums: the boost sees every conversion that was
\* recorded, and exactly those while a key has no second row.
EverySelectionCounts ==
  \A word \in Keys :
    LET keys == {k \in Keys : SameWord(k, word)}
        recorded == SumFunctionOnSet(chosen, keys)
    IN /\ recorded <= Selections(word)
       /\ (\A k \in keys : Cardinality(RowsOf(k)) <= 1) => Selections(word) = recorded
=============================================================================

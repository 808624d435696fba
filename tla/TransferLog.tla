----------------------------- MODULE TransferLog -----------------------------
(***************************************************************************)
(* The write-ahead log behind context transfer (packages/transfer/src): a  *)
(* delta is appended to zlcts_wal, folded into the materialized items and  *)
(* marked folded in one SQLite transaction (sync.ts, wal.ts, store.ts);    *)
(* opening the database replays the rows a crash left unfolded             *)
(* (recover.ts), and an operator may snapshot, check and repair it         *)
(* (snapshot.ts, integrity.ts).                                            *)
(*                                                                         *)
(* One process at a time, and any number of sessions: a row belongs to the *)
(* session its delta names, and is stamped by that session's clock, by the *)
(* wall clock or by the item itself, as the kind of delta has it.          *)
(* An item is its version and its status: the revision and the confidence  *)
(* that decide which of two writes wins (put) are one number.  Graph nodes *)
(* and edges are left out.                                                 *)
(***************************************************************************)
EXTENDS Integers, FiniteSets, FiniteSetsExt

CONSTANTS
    Delta,        \* [op : {"put", "event", "supersede", "walOnly"}, id, version,
                  \*  session, stamp (an item's updatedAt)]
    Wall,         \* what Date.now() can read, in whatever order
    MaxRows,      \* bound: rows ever appended
    MaxCrashes,   \* bound: crashes
    MaxSnapshots, \* bound: snapshots taken
    MaxChecks,    \* bound: integrity checks
    MaxLost       \* bound: payload blobs lost or corrupted

ASSUME TransferAssumption ==
    /\ \A d \in Delta : /\ d.op \in {"put", "event", "supersede", "walOnly"}
                        /\ d.version \in Nat /\ d.stamp \in Nat
    /\ Wall \subseteq Nat
    /\ {MaxRows, MaxCrashes, MaxSnapshots, MaxChecks, MaxLost} \subseteq Nat

VARIABLES
    wal,      \* zlcts_wal: the rows, [seq, lamport, delta, folded]
    items,    \* zlcts_items: id -> [version, status]
    lost,     \* sequence numbers whose payload blob cannot be read
    snaps,    \* zlcts_snapshots: [session, lamport, made, items], and the rows
              \* that had had their effect when it was made, held (history)
    undone,   \* rows whose effect a restore has taken back (history)
    baseline, \* zlcts_integrity: the last stableHash (here the items themselves)
    tx,       \* the open transaction: the tables as this process sees them
    pc,       \* what the process is doing; "down" when there is none
    todo,     \* recoverUnfolded: the rows still to replay
    report,   \* the report of check() repair() will act on, or NoReport
    clock,    \* the sessions' Lamport clocks in this process, or Unset
    done      \* how often each bounded thing has happened

vars == <<wal, items, lost, snaps, undone, baseline, tx, pc, todo, report, clock, done>>

Id      == {d.id : d \in Delta}
Session == {d.session : d \in Delta}
Unset   == -1
Absent     == [version |-> 0, status |-> "absent"]
NoReport   == [restore |-> FALSE, unfolded |-> FALSE, given |-> FALSE]
NoTx       == [wal |-> {}, items |-> <<>>]
Unknown    == [i \in Id |-> [version |-> -1, status |-> "unknown"]]

Unfolded    == {r \in wal : ~r.folded}
Newest(s)   == Max({r.lamport : r \in {q \in wal : q.delta.session = s}} \cup {0})
Marked(rows, seq) == {IF r.seq = seq THEN [r EXCEPT !.folded = TRUE] ELSE r : r \in rows}
\* ORDER BY lamport_ts ASC, seq ASC.
First(r) == \A q \in todo : \/ r.lamport < q.lamport
                            \/ r.lamport = q.lamport /\ r.seq <= q.seq

-----------------------------------------------------------------------------
\* put: the newer write wins, whatever order they come in, and an execution event
\* is put as an item of its own; supersede bumps the revision of a row that is
\* there; capture and handoff materialize nothing.
Put(its, d) == IF d.version > its[d.id].version
               THEN [its EXCEPT ![d.id] = [version |-> d.version, status |-> "active"]]
               ELSE its
Writes(d) == d.op \in {"put", "event"}
Fold(its, d) ==
    CASE Writes(d) -> Put(its, d)
      [] d.op = "supersede" /\ its[d.id] # Absent ->
            [its EXCEPT ![d.id] = [version |-> @.version + 1, status |-> "superseded"]]
      [] OTHER -> its

\* The session's next stamp: its clock starts after the newest of its rows.
Tick(s) == (IF clock[s] = Unset THEN Newest(s) ELSE clock[s]) + 1
Ticks(d) == d.op \in {"event", "walOnly"}
\* walEntryFor: an item brings its own stamp, a supersede takes the wall clock's.
Stamps(d) == CASE Ticks(d) -> {Tick(d.session)}
               [] d.op = "put" -> {d.stamp}
               [] OTHER -> Wall
Row(d, stamp, seq) == [seq |-> seq, lamport |-> stamp, delta |-> d, folded |-> FALSE]
Count(what) == done' = [done EXCEPT ![what] = @ + 1]

Init ==
    /\ wal = {} /\ lost = {} /\ tx = NoTx /\ todo = {}
    /\ items = [i \in Id |-> Absent] /\ clock = [s \in Session |-> Unset]
    /\ snaps = {} /\ undone = {} /\ baseline = Unknown
    /\ pc = "down" /\ report = NoReport
    /\ done = [w \in {"rows", "crashes", "snapshots", "checks"} |-> 0]

\* A version of the program that appends before it folds died in between.
LeftUnfolded(d) ==
    /\ pc = "down" /\ done.rows < MaxRows
    /\ \E stamp \in Stamps(d) : wal' = wal \cup {Row(d, stamp, done.rows + 1)}
    /\ Count("rows")
    /\ UNCHANGED <<items, lost, snaps, undone, baseline, tx, pc, todo, report, clock>>

\* The database is opened, and what a crash left unfolded is replayed.
Open ==
    /\ pc = "down"
    /\ pc' = "recovering" /\ todo' = Unfolded
    /\ UNCHANGED <<wal, items, lost, snaps, undone, baseline, tx, report, clock, done>>

\* refold: the payload is read, then folded; a row that cannot be read stays
\* unfolded and the next is tried.
\* (Mutant: an unreadable row ends the replay.)
RefoldAborting ==
    /\ pc = "recovering"
    /\ \E r \in todo :
          /\ First(r)
          /\ IF r.seq \in lost
             THEN /\ todo' = {}
                  /\ UNCHANGED <<items, pc>>
             ELSE /\ items' = Fold(items, r.delta)
                  /\ pc' = "marking"
                  /\ UNCHANGED todo
    /\ UNCHANGED <<wal, lost, snaps, undone, baseline, tx, report, clock, done>>
Refold ==
    /\ pc = "recovering"
    /\ \E r \in todo :
          /\ First(r)
          /\ IF r.seq \in lost
             THEN /\ todo' = todo \ {r}
                  /\ UNCHANGED <<items, pc>>
             ELSE /\ items' = Fold(items, r.delta)
                  /\ pc' = "marking"
                  /\ UNCHANGED todo
    /\ UNCHANGED <<wal, lost, snaps, undone, baseline, tx, report, clock, done>>

\* ... and marked by its key, in a statement of its own.
MarkRefolded ==
    /\ pc = "marking"
    /\ \E r \in todo : First(r) /\ wal' = Marked(wal, r.seq) /\ todo' = todo \ {r}
    /\ pc' = "recovering"
    /\ UNCHANGED <<items, lost, snaps, undone, baseline, tx, report, clock, done>>

Recovered ==
    /\ pc = "recovering" /\ todo = {}
    /\ pc' = IF report = NoReport THEN "live" ELSE "rebasing"
    /\ UNCHANGED <<wal, items, lost, snaps, undone, baseline, tx, todo, report, clock, done>>

-----------------------------------------------------------------------------
\* apply, under the mutex: BEGIN; append (the blob is written beside the
\* database) ...
Ticking(d) == clock' = IF Ticks(d) THEN [clock EXCEPT ![d.session] = Tick(d.session)]
                       ELSE clock
\* (Mutant: the row is written as folded before the transaction begins.)
AppendOutsideTx(d) ==
    /\ pc = "live" /\ done.rows < MaxRows
    /\ Ticking(d)
    /\ \E stamp \in Stamps(d) :
          wal' = wal \cup {[Row(d, stamp, done.rows + 1) EXCEPT !.folded = TRUE]}
    /\ tx' = [wal |-> wal', items |-> items]
    /\ pc' = "folding" /\ Count("rows")
    /\ UNCHANGED <<items, lost, snaps, undone, baseline, todo, report>>
Append_(d) ==
    /\ pc = "live" /\ done.rows < MaxRows
    /\ Ticking(d)
    /\ \E stamp \in Stamps(d) :
          tx' = [wal |-> wal \cup {Row(d, stamp, done.rows + 1)}, items |-> items]
    /\ pc' = "folding" /\ Count("rows")
    /\ UNCHANGED <<wal, items, lost, snaps, undone, baseline, todo, report>>

\* ... fold, or ROLLBACK when it throws ...
\* (Mutant: the store writes on a connection of its own, outside the transaction.)
FoldOutsideTx ==
    /\ pc = "folding"
    /\ LET row == CHOOSE r \in tx.wal : \A q \in tx.wal : q.seq <= r.seq
       IN  /\ items' = Fold(items, row.delta)
           /\ tx' = [wal |-> Marked(tx.wal, row.seq), items |-> items']
    /\ pc' = "committing"
    /\ UNCHANGED <<wal, lost, snaps, undone, baseline, todo, report, clock, done>>
FoldDelta ==
    /\ pc = "folding"
    /\ LET row == CHOOSE r \in tx.wal : \A q \in tx.wal : q.seq <= r.seq
       IN  tx' = [wal |-> Marked(tx.wal, row.seq), items |-> Fold(tx.items, row.delta)]
    /\ pc' = "committing"
    /\ UNCHANGED <<wal, items, lost, snaps, undone, baseline, todo, report, clock, done>>
Rollback ==
    /\ pc = "folding"
    /\ tx' = NoTx /\ pc' = "live"
    /\ UNCHANGED <<wal, items, lost, snaps, undone, baseline, todo, report, clock, done>>

\* ... mark folded (above) and COMMIT.
Commit ==
    /\ pc = "committing"
    /\ wal' = tx.wal /\ items' = tx.items
    /\ tx' = NoTx /\ pc' = "live"
    /\ UNCHANGED <<lost, snaps, undone, baseline, todo, report, clock, done>>

-----------------------------------------------------------------------------
\* write: the whole materialized state, as a snapshot of one session, stamped by
\* the caller: with the newest row of that session.
Snapshot(s) ==
    /\ pc = "live" /\ done.snapshots < MaxSnapshots
    /\ snaps' = snaps \cup {[session |-> s, lamport |-> Newest(s), made |-> done.snapshots + 1,
                             items |-> items,
                             held |-> {r.seq : r \in wal \ Unfolded} \ undone]}
    /\ Count("snapshots")
    /\ UNCHANGED <<wal, items, lost, undone, baseline, tx, pc, todo, report, clock>>

\* A payload blob disappears or rots.
LoseBlob(r) ==
    /\ Cardinality(lost) < MaxLost /\ r.seq \notin lost
    /\ lost' = lost \cup {r.seq}
    /\ UNCHANGED <<wal, items, snaps, undone, baseline, tx, pc, todo, report, clock, done>>

\* check: what repair will act on, as it is now.
Check ==
    /\ pc = "live" /\ report = NoReport /\ done.checks < MaxChecks
    /\ report' = [given |-> TRUE,
                  restore |-> \/ \E r \in wal : r.seq \in lost
                              \/ baseline \notin {Unknown, items},
                  unfolded |-> Unfolded # {}]
    /\ Count("checks")
    /\ UNCHANGED <<wal, items, lost, snaps, undone, baseline, tx, pc, todo, clock>>

\* repair: back to the latest snapshot of any session (ORDER BY lamport_ts DESC,
\* created_at DESC), in one transaction that also drops that session's rows of
\* after it; then replay; then a new baseline.
Latest(s) == \A t \in snaps : \/ t.lamport < s.lamport
                              \/ t.lamport = s.lamport /\ t.made <= s.made
RestoreSnapshot(s) ==
    /\ items' = s.items
    /\ wal' = {r \in wal : r.delta.session = s.session => r.lamport <= s.lamport}
    /\ undone' = {r.seq : r \in wal' \ Unfolded} \ s.held
Repair ==
    /\ pc = "live" /\ report # NoReport
    /\ IF report.restore /\ snaps # {}
       THEN \E s \in snaps : Latest(s) /\ RestoreSnapshot(s)
       ELSE UNCHANGED <<wal, items, undone>>
    /\ pc' = IF report.unfolded THEN "replaying" ELSE "rebasing"
    /\ UNCHANGED <<lost, snaps, baseline, tx, todo, report, clock, done>>
\* The snapshot's own blob is missing or rotten: restore throws, and so does repair.
RepairThrows ==
    /\ pc = "live" /\ report # NoReport /\ report.restore /\ snaps # {}
    /\ report' = NoReport
    /\ UNCHANGED <<wal, items, lost, snaps, undone, baseline, tx, pc, todo, clock, done>>
ReplayAfterRestore ==
    /\ pc = "replaying"
    /\ todo' = Unfolded /\ pc' = "recovering"
    /\ UNCHANGED <<wal, items, lost, snaps, undone, baseline, tx, report, clock, done>>
Rebase ==
    /\ pc = "rebasing"
    /\ baseline' = items
    /\ report' = NoReport /\ pc' = "live"
    /\ UNCHANGED <<wal, items, lost, snaps, undone, tx, todo, clock, done>>

\* The process dies: SQLite rolls the open transaction back.
Crash ==
    /\ pc # "down" /\ done.crashes < MaxCrashes
    /\ pc' = "down" /\ tx' = NoTx /\ todo' = {} /\ report' = NoReport
    /\ clock' = [s \in Session |-> Unset]
    /\ Count("crashes")
    /\ UNCHANGED <<wal, items, lost, snaps, undone, baseline>>

Next ==
    \/ \E d \in Delta : LeftUnfolded(d) \/ Append_(d)
    \/ Open \/ Refold \/ MarkRefolded \/ Recovered
    \/ FoldDelta \/ Rollback \/ Commit
    \/ \E s \in Session : Snapshot(s)
    \/ Check \/ Repair \/ RepairThrows \/ ReplayAfterRestore \/ Rebase
    \/ \E r \in wal : LoseBlob(r)
    \/ Crash

Spec == Init /\ [][Next]_vars

-----------------------------------------------------------------------------
TypeOK ==
    /\ \A r \in wal : r.delta \in Delta /\ r.seq \in 1..MaxRows /\ r.lamport \in Nat
                     /\ r.folded \in BOOLEAN
    /\ \A r, q \in wal : r.seq = q.seq => r = q
    /\ lost \subseteq 1..MaxRows /\ clock \in [Session -> Nat \cup {Unset}]
    /\ pc \in {"down", "recovering", "marking", "live", "folding", "committing",
               "replaying", "rebasing"}

HasEffect(its, r) == Writes(r.delta) => its[r.delta.id].version >= r.delta.version
\* Whatever crashed, rolled back, was replayed twice or out of order: a write
\* whose row is marked folded has had its effect, and the item holds it or a newer
\* one, until a restore goes back to a snapshot made before that (apply,
\* recoverUnfolded, restore).
EffectsKept ==
    \A r \in wal : r.folded /\ r.seq \notin undone => HasEffect(items, r)

\* ... and nothing is in the items that no row accounts for: an item is what a
\* row of the log wrote or superseded, or what some snapshot holds.  So a delta
\* that was rolled back leaves nothing, and one that a restore has dropped does
\* not come back.
Accounts(r, i) ==
    /\ r.delta.id = i
    /\ \/ /\ Writes(r.delta)
          /\ items[i] = [version |-> r.delta.version, status |-> "active"]
       \/ r.delta.op = "supersede" /\ items[i].status = "superseded"
ItemsAccountedFor ==
    \A i \in Id : \/ items[i] = Absent
                  \/ \E r \in wal : Accounts(r, i)
                  \/ \E s \in snaps : s.items[i] = items[i]

\* Once the database is open, what is still unfolded cannot be read: one bad
\* row does not hold up the others (recoverUnfolded).
RecoveryComplete ==
    pc \in {"live", "folding", "committing"} => \A r \in Unfolded : r.seq \in lost
==============================================================================

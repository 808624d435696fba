-------------------------- MODULE TransferLogProofs --------------------------
(***************************************************************************)
(* Proofs about TransferLog, for any deltas, sessions and readings of the  *)
(* wall clock, and any number of rows, crashes, snapshots, repairs and     *)
(* lost blobs.  The inductive invariant says that rows have keys of their  *)
(* own, which only ever grow (Keys), what an open transaction will commit  *)
(* (InTx), which rows a replay has yet to fold (Replays), and that every   *)
(* snapshot has the effect of the rows it holds (SnapshotsHold), so that   *)
(* going back to it undoes those of the other rows only.                   *)
(***************************************************************************)
EXTENDS TransferLog, FiniteSetTheorems, FunctionTheorems, WellFoundedInduction, TLAPS

RowSet == [seq : 1 .. MaxRows, lamport : Nat, delta : Delta, folded : BOOLEAN]
Items  == [Id -> [version : Nat, status : {"absent", "active", "superseded"}]]
SnapSet == [session : Session, lamport : Nat, made : Nat, items : Items, held : SUBSET Nat]
Typed ==
    /\ wal \subseteq RowSet /\ IsFiniteSet(wal) /\ items \in Items /\ snaps \subseteq SnapSet
    /\ lost \subseteq 1 .. MaxRows /\ clock \in [Session -> Nat \cup {Unset}]
    /\ pc \in {"down", "recovering", "marking", "live", "folding", "committing",
               "replaying", "rebasing"}
    /\ done \in [{"rows", "crashes", "snapshots", "checks"} -> Nat] /\ done["rows"] <= MaxRows

\* A key is used once, and no snapshot holds a row that is yet to come.
Keys ==
    /\ \A r, q \in wal : r.seq = q.seq => r = q
    /\ \A r \in wal : r.seq <= done["rows"]
    /\ \A s \in snaps : \A n \in s.held : n <= done["rows"]

\* What the open transaction holds: a row of its own, and its effect.
NewRow(d, n, folded) == [seq |-> done["rows"], lamport |-> n, delta |-> d, folded |-> folded]
InTx ==
    /\ pc = "folding" => \E d \in Delta, n \in Nat :
             tx = [wal |-> wal \cup {NewRow(d, n, FALSE)}, items |-> items]
    /\ pc = "committing" => \E d \in Delta, n \in Nat :
             tx = [wal |-> wal \cup {NewRow(d, n, TRUE)}, items |-> Fold(items, d)]
    /\ pc \in {"folding", "committing"} =>
          /\ 0 < done["rows"] /\ \A r \in wal : r.seq < done["rows"]
          /\ \A s \in snaps : \A n \in s.held : n < done["rows"]

\* A replay has yet to fold what it has not folded and can read.
Replays ==
    /\ todo \subseteq Unfolded /\ (pc \notin {"recovering", "marking"} => todo = {})
    /\ pc \in {"recovering", "marking"} => \A r \in Unfolded : r \in todo \/ r.seq \in lost
    /\ pc \in {"live", "folding", "committing", "replaying", "rebasing"} =>
          \A r \in Unfolded : r.seq \in lost
    /\ pc = "marking" => \A r \in todo : First(r) => HasEffect(items, r)

\* A snapshot has the effect of the rows it holds.
SnapshotsHold == \A s \in snaps : \A r \in wal : r.seq \in s.held => HasEffect(s.items, r)

IInv == /\ Typed /\ Keys /\ InTx /\ Replays
        /\ EffectsKept /\ SnapshotsHold /\ ItemsAccountedFor

-----------------------------------------------------------------------------
\* The greatest of a finite set of numbers.
LEMMA Least == \A S \in SUBSET Nat : S # {} => \E m \in S : \A k \in S : m <= k
<1> SUFFICES ASSUME NEW S \in SUBSET Nat, S # {} PROVE \E m \in S : \A k \in S : m <= k
  OBVIOUS
<1> DEFINE R == {ss \in Nat \X Nat : ss[1] < ss[2]}
<1>1. IsWellFoundedOn(R, Nat)
  BY NatLessThanWellFounded DEF OpToRel
<1>2. PICK m \in S : \A k \in S : ~(<<k, m>> \in R)
  BY <1>1, WFMin
<1>3. \A k \in S : ~(k < m)
  BY <1>2
<1> QED BY <1>3

Greatest(S) == \E m \in S : \A k \in S : k <= m
LEMMA FiniteHasGreatest ==
    ASSUME NEW S \in SUBSET Nat, IsFiniteSet(S), S # {}
    PROVE  Greatest(S)
<1> DEFINE Bad == {T \in SUBSET S : T # {} /\ ~Greatest(T)}
           C   == {Cardinality(T) : T \in Bad}
<1>1. SUFFICES ASSUME Bad # {} PROVE FALSE
  OBVIOUS
<1>2. \A T \in Bad : IsFiniteSet(T) /\ Cardinality(T) \in Nat
  BY FS_Subset, FS_CardinalityType
<1>3. C \in SUBSET Nat /\ C # {}
  BY <1>1, <1>2
<1>4. PICK c \in C : \A k \in C : c <= k
  BY <1>3, Least
<1>5. PICK T \in Bad : c = Cardinality(T)
  BY <1>4
<1>6. PICK x \in T : TRUE
  BY <1>5
<1>7. IsFiniteSet(T) /\ x \in Nat /\ T \subseteq Nat /\ Cardinality(T) \in Nat
  BY <1>2, <1>5, <1>6
<1> DEFINE U == T \ {x}
<1>8. IsFiniteSet(U) /\ Cardinality(U) = Cardinality(T) - 1 /\ Cardinality(U) \in Nat
  BY <1>6, <1>7, FS_RemoveElement, FS_CardinalityType
<1>9. CASE U = {}
  <2>1. T = {x}
    BY <1>6, <1>9
  <2> QED BY <1>5, <1>7, <2>1 DEF Greatest
<1>10. CASE U # {}
  <2>1. U \notin Bad
    <3>1. U \in Bad => Cardinality(U) \in C
      OBVIOUS
    <3> HIDE DEF U, C, Bad
    <3> QED BY <1>4, <1>5, <1>7, <1>8, <3>1
  <2>2. PICK m \in U : \A k \in U : k <= m
    BY <1>5, <1>10, <2>1 DEF Greatest
  <2>3. m \in Nat /\ m \in T
    BY <1>7, <2>2
  <2>4. CASE x <= m
    BY <1>5, <2>2, <2>3, <2>4 DEF Greatest
  <2>5. CASE m < x
    <3>1. \A k \in T : k <= x
      BY <1>7, <2>2, <2>3, <2>5
    <3> QED BY <1>5, <1>6, <3>1 DEF Greatest
  <2> QED BY <1>7, <2>3, <2>4, <2>5
<1> QED BY <1>9, <1>10

LEMMA NewestIsNat ==
    ASSUME Typed, NEW s \in Session
    PROVE  Newest(s) \in Nat
<1> DEFINE Q == {q \in wal : q.delta.session = s}
           S == {r.lamport : r \in Q} \cup {0}
<1>1. IsFiniteSet(S)
  <2>1. IsFiniteSet(Q)
    BY FS_Subset DEF Typed
  <2> HIDE DEF Q
  <2>2. IsFiniteSet({r.lamport : r \in Q})
    <3> DEFINE f == [r \in Q |-> r.lamport]
               T == {r.lamport : r \in Q}
    <3>1. f \in Surjection(Q, T)
      BY DEF Surjection
    <3> QED BY <2>1, <3>1, FS_Surjection
  <2> QED BY <2>2, FS_AddElement
<1>2. S \in SUBSET Nat /\ S # {}
  BY DEF Typed, RowSet
<1>3. Greatest(S)
  BY <1>1, <1>2, FiniteHasGreatest
<1>4. Newest(s) = Max(S)
  BY DEF Newest
<1> HIDE DEF S
<1> QED BY <1>2, <1>3, <1>4 DEF Max, Greatest

\* A stamp is a number, whoever gives it.
LEMMA StampIsNat ==
    ASSUME Typed, NEW d \in Delta
    PROVE  Stamps(d) \subseteq Nat /\ Tick(d.session) \in Nat
<1>1. d.session \in Session /\ d.stamp \in Nat /\ Wall \subseteq Nat
  BY TransferAssumption DEF TransferAssumption, Session
<1>2. Newest(d.session) \in Nat /\ clock[d.session] \in Nat \cup {Unset}
  BY <1>1, NewestIsNat DEF Typed
<1>3. Tick(d.session) \in Nat
  BY <1>2 DEF Tick, Unset
<1> QED BY <1>1, <1>3 DEF Stamps, Ticks

-----------------------------------------------------------------------------
\* A replay has one next row.
LEMMA FirstIsOne ==
    ASSUME Typed, Keys, Replays, NEW r \in todo, NEW q \in todo, First(r), First(q)
    PROVE  r = q
<1>1. /\ r \in wal /\ q \in wal /\ r.lamport \in Nat /\ q.lamport \in Nat
      /\ r.seq \in Nat /\ q.seq \in Nat
  BY DEF Typed, Replays, Unfolded, RowSet
<1>2. /\ r.lamport < q.lamport \/ (r.lamport = q.lamport /\ r.seq <= q.seq)
      /\ q.lamport < r.lamport \/ (q.lamport = r.lamport /\ q.seq <= r.seq)
  BY DEF First
<1>3. r.seq = q.seq
  BY <1>1, <1>2
<1> QED BY <1>1, <1>3 DEF Keys

\* Folding a delta: the items keep their type, no version goes down, a write
\* brings its own, and what changes is what the delta accounts for.
LEMMA FoldIs ==
    ASSUME NEW its \in Items, NEW d \in Delta
    PROVE  \/ /\ Writes(d) /\ d.version > its[d.id].version
              /\ Fold(its, d) = [its EXCEPT ![d.id] = [version |-> d.version, status |-> "active"]]
           \/ /\ d.op = "supersede"
              /\ Fold(its, d) = [its EXCEPT ![d.id] =
                                    [version |-> its[d.id].version + 1, status |-> "superseded"]]
           \/ /\ Writes(d) => ~(d.version > its[d.id].version)
              /\ Fold(its, d) = its
<1>1. CASE Writes(d)
  BY <1>1 DEF Fold, Put, Writes
<1>2. CASE d.op = "supersede" /\ its[d.id] # Absent
  BY <1>2 DEF Fold, Writes, Items
<1>3. CASE ~Writes(d) /\ ~(d.op = "supersede" /\ its[d.id] # Absent)
  BY <1>3 DEF Fold, Writes
<1> QED BY <1>1, <1>2, <1>3

LEMMA FoldTyped ==
    ASSUME NEW its \in Items, NEW d \in Delta
    PROVE  Fold(its, d) \in Items
<1>1. d.version \in Nat /\ d.id \in Id /\ its[d.id].version \in Nat
  BY TransferAssumption DEF TransferAssumption, Id, Items
<1>2. CASE /\ d.op = "supersede"
           /\ Fold(its, d) = [its EXCEPT ![d.id] =
                                    [version |-> its[d.id].version + 1, status |-> "superseded"]]
  BY <1>1, <1>2 DEF Items
<1>3. CASE /\ Writes(d) /\ d.version > its[d.id].version
           /\ Fold(its, d) = [its EXCEPT ![d.id] = [version |-> d.version, status |-> "active"]]
  BY <1>1, <1>3 DEF Items
<1> QED BY <1>2, <1>3, FoldIs

LEMMA FoldHasEffect ==
    ASSUME NEW its \in Items, NEW r \in RowSet
    PROVE  /\ HasEffect(Fold(its, r.delta), r)
           /\ \A q \in RowSet : HasEffect(its, q) => HasEffect(Fold(its, r.delta), q)
<1> DEFINE d == r.delta
           jts == Fold(its, d)
<1>1. d \in Delta /\ d.version \in Nat /\ d.id \in Id
  BY TransferAssumption DEF RowSet, TransferAssumption, Id
<1>2. \A i \in Id : its[i].version \in Nat
  BY DEF Items
<1>3. /\ \A i \in Id : jts[i].version \in Nat /\ jts[i].version >= its[i].version
      /\ Writes(d) => jts[d.id].version >= d.version
  <2> HIDE DEF d, jts
  <2>1. CASE /\ d.op = "supersede"
             /\ jts = [its EXCEPT ![d.id] =
                                    [version |-> its[d.id].version + 1, status |-> "superseded"]]
    BY <1>1, <1>2, <2>1 DEF Items, Writes
  <2>2. CASE /\ Writes(d) /\ d.version > its[d.id].version
             /\ jts = [its EXCEPT ![d.id] = [version |-> d.version, status |-> "active"]]
    BY <1>1, <1>2, <2>2 DEF Items
  <2>3. CASE jts = its /\ (Writes(d) => ~(d.version > its[d.id].version))
    BY <1>1, <1>2, <2>3
  <2> QED BY <1>1, <2>1, <2>2, <2>3, FoldIs DEF jts
<1>4. \A q \in RowSet : q.delta.version \in Nat /\ q.delta.id \in Id
  BY TransferAssumption DEF RowSet, TransferAssumption, Id
<1> QED BY <1>1, <1>2, <1>3, <1>4 DEF HasEffect

\* The rows' effects, when the items are folded further.
LEMMA EffectsAfterFold ==
    ASSUME Typed, EffectsKept, NEW r \in RowSet, NEW more \in SUBSET RowSet,
           \A p \in more : p.folded => \/ p.delta = r.delta
                                       \/ \E q \in wal : q.folded /\ q.seq = p.seq
                                                         /\ q.delta = p.delta
    PROVE  \A p \in more : p.folded /\ p.seq \notin undone => HasEffect(Fold(items, r.delta), p)
<1> SUFFICES ASSUME NEW p \in more, p.folded, p.seq \notin undone
             PROVE  HasEffect(Fold(items, r.delta), p)
  OBVIOUS
<1>1. items \in Items /\ wal \subseteq RowSet
  BY DEF Typed
<1>2. CASE p.delta = r.delta
  <2>1. HasEffect(Fold(items, r.delta), r)
    BY <1>1, FoldHasEffect
  <2> QED BY <1>2, <2>1 DEF HasEffect
<1>3. ASSUME NEW q \in wal, q.folded, q.seq = p.seq, q.delta = p.delta
      PROVE  HasEffect(Fold(items, r.delta), p)
  <2>1. HasEffect(items, q)
    BY <1>3 DEF EffectsKept
  <2>2. HasEffect(Fold(items, r.delta), q)
    BY <1>1, <1>3, <2>1, FoldHasEffect
  <2> QED BY <1>3, <2>2 DEF HasEffect
<1> QED BY <1>2, <1>3

\* The items stay accounted for when a row is folded that the log will hold.
LEMMA AccountedAfterFold ==
    ASSUME Typed, ItemsAccountedFor, NEW d \in Delta, items' = Fold(items, d),
           snaps' = snaps, \A q \in wal : \E p \in wal' : p.delta = q.delta,
           \E p \in wal' : p.delta = d
    PROVE  ItemsAccountedFor'
<1> SUFFICES ASSUME NEW i \in Id
             PROVE  \/ items'[i] = Absent
                    \/ \E r \in wal' : Accounts(r, i)'
                    \/ \E s \in snaps' : s.items[i] = items'[i]
  BY DEF ItemsAccountedFor
<1>1. CASE items'[i] = items[i]
  <2>1. \A r, p : p.delta = r.delta /\ Accounts(r, i) => Accounts(p, i)'
    BY <1>1 DEF Accounts
  <2> QED BY <1>1, <2>1 DEF ItemsAccountedFor
<1>2. CASE items'[i] # items[i]
  <2>1. PICK p \in wal' : p.delta = d
    OBVIOUS
  <2>2. items \in Items /\ d.id \in Id
    BY DEF Typed, Id
  <2>3. CASE /\ d.op = "supersede"
             /\ Fold(items, d) = [items EXCEPT ![d.id] =
                                    [version |-> items[d.id].version + 1, status |-> "superseded"]]
    <3>1. i = d.id /\ items'[i].status = "superseded"
      BY <1>2, <2>2, <2>3 DEF Items
    <3> QED BY <2>1, <2>3, <3>1 DEF Accounts
  <2>4. CASE /\ Writes(d) /\ d.version > items[d.id].version
             /\ Fold(items, d) = [items EXCEPT ![d.id] = [version |-> d.version, status |-> "active"]]
    <3>1. i = d.id /\ items'[i] = [version |-> d.version, status |-> "active"]
      BY <1>2, <2>2, <2>4, Zenon DEF Items
    <3> QED BY <2>1, <2>4, <3>1 DEF Accounts
  <2> QED BY <1>2, <2>2, <2>3, <2>4, FoldIs
<1> QED BY <1>1, <1>2

-----------------------------------------------------------------------------
\* The operations, one by one.  A step that leaves the tables alone keeps what is
\* said of them.
LEMMA TablesKept ==
    ASSUME IInv, wal' = wal, items' = items, snaps' = snaps, undone' = undone,
           Typed', Keys', InTx', Replays'
    PROVE  IInv'
<1>1. EffectsKept' /\ SnapshotsHold'
  BY DEF IInv, EffectsKept, SnapshotsHold, HasEffect
<1>2. ItemsAccountedFor'
  BY DEF IInv, ItemsAccountedFor, Accounts
<1> QED BY <1>1, <1>2 DEF IInv

LEMMA LeftUnfoldedKeeps ==
    ASSUME IInv, NEW d \in Delta, LeftUnfolded(d)
    PROVE  IInv'
<1>1. PICK n \in Stamps(d) : wal' = wal \cup {Row(d, n, done.rows + 1)}
  BY DEF LeftUnfolded
<1> DEFINE row == Row(d, n, done.rows + 1)
<1>2. /\ pc = "down" /\ done.rows < MaxRows /\ done' = [done EXCEPT !["rows"] = @ + 1]
      /\ items' = items /\ lost' = lost /\ snaps' = snaps /\ undone' = undone
      /\ pc' = pc /\ todo' = todo /\ clock' = clock
  BY DEF LeftUnfolded, Count
<1>3. Typed /\ Keys /\ Replays /\ EffectsKept /\ SnapshotsHold /\ ItemsAccountedFor
      /\ MaxRows \in Nat
  BY TransferAssumption DEF IInv, TransferAssumption
<1>4. n \in Nat /\ done["rows"] \in Nat /\ done.rows = done["rows"]
  BY <1>1, <1>3, StampIsNat DEF Typed
<1>5. row \in RowSet /\ row.seq = done["rows"] + 1 /\ row.folded = FALSE /\ row.delta = d
  BY <1>2, <1>3, <1>4 DEF Row, RowSet
<1>6. /\ done' \in [{"rows", "crashes", "snapshots", "checks"} -> Nat]
      /\ done'["rows"] = done["rows"] + 1
  BY <1>2, <1>3, <1>4 DEF Typed
<1> HIDE DEF row
<1>7. wal' = wal \cup {row}
  BY <1>1 DEF row
<1>8. Typed'
  <2>1. IsFiniteSet(wal')
    BY <1>3, <1>7, FS_AddElement DEF Typed
  <2> QED BY <1>2, <1>3, <1>4, <1>5, <1>6, <1>7, <2>1 DEF Typed
<1>9. Keys'
  <2>1. \A r \in wal : r.seq \in Nat
    BY <1>3 DEF Typed, RowSet
  <2>2. \A s \in snaps : \A k \in s.held : k \in Nat
    BY <1>3 DEF Typed, SnapSet
  <2>3. \A r, q \in wal' : r.seq = q.seq => r = q
    BY <1>3, <1>4, <1>5, <1>7, <2>1 DEF Keys
  <2>4. \A r \in wal' : r.seq <= done'["rows"]
    BY <1>3, <1>4, <1>5, <1>6, <1>7, <2>1 DEF Keys
  <2>5. \A s \in snaps' : \A k \in s.held : k <= done'["rows"]
    BY <1>2, <1>3, <1>4, <1>6, <2>2 DEF Keys
  <2> QED BY <2>3, <2>4, <2>5 DEF Keys
<1>10. InTx'
  BY <1>2 DEF InTx
<1>11. Replays'
  BY <1>2, <1>3, <1>7 DEF Replays, Unfolded
<1>12. EffectsKept'
  BY <1>2, <1>3, <1>5, <1>7 DEF EffectsKept, HasEffect
<1>13. SnapshotsHold'
  <2>1. \A s \in snaps : row.seq \notin s.held
    <3>1. \A s \in snaps : \A k \in s.held : k \in Nat /\ k <= done["rows"]
      BY <1>3 DEF Typed, SnapSet, Keys
    <3> QED BY <1>4, <1>5, <3>1
  <2> QED BY <1>2, <1>3, <1>7, <2>1 DEF SnapshotsHold, HasEffect
<1>14. ItemsAccountedFor'
  BY <1>2, <1>3, <1>7 DEF ItemsAccountedFor, Accounts
<1> QED BY <1>8, <1>9, <1>10, <1>11, <1>12, <1>13, <1>14 DEF IInv

LEMMA OpenKeeps ==
    ASSUME IInv, Open
    PROVE  IInv'
<1>1. /\ pc = "down" /\ pc' = "recovering" /\ todo' = Unfolded /\ clock' = clock
      /\ wal' = wal /\ items' = items /\ lost' = lost /\ snaps' = snaps /\ undone' = undone
      /\ tx' = tx /\ done' = done
  BY DEF Open
<1>2. Typed' /\ Keys' /\ InTx' /\ Replays'
  BY <1>1 DEF IInv, Typed, Keys, InTx, Replays, Unfolded
<1> QED BY <1>1, <1>2, TablesKept

\* The row a mark replaces, among rows with keys of their own.
Folded(r) == [r EXCEPT !.folded = TRUE]

LEMMA MarkedIs ==
    ASSUME NEW rows \in SUBSET RowSet, NEW r \in rows,
           \A p, q \in rows : p.seq = q.seq => p = q
    PROVE  Marked(rows, r.seq) = (rows \ {r}) \cup {Folded(r)} /\ Folded(r) \in RowSet
<1>1. r \in RowSet /\ Folded(r) \in RowSet
  BY DEF RowSet, Folded
<1>2. \A q \in rows : q.seq = r.seq <=> q = r
  OBVIOUS
<1>3. Marked(rows, r.seq) = {IF q = r THEN Folded(r) ELSE q : q \in rows}
  BY <1>2 DEF Marked, Folded
<1> QED BY <1>1, <1>3

LEMMA SameRow ==
    ASSUME NEW p \in RowSet, NEW q \in RowSet, p.seq = q.seq, p.lamport = q.lamport,
           p.delta = q.delta, p.folded = q.folded
    PROVE  p = q
  BY DEF RowSet

LEMMA RefoldKeeps ==
    ASSUME IInv, Refold
    PROVE  IInv'
<1>1. /\ pc = "recovering" /\ wal' = wal /\ lost' = lost /\ snaps' = snaps
      /\ undone' = undone /\ tx' = tx /\ clock' = clock /\ done' = done
  BY DEF Refold
<1>2. PICK r \in todo :
         /\ First(r)
         /\ \/ /\ r.seq \in lost /\ todo' = todo \ {r} /\ items' = items /\ pc' = pc
            \/ /\ r.seq \notin lost /\ items' = Fold(items, r.delta)
               /\ pc' = "marking" /\ todo' = todo
  BY Zenon DEF Refold
<1>3. Typed /\ Keys /\ Replays /\ EffectsKept /\ SnapshotsHold /\ ItemsAccountedFor
  BY DEF IInv
<1>4. r \in wal /\ ~r.folded /\ r \in RowSet /\ r.delta \in Delta /\ wal \in SUBSET RowSet
  BY <1>3 DEF Replays, Unfolded, Typed, RowSet
<1>5. Keys' /\ InTx'
  <2>1. pc' \notin {"folding", "committing"}
    BY <1>1, <1>2
  <2> QED BY <1>1, <1>3, <2>1 DEF Keys, InTx
<1>6. CASE r.seq \in lost
  <2>1. todo' = todo \ {r} /\ items' = items /\ pc' = pc
    BY <1>2, <1>6
  <2>2. Typed' /\ Replays'
    BY <1>1, <1>3, <1>6, <2>1 DEF Typed, Replays, Unfolded
  <2> QED BY <1>1, <1>5, <2>1, <2>2, TablesKept
<1>7. CASE r.seq \notin lost
  <2>1. items' = Fold(items, r.delta) /\ pc' = "marking" /\ todo' = todo
    BY <1>2, <1>7
  <2>2. Typed'
    <3>1. Fold(items, r.delta) \in Items
      BY <1>3, <1>4, FoldTyped DEF Typed
    <3> QED BY <1>1, <1>3, <2>1, <3>1 DEF Typed
  <2>3. Replays'
    <3>1. \A q \in todo : First(q) => q = r
      BY <1>2, <1>3, FirstIsOne
    <3>2. HasEffect(Fold(items, r.delta), r)
      BY <1>3, <1>4, FoldHasEffect DEF Typed
    <3>3. \A q \in todo : First(q)' => HasEffect(Fold(items, r.delta), q)
      BY <2>1, <3>1, <3>2 DEF First
    <3>4. \A q \in todo' : First(q)' => HasEffect(items', q)
      BY <2>1, <3>3
    <3>5. Unfolded' = Unfolded
      BY <1>1 DEF Unfolded
    <3> QED BY <1>1, <1>3, <2>1, <3>4, <3>5 DEF Replays, HasEffect
  <2>4. EffectsKept'
    <3>1. \A p \in wal : p.folded /\ p.seq \notin undone => HasEffect(Fold(items, r.delta), p)
      BY <1>3, <1>4, EffectsAfterFold
    <3> QED BY <1>1, <2>1, <3>1 DEF EffectsKept, HasEffect
  <2>5. SnapshotsHold'
    BY <1>1, <1>3 DEF SnapshotsHold, HasEffect
  <2>6. ItemsAccountedFor'
    BY <1>1, <1>3, <1>4, <2>1, AccountedAfterFold
  <2> QED BY <1>5, <2>2, <2>3, <2>4, <2>5, <2>6 DEF IInv
<1> QED BY <1>6, <1>7

LEMMA MarkRefoldedKeeps ==
    ASSUME IInv, MarkRefolded
    PROVE  IInv'
<1>1. /\ pc = "marking" /\ pc' = "recovering" /\ items' = items /\ lost' = lost
      /\ snaps' = snaps /\ undone' = undone /\ clock' = clock /\ done' = done
  BY DEF MarkRefolded
<1>2. PICK r \in todo : First(r) /\ wal' = Marked(wal, r.seq) /\ todo' = todo \ {r}
  BY Zenon DEF MarkRefolded
<1>3. Typed /\ Keys /\ Replays /\ EffectsKept /\ SnapshotsHold /\ ItemsAccountedFor
  BY DEF IInv
<1>4. r \in wal /\ ~r.folded /\ r \in RowSet /\ wal \in SUBSET RowSet
  BY <1>3 DEF Replays, Unfolded, Typed, RowSet
<1>5. wal' = (wal \ {r}) \cup {Folded(r)} /\ Folded(r) \in RowSet
  BY <1>2, <1>3, <1>4, MarkedIs DEF Keys
<1>6. /\ Folded(r).seq = r.seq /\ Folded(r).delta = r.delta /\ Folded(r).folded = TRUE
  BY <1>4 DEF Folded, RowSet
<1>7. HasEffect(items, r) /\ HasEffect(items, Folded(r))
  BY <1>1, <1>2, <1>3, <1>6 DEF Replays, HasEffect
<1>8. Typed'
  <2>1. IsFiniteSet(wal \ {r})
    BY <1>3, FS_Subset DEF Typed
  <2>2. IsFiniteSet(wal')
    BY <1>5, <2>1, FS_AddElement
  <2> QED BY <1>1, <1>3, <1>5, <2>2 DEF Typed
<1>9. Keys'
  <2>1. \A p, q \in wal' : p.seq = q.seq => p = q
    BY <1>3, <1>4, <1>5, <1>6 DEF Keys
  <2> QED BY <1>1, <1>3, <1>4, <1>5, <1>6, <2>1 DEF Keys
<1>10. InTx'
  BY <1>1 DEF InTx
<1>11. Replays'
  <2>1. Unfolded' = Unfolded \ {r}
    BY <1>5, <1>6 DEF Unfolded
  <2> QED BY <1>1, <1>2, <1>3, <2>1 DEF Replays
<1>12. EffectsKept'
  BY <1>1, <1>3, <1>5, <1>7 DEF EffectsKept, HasEffect
<1>13. SnapshotsHold'
  BY <1>1, <1>3, <1>4, <1>5, <1>6 DEF SnapshotsHold, HasEffect
<1>14. ItemsAccountedFor'
  <2>1. \A q \in wal : \E p \in wal' : p.delta = q.delta
    BY <1>5, <1>6
  <2>2. \A q, p, i : p.delta = q.delta /\ Accounts(q, i) => Accounts(p, i)'
    BY <1>1 DEF Accounts
  <2> QED BY <1>1, <1>3, <2>1, <2>2 DEF ItemsAccountedFor
<1> QED BY <1>8, <1>9, <1>10, <1>11, <1>12, <1>13, <1>14 DEF IInv

LEMMA RecoveredKeeps ==
    ASSUME IInv, Recovered
    PROVE  IInv'
<1>1. /\ pc = "recovering" /\ todo = {} /\ pc' \in {"live", "rebasing"}
      /\ wal' = wal /\ items' = items /\ lost' = lost /\ snaps' = snaps
      /\ undone' = undone /\ todo' = todo /\ clock' = clock /\ done' = done
  BY DEF Recovered
<1>2. Typed' /\ Keys' /\ InTx' /\ Replays'
  BY <1>1 DEF IInv, Typed, Keys, InTx, Replays, Unfolded
<1> QED BY <1>1, <1>2, TablesKept

LEMMA AppendKeeps ==
    ASSUME IInv, NEW d \in Delta, Append_(d)
    PROVE  IInv'
<1>1. PICK n \in Stamps(d) :
         tx' = [wal |-> wal \cup {Row(d, n, done.rows + 1)}, items |-> items]
  BY DEF Append_
<1>2. /\ pc = "live" /\ done.rows < MaxRows /\ pc' = "folding" /\ Ticking(d)
      /\ done' = [done EXCEPT !["rows"] = @ + 1] /\ wal' = wal /\ items' = items
      /\ lost' = lost /\ snaps' = snaps /\ undone' = undone /\ todo' = todo
  BY DEF Append_, Count
<1>3. Typed /\ Keys /\ Replays /\ MaxRows \in Nat
  BY TransferAssumption DEF IInv, TransferAssumption
<1>4. n \in Nat /\ Tick(d.session) \in Nat /\ d.session \in Session
  BY <1>1, <1>3, StampIsNat DEF Session
<1>5. /\ done' \in [{"rows", "crashes", "snapshots", "checks"} -> Nat]
      /\ done'["rows"] = done["rows"] + 1 /\ done.rows = done["rows"] /\ done["rows"] \in Nat
  BY <1>2, <1>3 DEF Typed
<1>6. clock' \in [Session -> Nat \cup {Unset}]
  BY <1>2, <1>3, <1>4 DEF Ticking, Typed
<1>7. Typed'
  BY <1>2, <1>3, <1>5, <1>6 DEF Typed
<1>8. /\ \A r \in wal : r.seq \in Nat /\ r.seq <= done["rows"]
      /\ \A s \in snaps : \A k \in s.held : k \in Nat /\ k <= done["rows"]
  BY <1>3 DEF Typed, RowSet, SnapSet, Keys
<1>9. /\ 0 < done'["rows"] /\ \A r \in wal : r.seq < done'["rows"]
      /\ \A s \in snaps : \A k \in s.held : k < done'["rows"]
  BY <1>5, <1>8
<1>10. Keys'
  <2>1. /\ \A r \in wal : r.seq <= done'["rows"]
        /\ \A s \in snaps : \A k \in s.held : k <= done'["rows"]
    BY <1>5, <1>8
  <2> QED BY <1>2, <1>3, <2>1 DEF Keys
<1>11. InTx'
  <2>1. tx' = [wal |-> wal' \cup {NewRow(d, n, FALSE)'}, items |-> items']
    BY <1>1, <1>2, <1>5 DEF NewRow, Row
  <2> QED BY <1>2, <1>4, <1>9, <2>1 DEF InTx, NewRow
<1>12. Replays'
  BY <1>2, <1>3 DEF Replays, Unfolded
<1> QED BY <1>2, <1>7, <1>10, <1>11, <1>12, TablesKept

\* The new row, among the rows there were.
LEMMA NewRowIsNew ==
    ASSUME Typed, Keys, NEW d \in Delta, NEW n \in Nat, NEW b \in BOOLEAN, 0 < done["rows"],
           \A r \in wal : r.seq < done["rows"]
    PROVE  /\ NewRow(d, n, b) \in RowSet /\ NewRow(d, n, b) \notin wal
           /\ \A r, q \in wal \cup {NewRow(d, n, b)} : r.seq = q.seq => r = q
<1>1. done["rows"] \in 1 .. MaxRows /\ \A r \in wal : r.seq \in Nat
  BY TransferAssumption DEF Typed, RowSet, TransferAssumption
<1>2. NewRow(d, n, b) \in RowSet /\ NewRow(d, n, b).seq = done["rows"]
  BY <1>1 DEF NewRow, RowSet
<1> QED BY <1>1, <1>2 DEF Keys

LEMMA FoldDeltaKeeps ==
    ASSUME IInv, FoldDelta
    PROVE  IInv'
<1> DEFINE row == CHOOSE r \in tx.wal : \A q \in tx.wal : q.seq <= r.seq
<1>1. /\ pc = "folding" /\ pc' = "committing"
      /\ tx' = [wal |-> Marked(tx.wal, row.seq), items |-> Fold(tx.items, row.delta)]
      /\ wal' = wal /\ items' = items /\ lost' = lost /\ snaps' = snaps
      /\ undone' = undone /\ todo' = todo /\ clock' = clock /\ done' = done
  BY DEF FoldDelta
<1>2. Typed /\ Keys /\ Replays
  BY DEF IInv
<1>3. PICK d \in Delta, n \in Nat :
         tx = [wal |-> wal \cup {NewRow(d, n, FALSE)}, items |-> items]
  BY <1>1 DEF IInv, InTx
<1>4. /\ 0 < done["rows"] /\ \A r \in wal : r.seq < done["rows"]
      /\ \A s \in snaps : \A k \in s.held : k < done["rows"]
  BY <1>1 DEF IInv, InTx
<1> DEFINE new == NewRow(d, n, FALSE)
           rows == wal \cup {new}
<1>5. /\ new \in RowSet /\ new \notin wal /\ \A r, q \in rows : r.seq = q.seq => r = q
  <2>1. FALSE \in BOOLEAN
    OBVIOUS
  <2> QED BY <1>2, <1>4, <2>1, NewRowIsNew
<1>6. new.seq = done["rows"] /\ new.delta = d /\ new.lamport = n /\ done["rows"] \in Nat
  BY <1>2 DEF NewRow, Typed
<1> HIDE DEF new
<1>7. \A q \in rows : q.seq <= new.seq /\ q.seq \in Nat
  <2>1. \A q \in wal : q.seq \in Nat
    BY <1>2 DEF Typed, RowSet
  <2> QED BY <1>4, <1>6, <2>1
<1>8. row = new
  <2>1. tx.wal = rows
    BY <1>3 DEF new
  <2>2. row = CHOOSE r \in rows : \A q \in rows : q.seq <= r.seq
    BY <2>1
  <2>3. \A r \in rows : (\A q \in rows : q.seq <= r.seq) => r = new
    <3>1. \A r \in rows : (\A q \in rows : q.seq <= r.seq) => r.seq = new.seq
      BY <1>7
    <3> QED BY <1>5, <3>1
  <2> HIDE DEF row
  <2> QED BY <1>7, <2>2, <2>3
<1>9. Marked(rows, new.seq) = wal \cup {NewRow(d, n, TRUE)}
  <2>1. rows \in SUBSET RowSet /\ new \in rows
    BY <1>2, <1>5 DEF Typed
  <2>2. Marked(rows, new.seq) = (rows \ {new}) \cup {Folded(new)} /\ Folded(new) \in RowSet
    BY <1>5, <2>1, MarkedIs
  <2>3. Folded(new) = NewRow(d, n, TRUE)
    <3>1. /\ Folded(new).seq = new.seq /\ Folded(new).delta = d
          /\ Folded(new).lamport = n /\ Folded(new).folded = TRUE
      BY <1>5, <1>6 DEF Folded, RowSet
    <3>2. /\ NewRow(d, n, TRUE).lamport = n /\ NewRow(d, n, TRUE).seq = new.seq
          /\ NewRow(d, n, TRUE).delta = d /\ NewRow(d, n, TRUE).folded = TRUE
      BY <1>6 DEF NewRow
    <3>3. NewRow(d, n, TRUE) \in RowSet
      <4>1. TRUE \in BOOLEAN
        OBVIOUS
      <4> QED BY <1>2, <1>4, <4>1, NewRowIsNew
    <3> QED BY <2>2, <3>1, <3>2, <3>3, SameRow
  <2> QED BY <1>5, <2>2, <2>3
<1>10. tx' = [wal |-> wal \cup {NewRow(d, n, TRUE)}, items |-> Fold(items, d)]
  <2>1. tx.wal = rows /\ tx.items = items
    BY <1>3 DEF new
  <2> HIDE DEF row, rows
  <2> QED BY <1>1, <1>6, <1>8, <1>9, <2>1
<1>11. InTx'
  BY <1>1, <1>4, <1>10 DEF InTx, NewRow
<1>12. Typed' /\ Keys' /\ Replays'
  BY <1>1, <1>2 DEF Typed, Keys, Replays, Unfolded
<1> QED BY <1>1, <1>11, <1>12, TablesKept

LEMMA RollbackKeeps ==
    ASSUME IInv, Rollback
    PROVE  IInv'
<1>1. /\ pc = "folding" /\ pc' = "live"
      /\ wal' = wal /\ items' = items /\ lost' = lost /\ snaps' = snaps
      /\ undone' = undone /\ todo' = todo /\ clock' = clock /\ done' = done
  BY DEF Rollback
<1>2. Typed' /\ Keys' /\ InTx' /\ Replays'
  BY <1>1 DEF IInv, Typed, Keys, InTx, Replays, Unfolded
<1> QED BY <1>1, <1>2, TablesKept

LEMMA CommitKeeps ==
    ASSUME IInv, Commit
    PROVE  IInv'
<1>1. /\ pc = "committing" /\ pc' = "live" /\ wal' = tx.wal /\ items' = tx.items
      /\ lost' = lost /\ snaps' = snaps /\ undone' = undone
      /\ todo' = todo /\ clock' = clock /\ done' = done
  BY DEF Commit
<1>2. Typed /\ Keys /\ Replays /\ EffectsKept /\ SnapshotsHold /\ ItemsAccountedFor
  BY DEF IInv
<1>3. PICK d \in Delta, n \in Nat :
         tx = [wal |-> wal \cup {NewRow(d, n, TRUE)}, items |-> Fold(items, d)]
  BY <1>1 DEF IInv, InTx
<1>4. /\ 0 < done["rows"] /\ \A r \in wal : r.seq < done["rows"]
      /\ \A s \in snaps : \A k \in s.held : k < done["rows"]
  BY <1>1 DEF IInv, InTx
<1> DEFINE row == NewRow(d, n, TRUE)
<1>5. row.seq = done["rows"] /\ row.folded = TRUE /\ row.delta = d /\ done["rows"] \in Nat
  BY <1>2 DEF NewRow, Typed
<1>6. wal' = wal \cup {row} /\ items' = Fold(items, row.delta)
  BY <1>1, <1>3 DEF NewRow
<1>7. row \in RowSet /\ \A r, q \in wal \cup {row} : r.seq = q.seq => r = q
  <2>1. TRUE \in BOOLEAN
    OBVIOUS
  <2> QED BY <1>2, <1>4, <2>1, NewRowIsNew
<1> HIDE DEF row
<1>8. Typed'
  <2>1. items' \in Items
    BY <1>2, <1>5, <1>6, FoldTyped DEF Typed
  <2>2. IsFiniteSet(wal')
    BY <1>2, <1>6, FS_AddElement DEF Typed
  <2> QED BY <1>1, <1>2, <1>6, <1>7, <2>1, <2>2 DEF Typed
<1>9. Keys'
  <2>1. \A r \in wal' : r.seq <= done["rows"]
    BY <1>2, <1>5, <1>6 DEF Keys
  <2> QED BY <1>1, <1>2, <1>6, <1>7, <2>1 DEF Keys
<1>10. InTx'
  BY <1>1 DEF InTx
<1>11. Replays'
  BY <1>1, <1>2, <1>5, <1>6 DEF Replays, Unfolded
<1>12. EffectsKept'
  <2>1. wal' \in SUBSET RowSet
    BY <1>2, <1>6, <1>7 DEF Typed
  <2>2. \A p \in wal' : p.folded => \/ p.delta = row.delta
                                     \/ \E q \in wal : q.folded /\ q.seq = p.seq
                                                       /\ q.delta = p.delta
    BY <1>6
  <2>3. \A p \in wal' : p.folded /\ p.seq \notin undone => HasEffect(Fold(items, row.delta), p)
    BY <1>2, <1>7, <2>1, <2>2, EffectsAfterFold
  <2> QED BY <1>1, <1>6, <2>3 DEF EffectsKept, HasEffect
<1>13. SnapshotsHold'
  <2>1. \A s \in snaps : row.seq \notin s.held
    BY <1>4, <1>5
  <2> QED BY <1>1, <1>2, <1>6, <2>1 DEF SnapshotsHold, HasEffect
<1>14. ItemsAccountedFor'
  <2>1. items' = Fold(items, d) /\ \E p \in wal' : p.delta = d
    BY <1>5, <1>6
  <2>2. \A q \in wal : \E p \in wal' : p.delta = q.delta
    BY <1>6
  <2> QED BY <1>1, <1>2, <2>1, <2>2, AccountedAfterFold
<1> QED BY <1>8, <1>9, <1>10, <1>11, <1>12, <1>13, <1>14 DEF IInv

LEMMA SnapshotStepKeeps ==
    ASSUME IInv, NEW s \in Session, Snapshot(s)
    PROVE  IInv'
<1> DEFINE new == [session |-> s, lamport |-> Newest(s), made |-> done.snapshots + 1,
                   items |-> items, held |-> {r.seq : r \in wal \ Unfolded} \ undone]
<1>1. /\ pc = "live" /\ pc' = pc /\ snaps' = snaps \cup {new}
      /\ done' = [done EXCEPT !["snapshots"] = @ + 1]
      /\ wal' = wal /\ items' = items /\ lost' = lost /\ undone' = undone
      /\ todo' = todo /\ clock' = clock
  BY DEF Snapshot, Count
<1>2. Typed /\ Keys /\ Replays /\ EffectsKept /\ SnapshotsHold /\ ItemsAccountedFor
  BY DEF IInv
<1>3. /\ done' \in [{"rows", "crashes", "snapshots", "checks"} -> Nat]
      /\ done'["rows"] = done["rows"] /\ done.snapshots + 1 \in Nat
  BY <1>1, <1>2 DEF Typed
<1>4. new \in SnapSet /\ \A k \in new.held : k <= done["rows"]
  <2>1. Newest(s) \in Nat
    BY <1>2, NewestIsNat
  <2> QED BY <1>2, <1>3, <2>1 DEF SnapSet, Typed, RowSet, Keys
<1>5. new.items = items /\ \A k \in new.held : \E r \in wal : /\ r.seq = k /\ r.folded
                                                           /\ r.seq \notin undone
  BY DEF Unfolded
<1> HIDE DEF new
<1>6. Typed' /\ Keys'
  BY <1>1, <1>2, <1>3, <1>4 DEF Typed, Keys
<1>7. InTx' /\ Replays'
  BY <1>1, <1>2 DEF InTx, Replays, Unfolded
<1>8. EffectsKept'
  BY <1>1, <1>2 DEF EffectsKept, HasEffect
<1>9. SnapshotsHold'
  <2>1. ASSUME NEW r \in wal, r.seq \in new.held PROVE HasEffect(new.items, r)
    <3>1. r.folded /\ r.seq \notin undone
      BY <1>2, <1>5, <2>1 DEF Keys
    <3> QED BY <1>2, <1>5, <3>1 DEF EffectsKept
  <2> QED BY <1>1, <1>2, <2>1 DEF SnapshotsHold, HasEffect
<1>10. ItemsAccountedFor'
  BY <1>1, <1>2 DEF ItemsAccountedFor, Accounts
<1> QED BY <1>6, <1>7, <1>8, <1>9, <1>10 DEF IInv

LEMMA LoseBlobKeeps ==
    ASSUME IInv, NEW r \in wal, LoseBlob(r)
    PROVE  IInv'
<1>1. /\ lost' = lost \cup {r.seq} /\ pc' = pc /\ tx' = tx
      /\ wal' = wal /\ items' = items /\ snaps' = snaps /\ undone' = undone
      /\ todo' = todo /\ clock' = clock /\ done' = done
  BY DEF LoseBlob
<1>2. Typed /\ Keys /\ InTx /\ Replays /\ r.seq \in 1 .. MaxRows
  BY DEF IInv, Typed, RowSet
<1>3. Typed' /\ Keys'
  BY <1>1, <1>2 DEF Typed, Keys
<1>4. InTx'
  BY <1>1, <1>2 DEF InTx, NewRow
<1>5. Replays'
  <2>1. \A q : First(q)' = First(q)
    BY <1>1 DEF First
  <2>2. Unfolded' = Unfolded /\ \A q : HasEffect(items', q) = HasEffect(items, q)
    BY <1>1 DEF Unfolded
  <2> QED BY <1>1, <1>2, <2>1, <2>2 DEF Replays, HasEffect
<1> QED BY <1>1, <1>3, <1>4, <1>5, TablesKept

LEMMA CheckKeeps ==
    ASSUME IInv, Check
    PROVE  IInv'
<1>1. /\ pc = "live" /\ pc' = pc /\ done' = [done EXCEPT !["checks"] = @ + 1]
      /\ wal' = wal /\ items' = items /\ lost' = lost /\ snaps' = snaps
      /\ undone' = undone /\ tx' = tx /\ todo' = todo /\ clock' = clock
  BY DEF Check, Count
<1>2. /\ done' \in [{"rows", "crashes", "snapshots", "checks"} -> Nat]
      /\ done'["rows"] = done["rows"]
  BY <1>1 DEF IInv, Typed
<1>3. Typed' /\ Keys' /\ InTx' /\ Replays'
  BY <1>1, <1>2 DEF IInv, Typed, Keys, InTx, Replays, Unfolded
<1> QED BY <1>1, <1>3, TablesKept

\* Repair: after a restore the items are those of the snapshot, which has the
\* effect of the rows it holds; the other folded rows are undone.
LEMMA RepairKeeps ==
    ASSUME IInv, Repair
    PROVE  IInv'
<1>1. /\ pc = "live" /\ pc' \in {"replaying", "rebasing"}
      /\ lost' = lost /\ snaps' = snaps /\ todo' = todo /\ clock' = clock /\ done' = done
  BY DEF Repair
<1>2. Typed /\ Keys /\ Replays /\ EffectsKept /\ SnapshotsHold /\ ItemsAccountedFor
  BY DEF IInv
<1>3. InTx'
  BY <1>1 DEF InTx
<1>4. CASE items' = items /\ wal' = wal /\ undone' = undone
  <2>1. Typed' /\ Keys' /\ Replays'
    BY <1>1, <1>2, <1>4 DEF Typed, Keys, Replays, Unfolded
  <2> QED BY <1>1, <1>3, <1>4, <2>1, TablesKept
<1>5. ASSUME NEW s \in snaps, RestoreSnapshot(s) PROVE IInv'
  <2>1. /\ items' = s.items /\ wal' \subseteq wal
        /\ undone' = {r.seq : r \in wal' \ Unfolded} \ s.held
    BY <1>5 DEF RestoreSnapshot
  <2>2. Typed'
    <3>1. IsFiniteSet(wal') /\ items' \in Items
      BY <1>2, <2>1, FS_Subset DEF Typed, SnapSet
    <3> QED BY <1>1, <1>2, <2>1, <3>1 DEF Typed
  <2>3. Keys'
    BY <1>1, <1>2, <2>1 DEF Keys
  <2>4. Replays'
    BY <1>1, <1>2, <2>1 DEF Replays, Unfolded
  <2>5. EffectsKept'
    <3>1. \A r \in wal' : r.folded /\ r.seq \notin undone' => r.seq \in s.held
      BY <2>1 DEF Unfolded
    <3>2. \A r \in wal' : r.seq \in s.held => HasEffect(s.items, r)
      BY <1>2, <2>1 DEF SnapshotsHold
    <3> QED BY <2>1, <3>1, <3>2 DEF EffectsKept, HasEffect
  <2>6. SnapshotsHold'
    BY <1>1, <1>2, <2>1 DEF SnapshotsHold, HasEffect
  <2>7. ItemsAccountedFor'
    BY <1>1, <2>1 DEF ItemsAccountedFor
  <2> QED BY <1>3, <2>2, <2>3, <2>4, <2>5, <2>6, <2>7 DEF IInv
<1> QED BY <1>4, <1>5 DEF Repair

LEMMA RepairEndsKeep ==
    ASSUME IInv, RepairThrows \/ ReplayAfterRestore \/ Rebase
    PROVE  IInv'
<1>1. /\ wal' = wal /\ items' = items /\ lost' = lost /\ snaps' = snaps
      /\ undone' = undone /\ clock' = clock /\ done' = done
      /\ \/ pc \in {"live", "rebasing"} /\ pc' = "live" /\ todo' = todo
         \/ pc = "replaying" /\ pc' = "recovering" /\ todo' = Unfolded
  BY DEF RepairThrows, ReplayAfterRestore, Rebase
<1>2. Typed' /\ Keys' /\ InTx' /\ Replays'
  BY <1>1 DEF IInv, Typed, Keys, InTx, Replays, Unfolded
<1> QED BY <1>1, <1>2, TablesKept

LEMMA CrashKeeps ==
    ASSUME IInv, Crash
    PROVE  IInv'
<1>1. /\ pc' = "down" /\ todo' = {} /\ clock' = [s \in Session |-> Unset]
      /\ done' = [done EXCEPT !["crashes"] = @ + 1]
      /\ wal' = wal /\ items' = items /\ lost' = lost /\ snaps' = snaps /\ undone' = undone
  BY DEF Crash, Count
<1>2. /\ done' \in [{"rows", "crashes", "snapshots", "checks"} -> Nat]
      /\ done'["rows"] = done["rows"]
  BY <1>1 DEF IInv, Typed
<1>3. Typed' /\ Keys' /\ InTx' /\ Replays'
  BY <1>1, <1>2 DEF IInv, Typed, Keys, InTx, Replays
<1> QED BY <1>1, <1>3, TablesKept

-----------------------------------------------------------------------------
LEMMA InitIInv == Init => IInv
<1> SUFFICES ASSUME Init PROVE IInv
  OBVIOUS
<1>1. /\ wal = {} /\ lost = {} /\ todo = {} /\ pc = "down" /\ snaps = {}
      /\ items = [i \in Id |-> Absent] /\ clock = [s \in Session |-> Unset]
      /\ done = [w \in {"rows", "crashes", "snapshots", "checks"} |-> 0]
  BY DEF Init
<1>2. Typed
  <2>1. [i \in Id |-> Absent] \in Items /\ MaxRows \in Nat /\ IsFiniteSet(wal)
    BY <1>1, TransferAssumption, FS_EmptySet DEF Items, Absent, TransferAssumption
  <2> QED BY <1>1, <2>1 DEF Typed
<1>3. Keys /\ InTx /\ Replays
  BY <1>1 DEF Keys, InTx, Replays, Unfolded
<1>4. EffectsKept /\ SnapshotsHold /\ ItemsAccountedFor
  BY <1>1 DEF EffectsKept, SnapshotsHold, ItemsAccountedFor
<1> QED BY <1>2, <1>3, <1>4 DEF IInv

LEMMA NextIInv == IInv /\ [Next]_vars => IInv'
<1> SUFFICES ASSUME IInv, [Next]_vars PROVE IInv'
  OBVIOUS
<1>1. ASSUME NEW d \in Delta, LeftUnfolded(d) \/ Append_(d) PROVE IInv'
  BY <1>1, LeftUnfoldedKeeps, AppendKeeps
<1>2. CASE Open \/ Refold \/ MarkRefolded \/ Recovered
  BY <1>2, OpenKeeps, RefoldKeeps, MarkRefoldedKeeps, RecoveredKeeps
<1>3. CASE FoldDelta \/ Rollback \/ Commit
  BY <1>3, FoldDeltaKeeps, RollbackKeeps, CommitKeeps
<1>4. ASSUME NEW s \in Session, Snapshot(s) PROVE IInv'
  BY <1>4, SnapshotStepKeeps
<1>5. CASE Check \/ Repair \/ RepairThrows \/ ReplayAfterRestore \/ Rebase
  BY <1>5, CheckKeeps, RepairKeeps, RepairEndsKeep
<1>6. ASSUME NEW r \in wal, LoseBlob(r) PROVE IInv'
  BY <1>6, LoseBlobKeeps
<1>7. CASE Crash
  BY <1>7, CrashKeeps
<1>8. CASE UNCHANGED vars
  <2>1. Typed' /\ Keys' /\ InTx'
    BY <1>8 DEF vars, IInv, Typed, Keys, InTx, NewRow
  <2>2. \A r : First(r)' = First(r)
    BY <1>8 DEF vars, First
  <2>3. Replays'
    BY <1>8, <2>2 DEF vars, IInv, Replays, Unfolded, HasEffect
  <2> QED BY <1>8, <2>1, <2>3, TablesKept DEF vars
<1> QED BY <1>1, <1>2, <1>3, <1>4, <1>5, <1>6, <1>7, <1>8 DEF Next

THEOREM Invariance == Spec => []IInv
  BY InitIInv, NextIInv, PTL DEF Spec

\* Every row has a key of its own and a delta that was sent, and recovery,
\* transactions and repairs follow one another as the code calls them.
THEOREM TypeCorrect == Spec => []TypeOK
<1>1. IInv => TypeOK
  BY DEF IInv, Typed, RowSet, Keys, TypeOK
<1> QED BY <1>1, Invariance, PTL

\* After any crashes, rollbacks, repeated replays and lost blobs, in any order of
\* stamps and sessions, a write whose row is marked folded has had its effect,
\* until a restore to a snapshot of before that takes it back (apply,
\* recoverUnfolded, restore).
THEOREM EffectsAreKept == Spec => []EffectsKept
<1>1. IInv => EffectsKept
  BY DEF IInv
<1> QED BY <1>1, Invariance, PTL

\* ... and every item is what a row of the log wrote or superseded, or what some
\* snapshot holds: neither a delta that was rolled back nor one that a restore has
\* dropped leaves anything in the items.
THEOREM ItemsAreAccountedFor == Spec => []ItemsAccountedFor
<1>1. IInv => ItemsAccountedFor
  BY DEF IInv
<1> QED BY <1>1, Invariance, PTL

\* Once the database is open, a row that is still unfolded is one whose payload
\* cannot be read (recoverUnfolded goes on past a row that fails).
THEOREM RecoveryIsComplete == Spec => []RecoveryComplete
<1>1. IInv => RecoveryComplete
  BY DEF IInv, Replays, RecoveryComplete
<1> QED BY <1>1, Invariance, PTL
=============================================================================

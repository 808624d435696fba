------------------------- MODULE ContinuationOverlap -------------------------
(***************************************************************************)
(* ContinuationOverlapDeduplicator (packages/core/src/partial-recovery.ts):*)
(* a provider that continues a partial answer may repeat its end; the      *)
(* overlap is removed from the stream, and text is withheld only while the *)
(* overlap is undecided.                                                   *)
(*                                                                         *)
(* A pure algorithm: push and finish as functions of the object's fields.  *)
(* A string is a sequence of UTF-16 code units; "H" and "L" stand for the  *)
(* two halves of a surrogate pair, which make one code point together.     *)
(***************************************************************************)
EXTENDS Integers, Sequences, SequencesExt, FiniteSetsExt

CONSTANTS
    Letters,        \* code units that are code points of their own
    MaxOverlap,     \* maxOverlapCodePoints
    MaxExisting,    \* bound: code points of the text shown so far
    MaxSent         \* bound: code units of the continuation

ASSUME OverlapAssumption ==
    /\ MaxOverlap \in Nat /\ MaxExisting \in Nat /\ MaxSent \in Nat
    /\ Letters \cap {"H", "L"} = {}

Unit   == Letters \cup {"H", "L"}
Texts  == {<<u>> : u \in Letters} \cup {<<"H", "L">>}
Strings(set, n) == UNION {[1..k -> set] : k \in 0..n}

\* Array.from(value): a high surrogate takes the low one after it with it.
ToCodePoints(value) ==
    LET Low(i)  == i > 1 /\ value[i] = "L" /\ value[i - 1] = "H"
        starts  == SelectSeq([i \in 1..Len(value) |-> i], LAMBDA i : ~Low(i))
    IN  [n \in 1..Len(starts) |->
           IF starts[n] < Len(value) /\ Low(starts[n] + 1)
           THEN <<"H", "L">> ELSE <<value[starts[n]]>>]

\* join("")
Join(points) == FlattenSeq(points)

Suffix(points, size) == SubSeq(points, Len(points) - size + 1, Len(points))
-----------------------------------------------------------------------------
\* The fields of a deduplicator for the existing text (as code points), and
\* all that push() and finish() have returned.
Fresh(existing) == [existing |-> existing, pending |-> <<>>, carry |-> <<>>,
                    resolved |-> FALSE, output |-> <<>>]

\* normalizeChunk: a trailing high surrogate waits for its other half.
Normalized(carry, chunk) ==
    LET value == carry \o chunk
        split == value # <<>> /\ Last(value) = "H"
    IN  [value |-> IF split THEN Front(value) ELSE value,
         carry |-> IF split THEN <<"H">> ELSE <<>>]

\* resolve: the suffixes of the existing text the pending text agrees with.
Sizes(existing) == 1 .. Min({Len(existing), MaxOverlap})
Matching(existing, pend) ==
    {size \in Sizes(existing) : \A i \in 1 .. Min({size, Len(pend)}) :
                                   Suffix(existing, size)[i] = pend[i]}
\* (Mutant: whatever is no longer than a suffix is withheld.)
UndecidedByLength(existing, pend) == \E size \in Sizes(existing) : size >= Len(pend)
Undecided(existing, pend) == \E size \in Matching(existing, pend) : size >= Len(pend)
Repeated(existing, pend) ==
    Max({0} \cup {size \in Matching(existing, pend) : size <= Len(pend)})
Rest(existing, pend) == Join(SubSeq(pend, Repeated(existing, pend) + 1, Len(pend)))

Pushed(d, chunk) ==
    LET norm == Normalized(d.carry, chunk)
        pend == d.pending \o ToCodePoints(norm.value)
        next == [d EXCEPT !.carry = norm.carry]
    IN  CASE d.resolved -> [next EXCEPT !.output = d.output \o norm.value]
          [] ~d.resolved /\ Undecided(d.existing, pend) -> [next EXCEPT !.pending = pend]
          [] OTHER -> [next EXCEPT !.pending = <<>>, !.resolved = TRUE,
                                   !.output = d.output \o Rest(d.existing, pend)]

\* finish: everything returned, once the stream has ended.
Finished(d) ==
    IF d.resolved THEN d.output \o d.carry
    ELSE d.output \o Rest(d.existing, IF d.carry = <<>> THEN d.pending
                                      ELSE Append(d.pending, d.carry))

-----------------------------------------------------------------------------
\* The reference: what the whole continuation adds to the existing text, once
\* the longest end of that text it opens with is removed.
Missing(existing, whole) ==
    LET points == ToCodePoints(whole)
        Repeats(k) == k <= Len(points) /\ SubSeq(points, 1, k) = Suffix(existing, k)
    IN  Join(SubSeq(points, Max({0} \cup {n \in Sizes(existing) : Repeats(n)}) + 1, Len(points)))

\* A continuation cut into deltas after the units in cuts.
Deltas(whole, cuts) ==
    LET ends == SetToSortSeq(cuts \cup {Len(whole)}, <)
    IN  [n \in DOMAIN ends |-> SubSeq(whole, (IF n = 1 THEN 0 ELSE ends[n - 1]) + 1, ends[n])]

\* Whatever was shown before, and however the continuation is cut into deltas,
\* even inside a surrogate pair: what is shown in the end is exactly the
\* missing part, what has been shown early never has to be taken back, and
\* text is withheld only while it still repeats the end of what was shown
\* (push, finish: "It withholds only the unresolved overlap prefix").
OverlapIsExact ==
    \A existing \in Strings(Texts, MaxExisting), whole \in Strings(Unit, MaxSent) :
       \A cuts \in SUBSET (1 .. Len(whole) - 1) :
          LET d == FoldLeft(Pushed, Fresh(existing), Deltas(whole, cuts))
              missing == Missing(existing, whole)
          IN  /\ Finished(d) = missing
              /\ d.resolved => d.output \o d.carry = missing
              /\ ~d.resolved => /\ d.output = <<>>
                                /\ d.pending = <<>> \/ \E size \in Sizes(existing) :
                                      IsPrefix(d.pending, Suffix(existing, size))
==============================================================================

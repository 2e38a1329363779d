------------------------- MODULE LedgerHistory_proofs -------------------------
(***************************************************************************)
(* What LedgerHistory promises, for every set of accounts, page size and   *)
(* number of entries: the balances add up to the entries of the file, and  *)
(* a reader is given its history without a gap or a repeat.                *)
(*                                                                         *)
(* The first part is about the two folds of the ledger, the history of an  *)
(* account and the totals: each of a longer ledger is got from that of the *)
(* shorter one and the last entry.  The second is about pages: the page    *)
(* behind a cursor goes on where what has been read ends.  The third is    *)
(* the inductive invariant.  Its core is that a history grows only in      *)
(* front, so that the one of the first page stays the end of the one that  *)
(* is there now, and that a history is descending, so that a cursor is at  *)
(* one place of it.                                                        *)
(***************************************************************************)
EXTENDS LedgerHistory, Folding_proofs, SequenceTheorems

-----------------------------------------------------------------------------
(* Histories.                                                              *)

\* One step of HistoryOf: an entry that is chosen goes in front (entriesFor).

Chosen(entries, a, direction, history, i) ==
  IF Matches(entries[i], a, direction) THEN <<i>> \o history ELSE history

\* g folds the places of some entries into a history.
Collects(g, entries, a, direction) ==
  g = [T \in SUBSET (DOMAIN entries) |->
         IF T = {} THEN <<>> ELSE Chosen(entries, a, direction, g[T \ {Max(T)}], Max(T))]

\* A history is such a fold, where there is one.
LEMMA HistoryFolds ==
  ASSUME NEW n \in Nat, NEW entries, DOMAIN entries = 1..n, NEW a, NEW direction
  PROVE  \E g : /\ HistoryOf(entries, a, direction) = g[DOMAIN entries]
                /\ (\E h : Collects(h, entries, a, direction)) => Collects(g, entries, a, direction)
<1> DEFINE places == [i \in DOMAIN entries |-> i]
           P(g) == g = [T \in SUBSET (DOMAIN places) |->
                          IF T = {} THEN <<>>
                          ELSE LET x == Max(T)
                               IN IF Matches(entries[places[x]], a, direction)
                                    THEN <<places[x]>> \o g[T \ {x}] ELSE g[T \ {x}]]
<1>1. HistoryOf(entries, a, direction) = (CHOOSE g : P(g))[DOMAIN places]
  BY DEF HistoryOf, FoldLeftDomain, FoldLeft, MapThenFoldSet
<1>2. ASSUME NEW T \in SUBSET (DOMAIN entries), T # {}
      PROVE  places[Max(T)] = Max(T)
  BY <1>2, WithoutGreatest
<1>3. \A g : P(g) <=> Collects(g, entries, a, direction)
  BY <1>2 DEF Collects, Chosen
<1> HIDE DEF P
<1>4. (\E h : P(h)) => P(CHOOSE g : P(g))
  OBVIOUS
<1> QED
  BY <1>1, <1>3, <1>4

\* A fold of an account's places exists, and there is one only.
LEMMA CollectsExists ==
  ASSUME NEW n \in Nat, NEW entries, DOMAIN entries = 1..n, NEW a, NEW direction
  PROVE  \E g \in [SUBSET (1..n) -> Seq(Nat)] : Collects(g, entries, a, direction)
<1> DEFINE F == [p \in Seq(Nat) \X (1..n) |-> Chosen(entries, a, direction, p[1], p[2])]
<1>1. ASSUME NEW p \in Seq(Nat) \X (1..n)
      PROVE  F[p] \in Seq(Nat)
  <2>1. p[1] \in Seq(Nat) /\ p[2] \in Nat
    OBVIOUS
  <2>2. <<p[2]>> \o p[1] \in Seq(Nat)
    BY <2>1
  <2> QED
    BY <2>1, <2>2 DEF Chosen
<1>2. F \in [Seq(Nat) \X (1..n) -> Seq(Nat)] /\ <<>> \in Seq(Nat)
  BY <1>1
<1>3. PICK g \in [SUBSET (1..n) -> Seq(Nat)] : IsFold(g, n, <<>>, F)
  <2> HIDE DEF F
  <2> QED
    BY <1>2, FoldExists
<1>4. ASSUME NEW T \in SUBSET (1..n)
      PROVE  g[T] = IF T = {} THEN <<>> ELSE Chosen(entries, a, direction, g[T \ {Max(T)}], Max(T))
  <2>1. g[T] = IF T = {} THEN <<>> ELSE F[<<g[T \ {Max(T)}], Max(T)>>]
    BY <1>3 DEF IsFold
  <2>2. ASSUME T # {}
        PROVE  F[<<g[T \ {Max(T)}], Max(T)>>] = Chosen(entries, a, direction, g[T \ {Max(T)}], Max(T))
    <3>1. T \ {Max(T)} \in SUBSET (1..n) /\ Max(T) \in 1..n
      BY <2>2, WithoutGreatest
    <3>2. <<g[T \ {Max(T)}], Max(T)>> \in Seq(Nat) \X (1..n)
      BY <3>1
    <3> QED
      BY <3>2
  <2> QED
    BY <2>1, <2>2
<1> QED
  BY <1>3, <1>4 DEF Collects

\* The folds of two ledgers agree as far as the ledgers do.
LEMMA CollectsUnique ==
  ASSUME NEW n \in Nat, NEW old, NEW new, DOMAIN old = 1..n,
         NEW m \in Nat, n \leq m, DOMAIN new = 1..m,
         \A i \in 1..n : new[i] = old[i],
         NEW a, NEW direction,
         NEW g, Collects(g, old, a, direction), NEW h, Collects(h, new, a, direction)
  PROVE  Agree(n, g, h)
<1>1. ASSUME NEW T \in SUBSET (1..n), T = {} \/ g[T \ {Max(T)}] = h[T \ {Max(T)}]
      PROVE  g[T] = h[T]
  <2>1. T \in SUBSET (1..m)
    OBVIOUS
  <2>2. g[T] = IF T = {} THEN <<>> ELSE Chosen(old, a, direction, g[T \ {Max(T)}], Max(T))
    BY DEF Collects
  <2>3. h[T] = IF T = {} THEN <<>> ELSE Chosen(new, a, direction, h[T \ {Max(T)}], Max(T))
    BY <2>1 DEF Collects
  <2>4. T # {} => Max(T) \in 1..n
    BY WithoutGreatest
  <2> QED
    BY <1>1, <2>2, <2>3, <2>4 DEF Chosen
<1>2. AgreeByStep(n, g, h)
  BY <1>1 DEF AgreeByStep
<1> QED
  BY <1>2, FoldUnique

\* The history of some entries is that of the entries before the last, and the last one
\* in front of it if it is chosen (LedgerStore.entriesFor).
LEMMA HistoryGrows ==
  ASSUME NEW n \in Nat, NEW old, NEW new, DOMAIN old = 1..n, DOMAIN new = 1..(n + 1),
         \A i \in 1..n : new[i] = old[i], NEW a, NEW direction
  PROVE  /\ HistoryOf(old, a, direction) \in Seq(Nat)
         /\ HistoryOf(new, a, direction) = Chosen(new, a, direction, HistoryOf(old, a, direction), n + 1)
<1>0. n + 1 \in Nat /\ n \leq n + 1
  OBVIOUS
<1>1. PICK g : HistoryOf(old, a, direction) = g[1..n] /\ Collects(g, old, a, direction)
  BY HistoryFolds, CollectsExists
<1>2. PICK h : HistoryOf(new, a, direction) = h[1..(n + 1)] /\ Collects(h, new, a, direction)
  BY <1>0, HistoryFolds, CollectsExists
<1>3. PICK f \in [SUBSET (1..n) -> Seq(Nat)] : Collects(f, old, a, direction)
  BY CollectsExists
<1>4. Agree(n, g, f)
  BY n \leq n, <1>1, <1>3, CollectsUnique
<1>8. Agree(n, g, h)
  BY <1>0, <1>1, <1>2, CollectsUnique
<1>5. g[1..n] \in Seq(Nat) /\ g[1..n] = h[1..n]
  BY <1>3, <1>4, <1>8 DEF Agree
<1>6. Max(1..(n + 1)) = n + 1 /\ (1..(n + 1)) \ {n + 1} = 1..n
  BY GreatestIsLast
<1>7. h[1..(n + 1)] = Chosen(new, a, direction, h[1..n], n + 1)
  <2> DEFINE T == 1..(n + 1)
  <2>1. h = [U \in SUBSET T |-> IF U = {} THEN <<>>
                              ELSE Chosen(new, a, direction, h[U \ {Max(U)}], Max(U))]
    BY <1>2 DEF Collects
  <2>2. T \in SUBSET T /\ T # {}
    <3>1. n + 1 \in T
      BY <1>0
    <3> QED
      BY <3>1
  <2>3. Max(T) = n + 1 /\ T \ {n + 1} = 1..n
    BY <1>6
  <2> HIDE DEF T
  <2>4. h[T] = Chosen(new, a, direction, h[T \ {Max(T)}], Max(T))
    BY <2>1, <2>2
  <2> QED
    BY <2>3, <2>4 DEF T
<1> QED
  BY <1>1, <1>2, <1>5, <1>7

\* Nobody has a history in an empty ledger.
LEMMA HistoryEmpty ==
  ASSUME NEW a, NEW direction
  PROVE  HistoryOf(<<>>, a, direction) = <<>>
<1>1. PICK g : HistoryOf(<<>>, a, direction) = g[1..0] /\ Collects(g, <<>>, a, direction)
  <2>1. DOMAIN <<>> = 1..0
    OBVIOUS
  <2> QED
    BY <2>1, HistoryFolds, CollectsExists
<1>2. g[{}] = <<>>
  BY <1>1 DEF Collects
<1> QED
  BY <1>1, <1>2

-----------------------------------------------------------------------------
(* Totals.                                                                 *)

\* The totals of an account, and of all; restore and its fold.
Summary == [balance : Int, earnedStageCount : Nat, spentStageCount : Nat]
Totals == [Account -> Summary]
NoTotals == [a \in Account |-> NoSummary]

\* g folds the places of some entries into totals.
AddsUp(g, entries) ==
  g = [T \in SUBSET (DOMAIN entries) |->
         IF T = {} THEN NoTotals ELSE AddToSummary(g[T \ {Max(T)}], entries[Max(T)])]

\* What restore finds in some entries.
RestoreOf(entries) == FoldLeft(AddToSummary, NoTotals, entries)

\* The totals that restore computes are such a fold, where there is one.
LEMMA TotalsFold ==
  ASSUME NEW entries
  PROVE  \E g : /\ RestoreOf(entries) = g[DOMAIN entries]
                /\ (\E h : AddsUp(h, entries)) => AddsUp(g, entries)
<1> DEFINE P(g) == g = [T \in SUBSET (DOMAIN entries) |->
                          IF T = {} THEN NoTotals
                          ELSE LET x == Max(T) IN AddToSummary(g[T \ {x}], entries[x])]
<1>1. RestoreOf(entries) = (CHOOSE g : P(g))[DOMAIN entries]
  BY DEF RestoreOf, FoldLeft, MapThenFoldSet
<1>2. \A g : P(g) <=> AddsUp(g, entries)
  BY DEF AddsUp
<1> HIDE DEF P
<1>3. (\E h : P(h)) => P(CHOOSE g : P(g))
  OBVIOUS
<1> QED
  BY <1>1, <1>2, <1>3

\* One entry more leaves totals what they are (addToSummary).
LEMMA AddToSummaryType ==
  ASSUME NEW sums \in Totals, NEW entry \in Entry
  PROVE  AddToSummary(sums, entry) \in Totals
<1>1. entry.account \in Account /\ entry.creditDelta \in {1, -1}
  BY DEF Entry
<1>2. sums[entry.account] \in Summary
  BY <1>1 DEF Totals
<1>3. Plus(sums[entry.account], entry) \in Summary
  BY <1>1, <1>2 DEF Plus, Summary
<1> QED
  BY <1>1, <1>3 DEF AddToSummary, Totals

\* A fold of a ledger into totals exists.
LEMMA AddsUpExists ==
  ASSUME NEW entries \in Seq(Entry)
  PROVE  \E g \in [SUBSET (1..Len(entries)) -> Totals] : AddsUp(g, entries)
<1> DEFINE n == Len(entries)
           F == [p \in Totals \X (1..n) |-> AddToSummary(p[1], entries[p[2]])]
<1>1. ASSUME NEW p \in Totals \X (1..n)
      PROVE  F[p] \in Totals
  <2>1. p[1] \in Totals /\ p[2] \in 1..n /\ entries[p[2]] \in Entry
    OBVIOUS
  <2> QED
    BY <2>1, AddToSummaryType
<1>2. F \in [Totals \X (1..n) -> Totals] /\ NoTotals \in Totals /\ n \in Nat
  <2>1. NoTotals \in Totals
    BY DEF NoTotals, NoSummary, Totals, Summary
  <2> QED
    BY <1>1, <2>1
<1>3. PICK g \in [SUBSET (1..n) -> Totals] : IsFold(g, n, NoTotals, F)
  <2> HIDE DEF F, n
  <2> QED
    BY <1>2, FoldExists
<1>4. ASSUME NEW T \in SUBSET (1..n)
      PROVE  g[T] = IF T = {} THEN NoTotals ELSE AddToSummary(g[T \ {Max(T)}], entries[Max(T)])
  <2>1. g[T] = IF T = {} THEN NoTotals ELSE F[<<g[T \ {Max(T)}], Max(T)>>]
    BY <1>3 DEF IsFold
  <2>2. ASSUME T # {}
        PROVE  F[<<g[T \ {Max(T)}], Max(T)>>] = AddToSummary(g[T \ {Max(T)}], entries[Max(T)])
    <3>1. T \ {Max(T)} \in SUBSET (1..n) /\ Max(T) \in 1..n
      BY <2>2, WithoutGreatest
    <3>2. <<g[T \ {Max(T)}], Max(T)>> \in Totals \X (1..n)
      BY <3>1
    <3> QED
      BY <3>2
  <2> QED
    BY <2>1, <2>2
<1>5. DOMAIN entries = 1..n
  OBVIOUS
<1> HIDE DEF F, n
<1>6. AddsUp(g, entries)
  BY <1>4, <1>5 DEF AddsUp
<1> QED
  BY <1>6 DEF n

\* The folds of two ledgers into totals agree as far as the ledgers do.
LEMMA AddsUpUnique ==
  ASSUME NEW n \in Nat, NEW old, NEW new, DOMAIN old = 1..n,
         NEW m \in Nat, n \leq m, DOMAIN new = 1..m,
         \A i \in 1..n : new[i] = old[i],
         NEW g, AddsUp(g, old), NEW h, AddsUp(h, new)
  PROVE  Agree(n, g, h)
<1>1. ASSUME NEW T \in SUBSET (1..n), T = {} \/ g[T \ {Max(T)}] = h[T \ {Max(T)}]
      PROVE  g[T] = h[T]
  <2>1. T \in SUBSET (1..m)
    OBVIOUS
  <2>2. g[T] = IF T = {} THEN NoTotals ELSE AddToSummary(g[T \ {Max(T)}], old[Max(T)])
    BY DEF AddsUp
  <2>3. h[T] = IF T = {} THEN NoTotals ELSE AddToSummary(h[T \ {Max(T)}], new[Max(T)])
    BY <2>1 DEF AddsUp
  <2>4. T # {} => Max(T) \in 1..n
    BY WithoutGreatest
  <2> QED
    BY <1>1, <2>2, <2>3, <2>4
<1>2. AgreeByStep(n, g, h)
  BY <1>1 DEF AgreeByStep
<1> QED
  BY <1>2, FoldUnique

\* The totals of a ledger are those of the ledger before its last entry, and that entry
\* (LedgerStore.restore and addToSummary).
LEMMA TotalsGrow ==
  ASSUME NEW old \in Seq(Entry), NEW entry \in Entry
  PROVE  /\ RestoreOf(old) \in Totals
         /\ RestoreOf(Append(old, entry)) = AddToSummary(RestoreOf(old), entry)
<1> DEFINE n == Len(old)
           new == Append(old, entry)
<1>0. /\ n \in Nat /\ n + 1 \in Nat /\ n \leq n + 1 /\ n \leq n
      /\ new \in Seq(Entry) /\ Len(new) = n + 1 /\ DOMAIN new = 1..(n + 1) /\ DOMAIN old = 1..n
      /\ \A i \in 1..n : new[i] = old[i]
      /\ new[n + 1] = entry
  OBVIOUS
<1> HIDE DEF n, new
<1>1. PICK f \in [SUBSET (1..n) -> Totals] : AddsUp(f, old)
  BY <1>0, AddsUpExists DEF n
<1>2. PICK g : RestoreOf(old) = g[1..n] /\ AddsUp(g, old)
  BY <1>0, <1>1, TotalsFold
<1>3. \E k : AddsUp(k, new)
  BY <1>0, AddsUpExists
<1>4. PICK h : RestoreOf(new) = h[1..(n + 1)] /\ AddsUp(h, new)
  BY <1>0, <1>3, TotalsFold
<1>5. Agree(n, g, f)
  BY <1>0, <1>1, <1>2, AddsUpUnique
<1>6. Agree(n, g, h)
  BY <1>0, <1>2, <1>4, AddsUpUnique
<1>7. g[1..n] \in Totals /\ g[1..n] = h[1..n]
  BY <1>1, <1>5, <1>6 DEF Agree
<1>8. Max(1..(n + 1)) = n + 1 /\ (1..(n + 1)) \ {n + 1} = 1..n
  BY <1>0, GreatestIsLast
<1>9. h[1..(n + 1)] = AddToSummary(h[1..n], entry)
  <2> DEFINE T == 1..(n + 1)
  <2>1. h = [U \in SUBSET T |-> IF U = {} THEN NoTotals
                                ELSE AddToSummary(h[U \ {Max(U)}], new[Max(U)])]
    BY <1>0, <1>4 DEF AddsUp
  <2>2. T \in SUBSET T /\ n + 1 \in T
    BY <1>0
  <2>3. Max(T) = n + 1 /\ T \ {n + 1} = 1..n
    BY <1>8
  <2> HIDE DEF T
  <2>4. h[T] = AddToSummary(h[T \ {Max(T)}], new[Max(T)])
    BY <2>1, <2>2
  <2> QED
    BY <1>0, <2>3, <2>4 DEF T
<1> QED
  BY <1>2, <1>4, <1>7, <1>9 DEF new

\* An empty ledger restores to nothing.
LEMMA TotalsEmpty == RestoreOf(<<>>) = NoTotals
<1>1. <<>> \in Seq(Entry) /\ Len(<<>>) = 0 /\ DOMAIN <<>> = 1..0 /\ 1..0 = {}
  OBVIOUS
<1>2. PICK g : RestoreOf(<<>>) = g[1..0] /\ AddsUp(g, <<>>)
  BY <1>1, AddsUpExists, TotalsFold
<1>3. g[{}] = NoTotals
  BY <1>2 DEF AddsUp
<1> QED
  BY <1>1, <1>2, <1>3

-----------------------------------------------------------------------------
(* Pages.                                                                  *)

\* What has been read is the first part of a history.
ReadOf(s, history) == Len(s) \leq Len(history) /\ s = SubSeq(history, 1, Len(s))

\* Newest first, so that no entry is there twice.
Descending(s) == \A i, j \in 1..Len(s) : i < j => s[j] < s[i]

\* The first entries of a sequence.
LEMMA FirstOf ==
  ASSUME NEW s \in Seq(Nat), NEW k \in Nat, k \leq Len(s)
  PROVE  /\ SubSeq(s, 1, k) \in Seq(Nat) /\ Len(SubSeq(s, 1, k)) = k
         /\ \A i \in 1..k : SubSeq(s, 1, k)[i] = s[i]
OBVIOUS

\* The next d of a sequence that begins with others.
LEMMA NextOf ==
  ASSUME NEW newer \in Seq(Nat), NEW s \in Seq(Nat), NEW k \in Nat, NEW d \in Nat, k + d \leq Len(s)
  PROVE  /\ SubSeq(newer \o s, Len(newer) + k + 1, Len(newer) + k + d) = SubSeq(s, k + 1, k + d)
         /\ SubSeq(s, k + 1, k + d) \in Seq(Nat) /\ Len(SubSeq(s, k + 1, k + d)) = d
         /\ d > 0 => SubSeq(s, k + 1, k + d)[d] = s[k + d]
<1>1. Len(newer) \in Nat /\ Len(s) \in Nat
  OBVIOUS
<1>2. CASE d = 0
  <2>1. Len(newer) + k + d < Len(newer) + k + 1 /\ k + d < k + 1
    BY <1>1, <1>2
  <2>2. SubSeq(newer \o s, Len(newer) + k + 1, Len(newer) + k + d) = <<>> /\ SubSeq(s, k + 1, k + d) = <<>>
    BY <1>1, <2>1, SubSeqEmpty
  <2> QED
    BY <1>2, <2>2
<1>3. CASE d > 0
  <2> DEFINE m == Len(newer) + k + 1
             n == Len(newer) + k + d
  <2>1. /\ m \in Len(newer) + 1 .. Len(newer) + Len(s) /\ n \in Len(newer) + 1 .. Len(newer) + Len(s)
        /\ m - Len(newer) = k + 1 /\ n - Len(newer) = k + d
    BY <1>1, <1>3
  <2>2. SubSeq(newer \o s, m, n) = SubSeq(s, k + 1, k + d)
    <3> HIDE DEF m, n
    <3> QED
      BY ONLY <2>1, newer \in Seq(Nat), s \in Seq(Nat), SubSeqOfConcat2, SMTT(20)
  <2> QED
    BY <1>1, <1>3, <2>2
<1> QED
  BY <1>2, <1>3

\* How many entries a page has.
LEMMA PageSize ==
  ASSUME NEW start \in Nat, NEW size \in Nat \ {0}, NEW len \in Nat, start \leq len
  PROVE  \E d \in Nat : /\ start + d = IF start + size < len THEN start + size ELSE len
                        /\ start + d \leq len /\ (start < len => d > 0)
<1> DEFINE d == IF start + size < len THEN size ELSE len - start
<1>1. d \in Nat
  OBVIOUS
<1>2. start + d = IF start + size < len THEN start + size ELSE len
  OBVIOUS
<1> QED
  BY <1>1, <1>2

\* The page that begins behind the first k entries of a history, newer ones in front.
PageBehind(newer, history, k, size) ==
  Slice(newer \o history, Len(newer) + k, Len(newer) + k + size)

\* A page of a history that begins with newer entries: it goes on where the part read so
\* far ends, and there is more exactly when it does not reach the end.
LEMMA PageGoesOn ==
  ASSUME NEW newer \in Seq(Nat), NEW history \in Seq(Nat), NEW k \in 0..Len(history),
         NEW size \in Nat \ {0}
  PROVE  LET page == PageBehind(newer, history, k, size)
             got == SubSeq(history, 1, k) \o page
         IN /\ page \in Seq(Nat) /\ got \in Seq(Nat)
            /\ ReadOf(got, history)
            /\ (k < Len(history) => page # <<>>)
            /\ (Len(newer) + k + Len(page) < Len(newer \o history) <=> got # history)
            /\ (page # <<>> => got # <<>> /\ page[Len(page)] = got[Len(got)])
<1> DEFINE all == newer \o history
           start == Len(newer) + k
           page == PageBehind(newer, history, k, size)
           got == SubSeq(history, 1, k) \o page
<1>0. /\ all = newer \o history /\ start = Len(newer) + k /\ start \in Nat
      /\ page = Slice(all, start, start + size) /\ got = SubSeq(history, 1, k) \o page
  BY DEF PageBehind
<1> HIDE DEF all, start, page, got
<1>1. /\ Len(newer) \in Nat /\ Len(history) \in Nat /\ k \in Nat /\ k \leq Len(history)
  OBVIOUS
<1>2. Len(all) = Len(newer) + Len(history)
  BY <1>0, ConcatProperties
<1>3. start \leq Len(all) /\ Len(all) \in Nat
  BY <1>0, <1>1, <1>2
<1>4. PICK d \in Nat : /\ start + d = IF start + size < Len(all) THEN start + size ELSE Len(all)
                       /\ start + d \leq Len(all) /\ (start < Len(all) => d > 0)
  BY <1>0, <1>3, PageSize
<1>5. k + d \leq Len(history) /\ (k < Len(history) => d > 0) /\ k + d \in Nat
  BY <1>0, <1>1, <1>2, <1>4
<1>6. page = SubSeq(newer \o history, Len(newer) + k + 1, Len(newer) + k + d)
  BY <1>0, <1>4 DEF Slice
<1>7. /\ page = SubSeq(history, k + 1, k + d) /\ page \in Seq(Nat) /\ Len(page) = d
      /\ d > 0 => page[d] = history[k + d]
  <2>1. k \in Nat /\ d \in Nat /\ k + d \leq Len(history)
    BY <1>1, <1>5
  <2>2. /\ SubSeq(newer \o history, Len(newer) + k + 1, Len(newer) + k + d) = SubSeq(history, k + 1, k + d)
        /\ SubSeq(history, k + 1, k + d) \in Seq(Nat) /\ Len(SubSeq(history, k + 1, k + d)) = d
        /\ d > 0 => SubSeq(history, k + 1, k + d)[d] = history[k + d]
    BY ONLY <2>1, newer \in Seq(Nat), history \in Seq(Nat), NextOf
  <2> QED
    BY ONLY <1>6, <2>2
<1>8. got = SubSeq(history, 1, k + d)
  <2>1. k \in 0..Len(history) /\ k + d \in k..Len(history) /\ 1 \in 1..Len(history)+1 /\ 1 - 1 = 0
    BY <1>1, <1>5
  <2> QED
    BY <1>0, <1>7, <2>1, ConcatAdjacentSubSeq
<1>9. /\ got \in Seq(Nat) /\ Len(got) = k + d
      /\ \A i \in 1..(k + d) : got[i] = history[i]
  <2> DEFINE m == k + d
  <2>1. m \in Nat /\ m \leq Len(history) /\ got = SubSeq(history, 1, m)
    BY <1>5, <1>8
  <2> HIDE DEF m
  <2>2. /\ SubSeq(history, 1, m) \in Seq(Nat) /\ Len(SubSeq(history, 1, m)) = m
        /\ \A i \in 1..m : SubSeq(history, 1, m)[i] = history[i]
    BY ONLY <2>1, history \in Seq(Nat), FirstOf
  <2>3. got \in Seq(Nat) /\ Len(got) = m /\ \A i \in 1..m : got[i] = history[i]
    BY ONLY <2>1, <2>2
  <2> QED
    BY ONLY <2>3 DEF m
<1>10. ReadOf(got, history) /\ (got # history <=> k + d # Len(history))
  <2>1. SubSeq(history, 1, Len(history)) = history
    BY SubSeqFull
  <2> QED
    BY <1>1, <1>5, <1>8, <1>9, <2>1 DEF ReadOf
<1>11. start + Len(page) < Len(all) <=> k + d # Len(history)
  BY <1>0, <1>1, <1>2, <1>5, <1>7
<1>12. ASSUME page # <<>> PROVE got # <<>> /\ page[Len(page)] = got[Len(got)]
  <2>1. d # 0
    BY <1>7, <1>12
  <2>2. d \in 1..d /\ k + d \in 1..(k + d) /\ k + d # 0
    BY <1>1, <2>1
  <2>3. page[d] = history[k + d] /\ got[k + d] = history[k + d]
    BY <1>7, <1>9, <2>2
  <2> QED
    BY <1>7, <1>9, <2>2, <2>3
<1>13. k < Len(history) => page # <<>>
  <2>1. Len(page) = d /\ page \in Seq(Nat) /\ (k < Len(history) => d > 0)
    BY <1>5, <1>7
  <2> QED
    BY ONLY <2>1
<1> QED
  BY <1>0, <1>7, <1>9, <1>10, <1>11, <1>12, <1>13 DEF all, start, page, got

\* The cursor names one place of the history, the one behind which the next page begins.
LEMMA CursorFound ==
  ASSUME NEW newer \in Seq(Nat), NEW history \in Seq(Nat), NEW k \in 1..Len(history),
         Descending(newer \o history)
  PROVE  /\ Contains(newer \o history, history[k])
         /\ (CHOOSE i \in DOMAIN (newer \o history) : (newer \o history)[i] = history[k])
              = Len(newer) + k
<1> DEFINE all == newer \o history
           c == history[k]
           place == Len(newer) + k
<1>1. /\ all \in Seq(Nat) /\ place \in 1..Len(all) /\ place \in DOMAIN all /\ all[place] = c
      /\ DOMAIN all = 1..Len(all) /\ Len(all) \in Nat /\ c \in Nat
  OBVIOUS
<1>2. ASSUME NEW i \in DOMAIN all, all[i] = c PROVE i = place
  <2> HIDE DEF all, c, place
  <2>1. i \in 1..Len(all) /\ all[i] \in Nat
    BY <1>1
  <2>2. Descending(all)
    BY DEF all
  <2>3. ~(i < place)
    BY <1>1, <1>2, <2>1, <2>2 DEF Descending
  <2>4. ~(place < i)
    BY <1>1, <1>2, <2>1, <2>2 DEF Descending
  <2> QED
    BY <1>1, <2>1, <2>3, <2>4
<1> HIDE DEF all, c, place
<1>3. (CHOOSE i \in DOMAIN all : all[i] = c) = place
  BY <1>1, <1>2
<1>4. Contains(all, c)
  BY <1>1 DEF Contains
<1> QED
  BY <1>3, <1>4 DEF all, c, place

\* The page that entriesFor gives of all an account's entries.
PageOf(all, size, before) ==
  LET start == IF before = NoCursor THEN 0
               ELSE IF Contains(all, before) THEN CHOOSE i \in DOMAIN all : all[i] = before
                                             ELSE Len(all)
  IN Slice(all, start, start + size)

\* And its cursor.
CursorOf(all, size, before) ==
  LET start == IF before = NoCursor THEN 0
               ELSE IF Contains(all, before) THEN CHOOSE i \in DOMAIN all : all[i] = before
                                             ELSE Len(all)
      page == PageOf(all, size, before)
  IN IF page # <<>> /\ start + Len(page) < Len(all) THEN Last(page) ELSE NoCursor

\* What a reader has is the history, unless there is a cursor to go on from.
Continues(got, history, cursor) ==
  /\ ReadOf(got, history)
  /\ cursor = NoCursor <=> got = history
  /\ cursor # NoCursor => got # <<>> /\ cursor = got[Len(got)]

\* The last of what has been read of a history is one of it.
LEMMA LastRead ==
  ASSUME NEW history \in Seq(Nat), NEW s \in Seq(Nat), ReadOf(s, history), s # <<>>
  PROVE  Len(s) \in 1..Len(history) /\ s[Len(s)] = history[Len(s)]
<1> DEFINE k == Len(s)
<1>1. k \in Nat /\ k # 0 /\ k \leq Len(history) /\ s = SubSeq(history, 1, k)
  BY DEF ReadOf
<1> HIDE DEF k
<1>2. \A i \in 1..k : SubSeq(history, 1, k)[i] = history[i]
  BY ONLY <1>1, history \in Seq(Nat), FirstOf
<1>3. k \in 1..k
  BY <1>1
<1>4. s[k] = history[k]
  BY ONLY <1>1, <1>2, <1>3
<1>5. k \in 1..Len(history)
  BY <1>1
<1> QED
  BY <1>4, <1>5 DEF k

\* The page entriesFor gives a reader who has the first part of a history, and no cursor
\* or the place of the last entry it has: what it then has is the first part still, and
\* the cursor it gets says whether that is all and where to go on.
LEMMA NextPage ==
  ASSUME NEW newer \in Seq(Nat), NEW history \in Seq(Nat), Descending(newer \o history),
         \A i \in 1..Len(history) : history[i] # NoCursor,
         NEW had \in Seq(Nat), ReadOf(had, history), NEW before,
         \/ had = <<>> /\ newer = <<>> /\ before = NoCursor
         \/ had # <<>> /\ had # history /\ before = had[Len(had)],
         NEW size \in Nat \ {0}
  PROVE  LET all == newer \o history
         IN /\ PageOf(all, size, before) \in Seq(Nat) /\ CursorOf(all, size, before) \in Nat
            /\ Continues(had \o PageOf(all, size, before), history, CursorOf(all, size, before))
<1> DEFINE all == newer \o history
           k == Len(had)
           start == Len(newer) + k
           page == PageOf(all, size, before)
           got == had \o page
           cursor == CursorOf(all, size, before)
<1>1. k \in 0..Len(history) /\ start \in Nat /\ all \in Seq(Nat) /\ had = SubSeq(history, 1, k)
  BY DEF ReadOf
<1>2. start = IF before = NoCursor THEN 0
              ELSE IF Contains(all, before) THEN CHOOSE i \in DOMAIN all : all[i] = before
                                            ELSE Len(all)
  <2>1. CASE had = <<>> /\ newer = <<>> /\ before = NoCursor
    BY <2>1
  <2>2. CASE had # <<>> /\ had # history /\ before = had[Len(had)]
    <3>1. k \in 1..Len(history) /\ before = history[k]
      BY <2>2, LastRead
    <3>2. before # NoCursor
      BY <3>1
    <3>3. Contains(all, before) /\ (CHOOSE i \in DOMAIN all : all[i] = before) = start
      <4> HIDE DEF k
      <4> QED
        BY ONLY <3>1, newer \in Seq(Nat), history \in Seq(Nat), Descending(newer \o history), CursorFound, SMTT(20)
    <3> QED
      BY ONLY <3>2, <3>3
  <2> QED
    BY <2>1, <2>2
<1>3. page = Slice(all, start, start + size)
  BY ONLY <1>2 DEF PageOf
<1>4. cursor = IF page # <<>> /\ start + Len(page) < Len(all) THEN Last(page) ELSE NoCursor
  BY ONLY <1>2 DEF CursorOf
<1>5. got = SubSeq(history, 1, k) \o page
  BY ONLY <1>1
<1>6. /\ page \in Seq(Nat) /\ got \in Seq(Nat)
      /\ ReadOf(got, history)
      /\ k < Len(history) => page # <<>>
      /\ start + Len(page) < Len(all) <=> got # history
      /\ page # <<>> => got # <<>> /\ page[Len(page)] = got[Len(got)]
  <2> DEFINE given == PageBehind(newer, history, k, size)
             then == SubSeq(history, 1, k) \o given
  <2>1. /\ given \in Seq(Nat) /\ then \in Seq(Nat)
        /\ ReadOf(then, history)
        /\ (k < Len(history) => given # <<>>)
        /\ (Len(newer) + k + Len(given) < Len(newer \o history) <=> then # history)
        /\ (given # <<>> => then # <<>> /\ given[Len(given)] = then[Len(then)])
    <3> HIDE DEF k
    <3> QED
      BY ONLY <1>1, newer \in Seq(Nat), history \in Seq(Nat), size \in Nat \ {0}, PageGoesOn, SMTT(20)
  <2>2. page = given /\ got = then /\ all = newer \o history /\ start = Len(newer) + k
    BY ONLY <1>3, <1>5 DEF PageBehind
  <2> HIDE DEF all, k, start, page, got, cursor, given, then
  <2> QED
    BY ONLY <2>1, <2>2
<1>7. page = <<>> => got = history
  <2>1. page = <<>> => k = Len(history)
    BY <1>1, <1>6
  <2>2. page = <<>> => got = had
    BY <1>6
  <2>3. SubSeq(history, 1, Len(history)) = history
    BY SubSeqFull
  <2> HIDE DEF all, start, page, got, cursor
  <2> QED
    BY <1>1, <2>1, <2>2, <2>3
<1>8. got # <<>> => got[Len(got)] \in Nat /\ got[Len(got)] # NoCursor
  <2> HIDE DEF got
  <2>1. got # <<>> => Len(got) \in 1..Len(history) /\ got[Len(got)] = history[Len(got)]
    BY <1>6, LastRead
  <2> QED
    BY <2>1
<1> HIDE DEF all, k, start, page, got, cursor
<1>9. cursor # NoCursor => page # <<>> /\ cursor = page[Len(page)] /\ got # history
  BY <1>4, <1>6 DEF Last
<1>10. got # history => cursor = page[Len(page)] /\ page # <<>>
  BY <1>4, <1>6, <1>7 DEF Last
<1>11. Continues(got, history, cursor)
  BY <1>6, <1>8, <1>9, <1>10 DEF Continues
<1>12. cursor \in Nat
  BY ONLY <1>6, <1>8, <1>9, SMTT(20) DEF NoCursor
<1> QED
  BY <1>6, <1>11, <1>12 DEF all, page, got, cursor

-----------------------------------------------------------------------------
(* The inductive invariant.                                                *)

\* What the command and the wire can be.
Reader ==
  [account : Account, direction : Direction, limit : Limits, isEverythingRequested : BOOLEAN,
   phase : {"asking", "waiting", "done", "failed"}, cursor : Nat, entries : Seq(Nat),
   isMoreLeftUnread : BOOLEAN]

Wire ==
  {Idle} \union [type : {"account.ledger.get"}, before : Nat]
         \union [type : {"account.ledger"}, entries : Seq(Nat), nextCursor : Nat]

\* The reader's history as it is, and as it was when the first page was read.
History == HistoryOf(file, reader.account, reader.direction)
FirstRead == HistoryOf(SubSeq(file, 1, since), reader.account, reader.direction)

\* The state, as the proof needs it.
StateTypes ==
  /\ file \in Seq(Entry) /\ summaries \in Totals /\ since \in 0..Len(file)
  /\ reader \in Reader /\ wire \in Wire

\* The totals are those a restart would find.
TotalsAreRestored == summaries = Restore

\* The places in a history, and that it grows at its front only.
Places(history, len) ==
  history \in Seq(Nat) /\ \A i \in 1..Len(history) : history[i] \in 1..len

HistoryGrowsInFront ==
  /\ Places(History, Len(file)) /\ Descending(History)
  /\ Places(FirstRead, since)
  /\ \E newer \in Seq(Nat) : History = newer \o FirstRead

\* What the command has read, and where it goes on.
ReaderFollows ==
  /\ ReadOf(reader.entries, FirstRead)
  /\ reader.cursor # NoCursor => /\ reader.entries # <<>>
                                 /\ reader.cursor = reader.entries[Len(reader.entries)]
  /\ reader.phase \in {"asking", "waiting"} =>
       IF reader.cursor = NoCursor THEN reader.entries = <<>> ELSE reader.entries # FirstRead
  /\ reader.phase = "done" => /\ reader.isMoreLeftUnread = (reader.entries # FirstRead)
                              /\ reader.isEverythingRequested => reader.entries = FirstRead

\* What is on the way to or from the gateway.
WireFollows ==
  /\ wire.type # "none" => reader.phase = "waiting"
  /\ wire.type = "account.ledger.get" => wire.before = reader.cursor
  /\ wire.type = "account.ledger" =>
       Continues(reader.entries \o wire.entries, FirstRead, wire.nextCursor)

\* The inductive invariant.
LedgerInv ==
  /\ StateTypes
  /\ TotalsAreRestored
  /\ SummariesAddUp
  /\ HistoryGrowsInFront
  /\ ReaderFollows
  /\ WireFollows

\* entriesFor, in terms of all the entries of the account.
LEMMA EntriesForIsAPage ==
  ASSUME NEW a, NEW direction, NEW limit, NEW before
  PROVE  LET all == HistoryOf(file, a, direction)
             size == IF limit < MaximumReadLimit THEN limit ELSE MaximumReadLimit
         IN EntriesFor(a, direction, limit, before)
              = [entries |-> PageOf(all, size, before), nextCursor |-> CursorOf(all, size, before)]
BY DEF EntriesFor, PageOf, CursorOf

\* One more entry in front of a history.
LEMMA OneInFront ==
  ASSUME NEW entries \in Seq(Entry), NEW entry \in Entry, NEW a, NEW direction
  PROVE  /\ HistoryOf(entries, a, direction) \in Seq(Nat)
         /\ HistoryOf(Append(entries, entry), a, direction)
              = IF Matches(entry, a, direction)
                  THEN <<Len(entries) + 1>> \o HistoryOf(entries, a, direction)
                  ELSE HistoryOf(entries, a, direction)
<1> DEFINE n == Len(entries)
           new == Append(entries, entry)
<1>1. /\ n \in Nat /\ DOMAIN entries = 1..n /\ DOMAIN new = 1..(n + 1)
      /\ \A i \in 1..n : new[i] = entries[i]
      /\ new[n + 1] = entry
  OBVIOUS
<1> HIDE DEF n, new
<1>2. /\ HistoryOf(entries, a, direction) \in Seq(Nat)
      /\ HistoryOf(new, a, direction) = Chosen(new, a, direction, HistoryOf(entries, a, direction), n + 1)
  BY <1>1, HistoryGrows
<1> QED
  BY <1>1, <1>2 DEF Chosen, n, new

\* A command that has asked for nothing, and an empty ledger.
LEMMA InitInv == Init => LedgerInv
<1> SUFFICES ASSUME Init PROVE LedgerInv
  OBVIOUS
<1> USE DEF Init, NoCursor
<1>1. file = <<>> /\ since = 0 /\ wire = Idle /\ summaries = NoTotals
  BY DEF NoTotals
<1>2. /\ reader \in Reader /\ reader.cursor = 0 /\ reader.entries = <<>> /\ reader.phase = "asking"
  BY LedgerAssumption DEF Reader
<1>3. NoTotals \in Totals
  BY DEF NoTotals, NoSummary, Totals, Summary
<1>4. StateTypes
  BY <1>1, <1>2, <1>3 DEF StateTypes, Wire
<1>5. SubSeq(file, 1, since) = <<>>
  BY <1>1
<1>6. History = <<>> /\ FirstRead = <<>>
  BY <1>1, <1>5, HistoryEmpty DEF History, FirstRead
<1>7. TotalsAreRestored
  BY <1>1, TotalsEmpty DEF TotalsAreRestored, Restore, RestoreOf, NoTotals
<1>8. SummariesAddUp
  <2>1. ASSUME NEW a \in Account, NEW direction PROVE Len(HistoryOf(file, a, direction)) = 0
    BY <1>1, HistoryEmpty
  <2>2. ASSUME NEW a \in Account
        PROVE  summaries[a] = [balance |-> 0 - 0, earnedStageCount |-> 0, spentStageCount |-> 0]
    BY <1>1 DEF NoTotals, NoSummary
  <2>3. ASSUME NEW a \in Account
        PROVE  LET places(direction) == Len(HistoryOf(file, a, direction))
               IN summaries[a] = [balance |-> places("earned") - places("spent"),
                                  earnedStageCount |-> places("earned"),
                                  spentStageCount |-> places("spent")]
    <3>1. Len(HistoryOf(file, a, "earned")) = 0 /\ Len(HistoryOf(file, a, "spent")) = 0
      BY <2>1
    <3> QED
      BY ONLY <2>2, <3>1, a \in Account
  <2> QED
    BY <2>3 DEF SummariesAddUp
<1>9. HistoryGrowsInFront
  <2>1. /\ Places(<<>>, Len(file)) /\ Places(<<>>, since) /\ Descending(<<>>)
        /\ <<>> \in Seq(Nat) /\ <<>> = <<>> \o <<>>
    BY DEF Places, Descending
  <2> QED
    BY ONLY <1>6, <2>1 DEF HistoryGrowsInFront
<1>10. ReaderFollows
  BY <1>2, <1>6 DEF ReaderFollows, ReadOf
<1>11. WireFollows
  BY <1>1 DEF WireFollows, Idle
<1> QED
  BY <1>4, <1>7, <1>8, <1>9, <1>10, <1>11 DEF LedgerInv

\* append keeps the totals what the entries add up to, and what restore finds.
LEMMA AppendTotals ==
  ASSUME StateTypes, TotalsAreRestored, SummariesAddUp, AppendEntry
  PROVE  TotalsAreRestored' /\ SummariesAddUp' /\ summaries' \in Totals
<1>1. PICK entry \in Entry : /\ file' = Append(file, entry)
                             /\ summaries' = AddToSummary(summaries, entry)
  BY DEF AppendEntry
<1>2. file \in Seq(Entry) /\ summaries \in Totals
  BY DEF StateTypes
<1>3. TotalsAreRestored'
  BY <1>1, <1>2, TotalsGrow DEF TotalsAreRestored, Restore, RestoreOf, NoTotals
<1>4. ASSUME NEW a \in Account
      PROVE  LET places(direction) == Len(HistoryOf(file', a, direction))
             IN summaries'[a] = [balance |-> places("earned") - places("spent"),
                                 earnedStageCount |-> places("earned"),
                                 spentStageCount |-> places("spent")]
  <2> DEFINE was(direction) == HistoryOf(file, a, direction)
             is(direction) == HistoryOf(file', a, direction)
             delta == entry.creditDelta
             mine == entry.account = a
  <2>1. summaries[a] = [balance |-> Len(was("earned")) - Len(was("spent")),
                        earnedStageCount |-> Len(was("earned")), spentStageCount |-> Len(was("spent"))]
    BY DEF SummariesAddUp
  <2>2. was("earned") \in Seq(Nat) /\ was("spent") \in Seq(Nat)
    BY <1>2, OneInFront
  <2>3. Len(is("earned")) = IF mine /\ delta = 1 THEN Len(was("earned")) + 1 ELSE Len(was("earned"))
    <3>1. is("earned") = IF mine /\ delta = 1 THEN <<Len(file) + 1>> \o was("earned") ELSE was("earned")
      BY <1>1, <1>2, OneInFront DEF Matches
    <3> HIDE DEF was, is
    <3> QED
      BY <1>2, <2>2, <3>1
  <2>4. Len(is("spent")) = IF mine /\ delta = -1 THEN Len(was("spent")) + 1 ELSE Len(was("spent"))
    <3>1. delta \in {1, -1}
      BY DEF Entry
    <3>2. is("spent") = IF mine /\ delta = -1 THEN <<Len(file) + 1>> \o was("spent") ELSE was("spent")
      BY <1>1, <1>2, <3>1, OneInFront DEF Matches
    <3> HIDE DEF was, is
    <3> QED
      BY <1>2, <2>2, <3>2
  <2>5. summaries'[a] = IF mine THEN Plus(summaries[a], entry) ELSE summaries[a]
    BY <1>1, <1>2 DEF AddToSummary, Totals
  <2>6. delta \in {1, -1} /\ Len(was("earned")) \in Nat /\ Len(was("spent")) \in Nat
    BY <2>2 DEF Entry
  <2>7. summaries'[a] = [balance |-> Len(is("earned")) - Len(is("spent")),
                         earnedStageCount |-> Len(is("earned")), spentStageCount |-> Len(is("spent"))]
    <3> HIDE DEF was, is
    <3> QED
      BY <2>1, <2>3, <2>4, <2>5, <2>6, SMTT(20) DEF Plus
  <2> QED
    BY <2>7
<1>5. SummariesAddUp'
  BY <1>4 DEF SummariesAddUp
<1>6. summaries' \in Totals
  BY <1>1, <1>2, AddToSummaryType
<1> QED
  BY <1>3, <1>5, <1>6

\* An entry in front of a history keeps it newest first.
LEMMA StillDescending ==
  ASSUME NEW len \in Nat, NEW history, Places(history, len), Descending(history)
  PROVE  Places(<<len + 1>> \o history, len + 1) /\ Descending(<<len + 1>> \o history)
<1> DEFINE new == <<len + 1>> \o history
<1>1. history \in Seq(Nat) /\ \A i \in 1..Len(history) : history[i] \in 1..len
  BY DEF Places
<1>2. /\ new \in Seq(Nat) /\ Len(new) = Len(history) + 1 /\ Len(history) \in Nat
      /\ new[1] = len + 1
      /\ \A i \in 2..Len(new) : new[i] = history[i - 1]
  BY <1>1
<1> HIDE DEF new
<1>3. ASSUME NEW i \in 1..Len(new) PROVE new[i] \in 1..(len + 1) /\ (i # 1 => new[i] \in 1..len)
  <2>1. CASE i = 1
    BY <1>2, <2>1
  <2>2. CASE i # 1
    <3>1. i \in 2..Len(new) /\ i - 1 \in 1..Len(history)
      BY <1>2, <2>2
    <3>2. new[i] \in 1..len
      BY <1>1, <1>2, <3>1
    <3> QED
      BY <2>2, <3>2
  <2> QED
    BY <2>1, <2>2
<1>4. ASSUME NEW i \in 1..Len(new), NEW j \in 1..Len(new), i < j PROVE new[j] < new[i]
  <2>1. j \in 2..Len(new) /\ j - 1 \in 1..Len(history)
    BY <1>2, <1>4
  <2>2. CASE i = 1
    BY <1>2, <1>3, <2>1, <2>2
  <2>3. CASE i # 1
    <3>1. i \in 2..Len(new) /\ i - 1 \in 1..Len(history) /\ i - 1 < j - 1
      BY <1>2, <1>4, <2>3
    <3>2. history[j - 1] < history[i - 1]
      BY <2>1, <3>1 DEF Descending
    <3> QED
      BY <1>2, <2>1, <3>1, <3>2
  <2> QED
    BY <2>2, <2>3
<1> QED
  BY <1>2, <1>3, <1>4 DEF Places, Descending, new

\* append leaves what the first page was read from as it was.
LEMMA AppendHistory ==
  ASSUME LedgerInv, AppendEntry
  PROVE  HistoryGrowsInFront' /\ FirstRead' = FirstRead
<1>1. PICK entry \in Entry : file' = Append(file, entry)
  BY DEF AppendEntry
<1>2. file \in Seq(Entry) /\ since \in 0..Len(file) /\ since' = since /\ reader' = reader
  BY DEF LedgerInv, StateTypes, AppendEntry
<1>3. Len(file') = Len(file) + 1 /\ Len(file) \in Nat
  BY <1>1, <1>2
<1>4. SubSeq(file', 1, since') = SubSeq(file, 1, since)
  BY <1>1, <1>2
<1>5. FirstRead' = FirstRead
  BY <1>2, <1>4 DEF FirstRead
<1>6. \/ History' = <<Len(file) + 1>> \o History
      \/ History' = History
  BY <1>1, <1>2, OneInFront DEF History
<1>7. /\ Places(History, Len(file)) /\ Descending(History) /\ Places(FirstRead, since)
  BY DEF LedgerInv, HistoryGrowsInFront
<1>8. PICK newer \in Seq(Nat) : History = newer \o FirstRead
  BY DEF LedgerInv, HistoryGrowsInFront
<1>9. CASE History' = History
  <2>1. Places(History, Len(file'))
    BY <1>3, <1>7 DEF Places
  <2> QED
    BY <1>2, <1>5, <1>7, <1>8, <1>9, <2>1 DEF HistoryGrowsInFront
<1>10. CASE History' = <<Len(file) + 1>> \o History
  <2>1. Places(History', Len(file')) /\ Descending(History')
    BY <1>3, <1>7, <1>10, StillDescending
  <2>2. <<Len(file) + 1>> \o newer \in Seq(Nat) /\ <<Len(file) + 1>> \in Seq(Nat) /\ FirstRead \in Seq(Nat)
    BY <1>3, <1>7 DEF Places
  <2>3. History' = (<<Len(file) + 1>> \o newer) \o FirstRead
    <3>1. <<Len(file) + 1>> \o (newer \o FirstRead) = (<<Len(file) + 1>> \o newer) \o FirstRead
      BY ONLY <2>2, newer \in Seq(Nat), ConcatAssociative, SMTT(20)
    <3> QED
      BY ONLY <1>8, <1>10, <3>1
  <2> QED
    BY <1>2, <1>5, <1>7, <2>1, <2>2, <2>3 DEF HistoryGrowsInFront
<1> QED
  BY <1>6, <1>9, <1>10

\* The gateway's answer goes on where the reader is.
LEMMA AnswerFollows ==
  ASSUME LedgerInv, AnswerQuery
  PROVE  /\ wire' \in Wire /\ since' \in 0..Len(file) /\ HistoryGrowsInFront'
         /\ ReaderFollows' /\ WireFollows'
<1>1. /\ StateTypes /\ HistoryGrowsInFront /\ ReaderFollows /\ WireFollows
      /\ wire.type = "account.ledger.get" /\ reader.phase = "waiting" /\ wire.before = reader.cursor
      /\ file' = file /\ reader' = reader
  BY DEF LedgerInv, WireFollows, AnswerQuery
<1> DEFINE size == IF reader.limit < MaximumReadLimit THEN reader.limit ELSE MaximumReadLimit
           page == PageOf(History, size, reader.cursor)
           next == CursorOf(History, size, reader.cursor)
<1>2. wire' = [type |-> "account.ledger", entries |-> page, nextCursor |-> next]
  <2>1. EntriesFor(reader.account, reader.direction, reader.limit, reader.cursor)
          = [entries |-> page, nextCursor |-> next]
    BY EntriesForIsAPage DEF History
  <2> HIDE DEF page, next
  <2> QED
    BY <1>1, <2>1 DEF AnswerQuery
<1>3. size \in Nat \ {0}
  <2>1. reader.limit \in Limits
    BY <1>1 DEF StateTypes, Reader
  <2> QED
    BY <2>1, LedgerAssumption
<1>4. History' = History /\ file \in Seq(Entry)
  BY <1>1 DEF History, StateTypes
<1>5. /\ Places(History, Len(file)) /\ Descending(History) /\ Places(FirstRead, since)
      /\ \E newer \in Seq(Nat) : History = newer \o FirstRead
  BY <1>1 DEF HistoryGrowsInFront
<1>6. reader.entries \in Seq(Nat) /\ reader.cursor \in Nat
  BY <1>1 DEF StateTypes, Reader
<1>7. CASE reader.cursor = NoCursor
  <2>1. since' = Len(file) /\ Len(file) \in Nat
    BY <1>1, <1>4, <1>7 DEF AnswerQuery
  <2>2. SubSeq(file, 1, Len(file)) = file
    BY <1>4, SubSeqFull
  <2>3. FirstRead' = History
    BY <1>1, <2>1, <2>2 DEF FirstRead, History
  <2>4. reader.entries = <<>> /\ ReadOf(<<>>, History)
    BY <1>1, <1>5, <1>7 DEF ReaderFollows, ReadOf, Places
  <2>5. History = <<>> \o History /\ <<>> \in Seq(Nat) /\ History \in Seq(Nat)
    BY <1>5 DEF Places
  <2>6. HistoryGrowsInFront'
    BY <1>1, <1>4, <1>5, <2>1, <2>3, <2>5 DEF HistoryGrowsInFront
  <2>7. ReaderFollows'
    BY <1>1, <1>7, <2>3, <2>4 DEF ReaderFollows
  <2>8. page \in Seq(Nat) /\ next \in Nat /\ Continues(reader.entries \o page, History, next)
    <3>1. /\ \A i \in 1..Len(History) : History[i] # NoCursor
          /\ Descending(<<>> \o History)
      BY <1>4, <1>5, <2>5 DEF Places, NoCursor
    <3> HIDE DEF size
    <3>2. /\ PageOf(<<>> \o History, size, NoCursor) \in Seq(Nat)
          /\ CursorOf(<<>> \o History, size, NoCursor) \in Nat
          /\ Continues(<<>> \o PageOf(<<>> \o History, size, NoCursor), History,
                       CursorOf(<<>> \o History, size, NoCursor))
      BY <1>3, <2>4, <2>5, <3>1, NextPage
    <3> QED
      BY <1>7, <2>4, <2>5, <3>2
  <2> HIDE DEF page, next, size
  <2>9. wire' \in Wire /\ WireFollows'
    BY <1>1, <1>2, <2>3, <2>8 DEF Wire, WireFollows
  <2> QED
    BY <2>1, <2>6, <2>7, <2>9
<1>8. CASE reader.cursor # NoCursor
  <2>1. since' = since /\ since \in 0..Len(file)
    BY <1>1, <1>8 DEF AnswerQuery, StateTypes
  <2>2. FirstRead' = FirstRead
    BY <1>1, <2>1 DEF FirstRead
  <2>3. HistoryGrowsInFront' /\ ReaderFollows'
    BY <1>1, <1>4, <2>1, <2>2 DEF HistoryGrowsInFront, ReaderFollows
  <2>4. PICK newer \in Seq(Nat) : History = newer \o FirstRead
    BY <1>5
  <2>5. page \in Seq(Nat) /\ next \in Nat /\ Continues(reader.entries \o page, FirstRead, next)
    <3>1. /\ ReadOf(reader.entries, FirstRead) /\ reader.entries # <<>>
          /\ reader.entries # FirstRead /\ reader.cursor = reader.entries[Len(reader.entries)]
      BY <1>1, <1>8 DEF ReaderFollows
    <3>2. /\ FirstRead \in Seq(Nat) /\ \A i \in 1..Len(FirstRead) : FirstRead[i] # NoCursor
          /\ Descending(newer \o FirstRead)
      BY <1>5, <2>1, <2>4 DEF Places, NoCursor
    <3> HIDE DEF size
    <3> QED
      BY <1>3, <1>6, <2>4, <3>1, <3>2, NextPage
  <2> HIDE DEF page, next, size
  <2>6. wire' \in Wire /\ WireFollows'
    BY <1>1, <1>2, <2>2, <2>5 DEF Wire, WireFollows
  <2> QED
    BY <2>1, <2>3, <2>6
<1> QED
  BY <1>7, <1>8

\* Every step preserves the invariant.
LEMMA NextInv ==
  ASSUME LedgerInv, [Next]_vars
  PROVE  LedgerInv'
<1>0. /\ StateTypes /\ TotalsAreRestored /\ SummariesAddUp /\ HistoryGrowsInFront
      /\ ReaderFollows /\ WireFollows
      /\ file \in Seq(Entry) /\ summaries \in Totals /\ since \in 0..Len(file)
      /\ reader \in Reader /\ wire \in Wire
  BY DEF LedgerInv, StateTypes
<1>1. CASE AppendEntry
  <2>1. file' \in Seq(Entry) /\ since' \in 0..Len(file') /\ reader' = reader /\ wire' = wire
    BY <1>0, <1>1 DEF AppendEntry
  <2>2. TotalsAreRestored' /\ SummariesAddUp' /\ summaries' \in Totals
    BY <1>0, <1>1, AppendTotals
  <2>3. HistoryGrowsInFront' /\ FirstRead' = FirstRead
    BY <1>1, AppendHistory
  <2>4. ReaderFollows' /\ WireFollows'
    BY <1>0, <2>1, <2>3 DEF ReaderFollows, WireFollows
  <2> QED
    BY <1>0, <2>1, <2>2, <2>3, <2>4 DEF LedgerInv, StateTypes
<1>2. CASE Restart
  <2>1. /\ file' = file /\ since' = since /\ summaries' = summaries /\ wire' = Idle
        /\ reader' = [reader EXCEPT !.phase = IF @ = "done" THEN @ ELSE "failed"]
    BY <1>0, <1>2 DEF Restart, TotalsAreRestored
  <2>2. /\ reader' \in Reader /\ reader'.account = reader.account /\ reader'.direction = reader.direction
        /\ reader'.entries = reader.entries /\ reader'.cursor = reader.cursor
        /\ reader'.isMoreLeftUnread = reader.isMoreLeftUnread
        /\ reader'.isEverythingRequested = reader.isEverythingRequested
        /\ reader'.phase = IF reader.phase = "done" THEN "done" ELSE "failed"
    BY <1>0, <2>1 DEF Reader
  <2>3. TotalsAreRestored' /\ SummariesAddUp'
    BY <1>0, <2>1 DEF TotalsAreRestored, Restore, SummariesAddUp
  <2>4. History' = History /\ FirstRead' = FirstRead
    BY <2>1, <2>2 DEF History, FirstRead
  <2>5. HistoryGrowsInFront'
    BY <1>0, <2>1, <2>4 DEF HistoryGrowsInFront
  <2>6. ReaderFollows' /\ WireFollows'
    BY <1>0, <2>1, <2>2, <2>4 DEF ReaderFollows, WireFollows, Idle
  <2> QED
    BY <1>0, <2>1, <2>2, <2>3, <2>5, <2>6 DEF LedgerInv, StateTypes, Wire
<1>3. CASE AnswerQuery
  <2>1. file' = file /\ reader' = reader /\ summaries' = summaries
    BY <1>3 DEF AnswerQuery
  <2>2. /\ wire' \in Wire /\ since' \in 0..Len(file) /\ HistoryGrowsInFront'
        /\ ReaderFollows' /\ WireFollows'
    BY <1>3, AnswerFollows
  <2>3. TotalsAreRestored' /\ SummariesAddUp'
    BY <1>0, <2>1 DEF TotalsAreRestored, Restore, SummariesAddUp
  <2> QED
    BY <1>0, <2>1, <2>2, <2>3 DEF LedgerInv, StateTypes
<1>4. ASSUME \/ Request \/ ReadAnswer \/ RequestFails \/ UNCHANGED vars
      PROVE  LedgerInv'
  <2>1. file' = file /\ summaries' = summaries /\ since' = since
    BY <1>4 DEF Request, ReadAnswer, RequestFails, vars
  <2>2. /\ reader' \in Reader /\ wire' \in Wire
        /\ reader'.account = reader.account /\ reader'.direction = reader.direction
    <3>1. CASE Request
      BY <1>0, <3>1 DEF Request, Reader, Wire
    <3>2. CASE ReadAnswer
      <4>1. wire.entries \in Seq(Nat) /\ wire.nextCursor \in Nat
        BY <1>0, <3>2 DEF ReadAnswer, Wire, Idle
      <4>2. reader.entries \o wire.entries \in Seq(Nat)
        BY <1>0, <4>1 DEF Reader
      <4> QED
        BY <1>0, <3>2, <4>1, <4>2 DEF ReadAnswer, Reader, Wire
    <3>3. CASE RequestFails
      BY <1>0, <3>3 DEF RequestFails, Reader, Wire
    <3>4. CASE UNCHANGED vars
      BY <1>0, <3>4 DEF vars
    <3> QED
      BY <1>4, <3>1, <3>2, <3>3, <3>4
  <2>3. TotalsAreRestored' /\ SummariesAddUp'
    BY <1>0, <2>1 DEF TotalsAreRestored, Restore, SummariesAddUp
  <2>4. History' = History /\ FirstRead' = FirstRead
    BY <2>1, <2>2 DEF History, FirstRead
  <2>5. HistoryGrowsInFront'
    BY <1>0, <2>1, <2>4 DEF HistoryGrowsInFront
  <2>6. ReaderFollows' /\ WireFollows'
    <3>1. CASE Request
      <4>1. /\ wire' = [type |-> "account.ledger.get", before |-> reader.cursor]
            /\ reader' = [reader EXCEPT !.phase = "waiting"] /\ reader.phase = "asking"
        BY <3>1 DEF Request
      <4>2. /\ reader'.phase = "waiting" /\ reader'.cursor = reader.cursor
            /\ reader'.entries = reader.entries
        BY <1>0, <4>1 DEF Reader
      <4> QED
        BY <1>0, <2>4, <4>1, <4>2 DEF ReaderFollows, WireFollows
    <3>2. CASE ReadAnswer
      <4> DEFINE got == reader.entries \o wire.entries
                 isMore == wire.nextCursor # NoCursor
      <4>1. /\ wire' = Idle
            /\ Continues(got, FirstRead, wire.nextCursor)
        BY <1>0, <3>2 DEF ReadAnswer, WireFollows
      <4>2. /\ reader'.entries = got /\ reader'.cursor = wire.nextCursor
            /\ reader'.isMoreLeftUnread = isMore
            /\ reader'.isEverythingRequested = reader.isEverythingRequested
            /\ reader'.phase = IF isMore /\ reader.isEverythingRequested THEN "asking" ELSE "done"
        BY <1>0, <3>2 DEF ReadAnswer, Reader
      <4> HIDE DEF got
      <4>3. ReaderFollows'
        BY <2>4, <4>1, <4>2 DEF ReaderFollows, Continues
      <4>4. WireFollows'
        BY <4>1 DEF WireFollows, Idle
      <4> QED
        BY <4>3, <4>4
    <3>3. CASE RequestFails
      <4>1. wire' = Idle /\ reader' = [reader EXCEPT !.phase = "failed"]
        BY <3>3 DEF RequestFails
      <4>2. /\ reader'.phase = "failed" /\ reader'.cursor = reader.cursor
            /\ reader'.entries = reader.entries
        BY <1>0, <4>1 DEF Reader
      <4> QED
        BY <1>0, <2>4, <4>1, <4>2 DEF ReaderFollows, WireFollows, Idle
    <3>4. CASE UNCHANGED vars
      BY <1>0, <2>4, <3>4 DEF ReaderFollows, WireFollows, vars
    <3> QED
      BY <1>4, <3>1, <3>2, <3>3, <3>4
  <2> QED
    BY <1>0, <2>1, <2>2, <2>3, <2>5, <2>6 DEF LedgerInv, StateTypes
<1> QED
  BY <1>1, <1>2, <1>3, <1>4 DEF Next

\* The inductive invariant is an invariant.
LEMMA LedgerInvariant == Spec => []LedgerInv
<1>1. Init => LedgerInv
  BY InitInv
<1>2. LedgerInv /\ [Next]_vars => LedgerInv'
  BY NextInv
<1> QED
  BY <1>1, <1>2, PTL DEF Spec

\* Every step leaves the ledger, the reader and what is on the way within their types; the
\* reader's entries and its cursor are places of the file.
THEOREM LedgerTypes == Spec => []LedgerTypeOK
<1>1. LedgerInv => LedgerTypeOK
  <2> SUFFICES ASSUME LedgerInv PROVE LedgerTypeOK
    OBVIOUS
  <2>1. /\ file \in Seq(Entry) /\ summaries \in Totals /\ since \in 0..Len(file)
        /\ reader \in Reader /\ wire \in Wire
    BY DEF LedgerInv, StateTypes
  <2>2. DOMAIN file = 1..Len(file) /\ Len(file) \in Nat /\ reader.entries \in Seq(Nat)
    BY <2>1 DEF Reader
  <2>3. /\ FirstRead \in Seq(Nat) /\ \A i \in 1..Len(FirstRead) : FirstRead[i] \in 1..since
        /\ ReadOf(reader.entries, FirstRead)
    BY DEF LedgerInv, HistoryGrowsInFront, Places, ReaderFollows
  <2>4. ASSUME NEW i \in 1..Len(reader.entries) PROVE reader.entries[i] \in 1..Len(file)
    <3> DEFINE k == Len(reader.entries)
    <3>1. k \in Nat /\ k \leq Len(FirstRead) /\ reader.entries = SubSeq(FirstRead, 1, k) /\ i \in 1..k
      BY <2>2, <2>3 DEF ReadOf
    <3> HIDE DEF k
    <3>2. \A j \in 1..k : SubSeq(FirstRead, 1, k)[j] = FirstRead[j]
      BY ONLY <2>3, <3>1, FirstOf
    <3>3. reader.entries[i] = FirstRead[i]
      BY ONLY <3>1, <3>2
    <3>4. FirstRead[i] \in 1..since
      BY <2>3, <3>1
    <3> QED
      BY <2>1, <2>2, <3>3, <3>4
  <2>5. \A i \in DOMAIN reader.entries : reader.entries[i] \in DOMAIN file
    BY <2>2, <2>4
  <2>6. reader.cursor \in {NoCursor} \union DOMAIN file
    <3>1. CASE reader.cursor = NoCursor
      BY <3>1
    <3>2. CASE reader.cursor # NoCursor
      <4>1. reader.entries # <<>> /\ reader.cursor = reader.entries[Len(reader.entries)]
        BY <3>2 DEF LedgerInv, ReaderFollows
      <4>2. Len(reader.entries) \in DOMAIN reader.entries
        BY <2>2, <4>1
      <4> QED
        BY <2>5, <4>1, <4>2
    <3> QED
      BY <3>1, <3>2
  <2>7. reader.phase \in {"asking", "waiting", "done", "failed"}
    BY <2>1 DEF Reader
  <2>8. wire.type \in {"none", "account.ledger.get", "account.ledger"}
    BY <2>1 DEF Wire, Idle
  <2> QED
    BY <2>1, <2>5, <2>6, <2>7, <2>8 DEF LedgerTypeOK, Totals, Summary
<1> QED
  BY <1>1, LedgerInvariant, PTL

\* The totals kept in memory are at any time those restore would rebuild from the file:
\* a restart changes no balance (LedgerStore.append, addToSummary, restore).
THEOREM TotalsRestored == Spec => []TotalsAreRestored
<1>1. LedgerInv => TotalsAreRestored
  BY DEF LedgerInv
<1> QED
  BY <1>1, LedgerInvariant, PTL

\* A balance is the entries earned less the entries spent, and the two counts are those
\* of the entries (LedgerStore.append, addToSummary, restore).
THEOREM BalancesAddUp == Spec => []SummariesAddUp
<1>1. LedgerInv => SummariesAddUp
  BY DEF LedgerInv
<1> QED
  BY <1>1, LedgerInvariant, PTL

\* However much is recorded between two pages, a reader is given the history that was
\* there when its first page was read, without a gap or a repeat, and is told that more
\* is left exactly when some is (entriesFor, AccountHistoryCommand.run).
THEOREM PagesWithoutGaps == Spec => []HistoryWithoutGaps
<1>1. LedgerInv => HistoryWithoutGaps
  <2> SUFFICES ASSUME LedgerInv PROVE HistoryWithoutGaps
    OBVIOUS
  <2>1. ReaderFollows /\ FirstRead \in Seq(Nat) /\ reader.entries \in Seq(Nat)
    BY DEF LedgerInv, StateTypes, Reader, HistoryGrowsInFront, Places
  <2>2. ReadOf(reader.entries, FirstRead)
    BY <2>1 DEF ReaderFollows
  <2>3. IsPrefix(reader.entries, FirstRead)
    <3>1. Len(reader.entries) \leq Len(FirstRead) /\ reader.entries = SubSeq(FirstRead, 1, Len(reader.entries))
      BY <2>2 DEF ReadOf
    <3> QED
      BY <3>1 DEF IsPrefix
  <2>4. reader.phase = "done" => /\ reader.isMoreLeftUnread = ~(reader.entries = FirstRead)
                                 /\ reader.isEverythingRequested => reader.entries = FirstRead
    BY <2>1 DEF ReaderFollows
  <2> QED
    BY <2>3, <2>4 DEF HistoryWithoutGaps, FirstRead
<1> QED
  BY <1>1, LedgerInvariant, PTL

=============================================================================

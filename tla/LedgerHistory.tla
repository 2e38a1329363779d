----------------------------- MODULE LedgerHistory -----------------------------
(***************************************************************************)
(* The ledger as those who read it see it: the LedgerStore, which appends  *)
(* entries to a file, keeps what they add up to and answers one page of an *)
(* account's history at a time, and account_history of the command line,   *)
(* which asks for page after page while stages go on being paid for and    *)
(* the gateway may restart.  What is recorded, and when, is                *)
(* DurableGateway's.  That the connection has proved the account it reads  *)
(* is GatewayConnection's.                                                 *)
(***************************************************************************)
EXTENDS Integers, Sequences, SequencesExt, FiniteSets

CONSTANTS
  Account,
  Limits,            \* what a reader may ask for at a time
  MaximumReadLimit,  \* what it is given at most at a time
  MaxEntries,        \* bound: entries in the ledger
  MaxRestarts        \* bound: restarts of the gateway

ASSUME LedgerAssumption ==
  /\ Limits \subseteq Nat \ {0} /\ MaximumReadLimit \in Nat \ {0}
  /\ MaxEntries \in Nat /\ MaxRestarts \in Nat

VARIABLES
  file,      \* the ledger file: an entry is identified by its place in it
  summaries, \* summariesByAccountId
  restarts,
  reader,    \* the command reading a history
  wire,      \* its request, or the answer to it, on the way
  since      \* history: the entries there were when its first page was read

vars == <<file, summaries, restarts, reader, wire, since>>

Entry == [account : Account, creditDelta : {1, -1}]
Direction == {"both", "earned", "spent"}
NoCursor == 0
Idle == [type |-> "none"]
NoSummary == [balance |-> 0, earnedStageCount |-> 0, spentStageCount |-> 0]

\* The places of an account's entries on one side of the ledger, newest first.
Matches(entry, account, direction) ==
  /\ entry.account = account
  /\ direction = "both" \/ direction = (IF entry.creditDelta = 1 THEN "earned" ELSE "spent")

HistoryOf(entries, account, direction) ==
  FoldLeftDomain(LAMBDA history, i : IF Matches(entries[i], account, direction)
                                       THEN <<i>> \o history ELSE history,
                 <<>>, entries)

LedgerTypeOK ==
  /\ file \in Seq(Entry)
  /\ summaries \in [Account -> [balance : Int, earnedStageCount : Nat, spentStageCount : Nat]]
  /\ reader.phase \in {"asking", "waiting", "done", "failed"}
  /\ \A i \in DOMAIN reader.entries : reader.entries[i] \in DOMAIN file
  /\ reader.cursor \in {NoCursor} \union DOMAIN file
  /\ wire.type \in {"none", "account.ledger.get", "account.ledger"}
  /\ since \in 0..Len(file)

Init ==
  /\ file = <<>> /\ restarts = 0 /\ wire = Idle /\ since = 0
  /\ summaries = [a \in Account |-> NoSummary]
  /\ \E a \in Account, direction \in Direction, limit \in Limits, everything \in BOOLEAN :
       reader = [account |-> a, direction |-> direction, limit |-> limit,
                 isEverythingRequested |-> everything, phase |-> "asking", cursor |-> NoCursor,
                 entries |-> <<>>, isMoreLeftUnread |-> FALSE]

-----------------------------------------------------------------------------
(* LedgerStore.                                                            *)

\* addToSummary.
Plus(summary, entry) ==
  [balance |-> summary.balance + entry.creditDelta,
   earnedStageCount |-> summary.earnedStageCount + (IF entry.creditDelta = 1 THEN 1 ELSE 0),
   spentStageCount |-> summary.spentStageCount + (IF entry.creditDelta = -1 THEN 1 ELSE 0)]

AddToSummary(sums, entry) == [sums EXCEPT ![entry.account] = Plus(@, entry)]

\* append: the file first, then the total.
AppendEntry ==
  /\ Len(file) < MaxEntries
  /\ \E entry \in Entry :
       /\ file' = Append(file, entry)
       /\ summaries' = AddToSummary(summaries, entry)
  /\ UNCHANGED <<restarts, reader, wire, since>>

Slice(s, start, end) == SubSeq(s, start + 1, IF end < Len(s) THEN end ELSE Len(s))

\* A slip: the cursor counts from the newest entry.
EntriesForCounted(account, direction, limit, before) ==
  LET matching == HistoryOf(file, account, direction)
      end == before + limit
  IN [entries |-> Slice(matching, before, end),
      nextCursor |-> IF end < Len(matching) THEN end ELSE NoCursor]

\* entriesFor: a page of the history, and the cursor of the next, if there is one.
\* A cursor that names none of these entries gets an empty page and no cursor.
EntriesFor(account, direction, limit, before) ==
  LET matching == HistoryOf(file, account, direction)
      start == IF before = NoCursor THEN 0
               ELSE IF Contains(matching, before)
                 THEN CHOOSE i \in DOMAIN matching : matching[i] = before
                 ELSE Len(matching)
      end == start + (IF limit < MaximumReadLimit THEN limit ELSE MaximumReadLimit)
      page == Slice(matching, start, end)
  IN [entries |-> page,
      nextCursor |-> IF page # <<>> /\ start + Len(page) < Len(matching) THEN Last(page) ELSE NoCursor]

\* A slip: the totals are added to what a snapshot says already.
RestoreTwice == FoldLeft(AddToSummary, summaries, file)

\* The process ends and starts again: restore rebuilds the totals from the
\* file, and the connection of the reader is gone.
Restore == FoldLeft(AddToSummary, [a \in Account |-> NoSummary], file)

Restart ==
  /\ restarts < MaxRestarts
  /\ restarts' = restarts + 1
  /\ summaries' = Restore
  /\ wire' = Idle
  /\ reader' = [reader EXCEPT !.phase = IF @ = "done" THEN @ ELSE "failed"]
  /\ UNCHANGED <<file, since>>

\* The gateway answers a request at once, with the file as it is then.
AnswerQuery ==
  /\ wire.type = "account.ledger.get"
  /\ LET page == EntriesFor(reader.account, reader.direction, reader.limit, wire.before)
     IN wire' = [type |-> "account.ledger", entries |-> page.entries, nextCursor |-> page.nextCursor]
  /\ since' = IF wire.before = NoCursor THEN Len(file) ELSE since
  /\ UNCHANGED <<file, summaries, restarts, reader>>

-----------------------------------------------------------------------------
(* AccountHistoryCommand, over one AccountClient connection.               *)

Request ==
  /\ reader.phase = "asking"
  /\ wire' = [type |-> "account.ledger.get", before |-> reader.cursor]
  /\ reader' = [reader EXCEPT !.phase = "waiting"]
  /\ UNCHANGED <<file, summaries, restarts, since>>

ReadAnswer ==
  /\ reader.phase = "waiting" /\ wire.type = "account.ledger"
  /\ LET isMore == wire.nextCursor # NoCursor
     IN reader' = [reader EXCEPT !.entries = @ \o wire.entries,
                                 !.cursor = wire.nextCursor,
                                 !.isMoreLeftUnread = isMore,
                                 !.phase = IF isMore /\ reader.isEverythingRequested THEN "asking"
                                                                                     ELSE "done"]
  /\ wire' = Idle
  /\ UNCHANGED <<file, summaries, restarts, since>>

\* The request times out or its connection closes; a late answer is dropped.
RequestFails ==
  /\ reader.phase = "waiting"
  /\ reader' = [reader EXCEPT !.phase = "failed"]
  /\ wire' = Idle
  /\ UNCHANGED <<file, summaries, restarts, since>>

Next == AppendEntry \/ Restart \/ AnswerQuery \/ Request \/ ReadAnswer \/ RequestFails

Spec == Init /\ [][Next]_vars

-----------------------------------------------------------------------------
(* Properties.                                                             *)

\* A balance is always what the account's entries in the file add up to, and
\* the totals that are kept are the ones a restart would find (append,
\* addToSummary and restore: "there is no stored balance that could drift").
SummariesAddUp ==
  \A a \in Account :
    LET places(direction) == Len(HistoryOf(file, a, direction))
    IN summaries[a] = [balance |-> places("earned") - places("spent"),
                       earnedStageCount |-> places("earned"), spentStageCount |-> places("spent")]

\* Page after page, a reader is given the history as it was when its first
\* page was read: newest first, without a gap or a repeat, however much was
\* recorded between two pages; it is told that more is left exactly when some
\* is, and a command that asked for everything is done only when it has it
\* (entriesFor and the loop of AccountHistoryCommand.run).
HistoryWithoutGaps ==
  LET history == HistoryOf(SubSeq(file, 1, since), reader.account, reader.direction)
      hasAll == reader.entries = history
  IN /\ IsPrefix(reader.entries, history)
     /\ reader.phase = "done" => /\ reader.isMoreLeftUnread = ~hasAll
                                 /\ reader.isEverythingRequested => hasAll
=============================================================================

------------------------------ MODULE Content ------------------------------
(***************************************************************************)
(* Moderation of cards (backend/internal/content/service.go) and the deck  *)
(* that new rooms are dealt (cmd/api/main.go, startDeckRefresh).           *)
(*                                                                         *)
(* Players report a card; enough of them retire it at once.  An            *)
(* administrator resolves the reports of a card or sets its status.        *)
(* Transactions are READ COMMITTED: each statement sees what was committed *)
(* when it began, and rows it changes stay locked to the end.              *)
(***************************************************************************)
EXTENDS Integers, FiniteSets

CONSTANTS Cards, Reporters,
          Filings,             \* concurrent calls of Report
          autoRetireThreshold,
          MinDeck,             \* what a deck needs to be playable
          MaxReports, MaxRulings \* bounds: calls of Report; acts of administrators

ASSUME ContentAssumption ==
  /\ IsFiniteSet(Cards) /\ IsFiniteSet(Reporters)
  /\ IsFiniteSet(Filings) /\ Filings # {}
  /\ autoRetireThreshold \in Nat \ {0} /\ MinDeck \in Nat
  /\ MaxReports \in Nat /\ MaxRulings \in Nat

VARIABLES
  status,      \* of each card: "approved" or "retired"
  reportCount, \* the column report_count
  report,      \* of each card and reporter: "none", "open" or "resolved"
  filing,      \* transactions of Report
  ruling,      \* the transaction of ResolveReports
  deck,        \* what the running instance deals to new rooms
  restored,    \* cards an administrator has ever put back
  acts         \* calls so far

contentVars == <<status, reportCount, report, filing, ruling, deck, restored, acts>>

NoFiling == [pc |-> "idle"]
NoRuling == [pc |-> "idle"]
Approved == {c \in Cards : status[c] = "approved"}
Open(c) == {r \in Reporters : report[c][r] = "open"}

-----------------------------------------------------------------------------
(* Report: the insert (or update of the reporter's own row, which another  *)
(* transaction may hold), the count, then the card's row and the commit.   *)

Holds(q, c, r) == filing[q] # NoFiling /\ filing[q].card = c /\ filing[q].who = r
RowLocked(c, r) ==
  \/ \E q \in Filings : Holds(q, c, r)
  \/ ruling # NoRuling /\ ruling.card = c /\ r \in ruling.rows
FileReport(q, c, r) ==
  /\ filing[q] = NoFiling /\ ~RowLocked(c, r) /\ acts.reports < MaxReports
  /\ acts' = [acts EXCEPT !.reports = @ + 1]
  /\ filing' = [filing EXCEPT ![q] = [pc |-> "filed", card |-> c, who |-> r]]
  /\ UNCHANGED <<status, reportCount, report, ruling, deck, restored>>

\* Mutated form: reports that stack.
SeenStacked(q) == Cardinality(Open(filing[q].card)) + 1
\* The open reports it sees: those committed, and its own unless it was resolved.
Seen(q) ==
  LET c == filing[q].card
      r == filing[q].who
  IN Cardinality(Open(c) \cup (IF report[c][r] = "none" THEN {r} ELSE {}))
CountReports(q) ==
  /\ filing[q].pc = "filed"
  /\ filing' = [filing EXCEPT ![q] =
       [pc |-> "counted", card |-> filing[q].card, who |-> filing[q].who,
        open |-> Seen(q), overtaken |-> FALSE]]
  /\ UNCHANGED <<status, reportCount, report, ruling, deck, restored, acts>>

\* Mutated form: one too many.
EnoughAndOne(n) == n > autoRetireThreshold
Enough(n) == n >= autoRetireThreshold
CommitReport(q) ==
  LET c == filing[q].card
      r == filing[q].who
  IN /\ filing[q].pc = "counted"
     /\ report' = [report EXCEPT ![c][r] = IF @ = "none" THEN "open" ELSE @]
     /\ reportCount' = [reportCount EXCEPT ![c] = filing[q].open]
     /\ status' = IF Enough(filing[q].open) THEN [status EXCEPT ![c] = "retired"] ELSE status
     /\ filing' = [filing EXCEPT ![q] = NoFiling]
     /\ UNCHANGED <<ruling, deck, restored, acts>>

\* A statement fails, or the client leaves: rolled back.
AbortReport(q) ==
  /\ filing[q] # NoFiling
  /\ filing' = [filing EXCEPT ![q] = NoFiling]
  /\ UNCHANGED <<status, reportCount, report, ruling, deck, restored, acts>>

-----------------------------------------------------------------------------
(* Administrators.                                                         *)

Rule == acts.rulings < MaxRulings /\ acts' = [acts EXCEPT !.rulings = @ + 1]
Restores(c, s) == restored' = IF s = "approved" THEN restored \cup {c} ELSE restored

\* The open reports it sees are marked.  Without one there is nothing to resolve.
ResolveReports(c, s) ==
  /\ ruling = NoRuling /\ Open(c) # {}
  /\ \A r \in Open(c) : ~RowLocked(c, r)
  /\ Rule
  /\ ruling' = [pc |-> "marked", card |-> c, rows |-> Open(c), to |-> s]
  /\ UNCHANGED <<status, reportCount, report, filing, deck, restored>>

\* The card gets its status, and the transaction commits.
CommitRuling ==
  LET c == ruling.card
  IN /\ ruling # NoRuling
     /\ report' = [report EXCEPT ![c] =
          [r \in Reporters |-> IF r \in ruling.rows THEN "resolved" ELSE @[r]]]
     /\ status' = [status EXCEPT ![c] = ruling.to]
     /\ reportCount' = [reportCount EXCEPT ![c] = 0]
     /\ filing' = [q \in Filings |->
          IF filing[q].pc = "counted" /\ filing[q].card = c
          THEN [filing[q] EXCEPT !.overtaken = TRUE] ELSE filing[q]]
     /\ Restores(c, ruling.to)
     /\ ruling' = NoRuling
     /\ UNCHANGED <<deck, acts>>

AbortRuling ==
  /\ ruling # NoRuling /\ ruling' = NoRuling
  /\ UNCHANGED <<status, reportCount, report, filing, deck, restored, acts>>

SetCardStatus(c, s) ==
  /\ Rule
  /\ status' = [status EXCEPT ![c] = s]
  /\ Restores(c, s)
  /\ UNCHANGED <<reportCount, report, filing, ruling, deck>>

-----------------------------------------------------------------------------

\* Mutated form: only a deck of another size is a new one.
ChangedSize(new) == Cardinality(new) # Cardinality(deck)
\* The fingerprints differ (cards/deck.go).
Changed(new) == new # deck
Playable(new) == Cardinality(new) >= MinDeck
RefreshDeck ==
  /\ Playable(Approved) /\ Changed(Approved)
  /\ deck' = Approved
  /\ UNCHANGED <<status, reportCount, report, filing, ruling, restored, acts>>

\* An instance starts with the cards that are approved then.
ContentInit ==
  /\ status \in [Cards -> {"approved", "retired"}] /\ Playable(Approved)
  /\ reportCount = [c \in Cards |-> 0]
  /\ report = [c \in Cards |-> [r \in Reporters |-> "none"]]
  /\ filing = [q \in Filings |-> NoFiling] /\ ruling = NoRuling
  /\ deck = Approved /\ restored = {}
  /\ acts = [reports |-> 0, rulings |-> 0]

ContentNext ==
  \/ \E q \in Filings :
       \/ \E c \in Cards, r \in Reporters : FileReport(q, c, r)
       \/ CountReports(q) \/ CommitReport(q) \/ AbortReport(q)
  \/ \E c \in Cards, s \in {"approved", "retired"} : ResolveReports(c, s) \/ SetCardStatus(c, s)
  \/ CommitRuling \/ AbortRuling
  \/ RefreshDeck

ContentSpec == ContentInit /\ [][ContentNext]_contentVars /\ WF_contentVars(RefreshDeck)

-----------------------------------------------------------------------------

\* docs/CONTENT_PLATFORM.md: at three distinct reporters a card is retired.
\* Reports that overlap may each miss the others, so that it takes a few more, but
\* no more than run beside one, unless an administrator has put the card back.
RetiredInTime ==
  \A c \in Cards \ restored : status[c] = "approved" =>
    Cardinality(Open(c)) < autoRetireThreshold + Cardinality(Filings) - 1

\* Reports retire a card only if that many people's are open, except when an
\* administrator has resolved them since they were counted (Report).
RetiredForCause ==
  [][\A c \in Cards, q \in Filings :
       filing[q].pc = "counted" /\ filing[q].card = c /\ filing'[q] = NoFiling
       /\ status[c] = "approved" /\ status'[c] = "retired" =>
         filing[q].overtaken \/ Cardinality(Open(c)') >= autoRetireThreshold]_contentVars

\* What administrators and reporters have decided reaches the deck, as long as it
\* leaves enough cards: a retired card stops being dealt to new rooms, and one that
\* was put back is dealt again (startDeckRefresh).
DeckFollows == deck # Approved /\ Playable(Approved) ~> deck = Approved \/ ~Playable(Approved)
=============================================================================

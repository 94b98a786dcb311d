---------------------------- MODULE VoucherPages ----------------------------
(* summarize-vouchers (tools/documents.ts): one call adds up the voucher     *)
(* list of Lexware page by page. Every page is a request of its own, so      *)
(* other users of the account book and delete vouchers between two pages.    *)
EXTENDS Integers, SequencesExt

CONSTANTS
  Row,          \* vouchers that match the filters
  groupOf,      \* row -> the value of the dimension grouped by
  amountOf,     \* row -> totalAmount in cents, 0 if it has none
  currencyOf,   \* row -> its currency, or NoCurrency
  NoCurrency,
  SIZE,         \* rows per page (250 in the code)
  maxPages,     \* argument of the tool
  MaxChanges    \* bound: bookings and deletions during one walk

ASSUME PagesAssumption ==
  /\ SIZE \in Nat \ {0} /\ maxPages \in Nat \ {0} /\ MaxChanges \in Nat
  /\ IsFiniteSet(Row) /\ amountOf \in [Row -> Int]

VARIABLES
  list,          \* Lexware's list, in the order it is paged through
  page, pagesScanned, scanned, totalElements, truncated,
  groups,        \* key -> [count, sum, currencies]
  status,        \* "walking", "done" or "failed"
  \* history
  seen,          \* row -> how often it was counted
  stayed,        \* rows in the list since the walk began
  added, removed \* how many rows joined and left since then

walk == <<page, pagesScanned, scanned, totalElements, truncated, groups, status, seen>>
world == <<list, stayed, added, removed>>
vars == <<walk, world>>

Elements(s) == {s[i] : i \in DOMAIN s}

TypeOK ==
  /\ Elements(list) \subseteq Row /\ IsInjective(list)
  /\ page \in 0..maxPages /\ (status = "walking" => page = pagesScanned)
  /\ {pagesScanned, scanned, totalElements, added, removed} \subseteq Nat
  /\ truncated \in BOOLEAN /\ status \in {"walking", "done", "failed"}
  /\ seen \in [Row -> Nat] /\ stayed \subseteq Elements(list)

(* Slip: pages counted from one. *)
FirstPageIsOne == 1
FirstPage == 0

Init ==
  /\ list \in SeqOf(Row, Cardinality(Row)) /\ IsInjective(list)
  /\ page = FirstPage /\ pagesScanned = 0 /\ scanned = 0 /\ totalElements = 0
  /\ truncated = FALSE /\ groups = <<>> /\ status = "walking"
  /\ seen = [r \in Row |-> 0]
  /\ stayed = Elements(list) /\ added = 0 /\ removed = 0

-----------------------------------------------------------------------------
(* Lexware's paging: rows p*SIZE+1 .. (p+1)*SIZE of the list as it is now.   *)
IsLast(p) == Len(list) <= (p + 1) * SIZE
Content(p) == SubSeq(list, p * SIZE + 1, IF IsLast(p) THEN Len(list) ELSE (p + 1) * SIZE)

(* Other users. A voucher appears anywhere in the list, for its place is     *)
(* that of its date; an edit that moves one is a removal and an addition.    *)
Book ==
  /\ added + removed < MaxChanges
  /\ \E r \in Row \ Elements(list), i \in 1..(Len(list) + 1) : list' = InsertAt(list, i, r)
  /\ added' = added + 1
  /\ UNCHANGED <<walk, stayed, removed>>

Delete ==
  /\ added + removed < MaxChanges
  /\ \E i \in DOMAIN list :
       /\ list' = RemoveAt(list, i)
       /\ stayed' = stayed \ {list[i]}
  /\ removed' = removed + 1
  /\ UNCHANGED <<walk, added>>

-----------------------------------------------------------------------------
NewGroup == [count |-> 0, sum |-> 0, currencies |-> {}]

CurrencySet(r) == IF currencyOf[r] = NoCurrency THEN {} ELSE {currencyOf[r]}

(* Slip: the totals of a key start again with every row. *)
GroupStartsAgain(g, key) == NewGroup
GroupOf(g, key) == IF key \in DOMAIN g THEN g[key] ELSE NewGroup

AddCurrency(old, r) == old \union CurrencySet(r)

(* The body of the inner loop for one row. *)
AddRow(g, r) ==
  LET key == groupOf[r]
      old == GroupOf(g, key)
      new == [count |-> old.count + 1,
              sum |-> old.sum + amountOf[r],
              currencies |-> AddCurrency(old.currencies, r)]
  IN  [k \in DOMAIN g \union {key} |-> IF k = key THEN new ELSE g[k]]

AddRows(g, rows) == FoldLeft(AddRow, g, rows)

(* Is the page after p one too many?                                         *)
Capped(p) == p + 1 >= maxPages

(* The page after it. *)
NextPage == IF IsLast(page) THEN page ELSE page + 1

(* Slip: the cap tested before the end of the list. *)
CutOffAtCap == Capped(page)
CutOff == ~IsLast(page) /\ Capped(page)

(* One turn of the loop: a GET and what is done with its answer. *)
ReadPage ==
  /\ status = "walking"
  /\ totalElements' = Len(list)
  /\ pagesScanned' = pagesScanned + 1
  /\ scanned' = scanned + Len(Content(page))
  /\ groups' = AddRows(groups, Content(page))
  /\ seen' = [r \in Row |-> seen[r] + (IF r \in Elements(Content(page)) THEN 1 ELSE 0)]
  /\ page' = NextPage
  /\ truncated' = CutOff
  /\ status' = IF IsLast(page) \/ Capped(page) THEN "done" ELSE "walking"
  /\ UNCHANGED world

(* A GET fails for good: the call throws and reports nothing. *)
PageFails ==
  /\ status = "walking"
  /\ status' = "failed"
  /\ UNCHANGED <<page, pagesScanned, scanned, totalElements, truncated, groups, seen, world>>

(* A finished call leaves its totals; what happens to the list is no matter. *)
Next == ReadPage \/ PageFails \/ (status = "walking" /\ (Book \/ Delete))

Spec == Init /\ [][Next]_vars

-----------------------------------------------------------------------------
(* The answer: totals over all groups, and one currency if there is only one. *)
grandTotal == SumFunction([k \in DOMAIN groups |-> groups[k].sum])
allCurrencies == UNION {groups[k].currencies : k \in DOMAIN groups}
currency == IF allCurrencies = {} THEN "none"
            ELSE IF Cardinality(allCurrencies) = 1 THEN CHOOSE c \in allCurrencies : TRUE
            ELSE "mixed"

Done == status = "done"
Times(S) == SumFunctionOnSet(seen, S)
Again == SumFunction([r \in Row |-> IF seen[r] > 1 THEN seen[r] - 1 ELSE 0])

(* In a list that nobody changed during the walk each row is counted once    *)
(* and the answer is flagged as truncated exactly when the cap on pages left *)
(* rows out: also when the last page is the last one allowed, and when the   *)
(* rows end with a page.                                                     *)
ExactIfUnchanged ==
  Done /\ added = 0 /\ removed = 0 =>
    /\ truncated <=> Len(list) > maxPages * SIZE
    /\ ~truncated => /\ \A r \in Row : seen[r] = IF r \in Elements(list) THEN 1 ELSE 0
                     /\ scanned = totalElements

(* Other changes put the totals off by at most their number: rows counted    *)
(* again never outnumber the vouchers booked during the walk, and rows that  *)
(* were there all along and are missing from a complete answer never         *)
(* outnumber those deleted.                                                  *)
OffByChanges ==
  /\ Again <= added
  /\ Done /\ ~truncated => Cardinality({r \in stayed : seen[r] = 0}) <= removed

(* The groups are the rows that were counted, no more and no less, the grand *)
(* totals are theirs, whichever pages the rows of a group came from, and the *)
(* answer names a currency only if no row in another one is in them.         *)
TotalsAddUp ==
  /\ scanned = Times(Row)
  /\ DOMAIN groups = {groupOf[r] : r \in {x \in Row : seen[x] > 0}}
  /\ \A k \in DOMAIN groups :
       groups[k].count = Times({r \in Row : groupOf[r] = k})
  /\ grandTotal = SumFunction([r \in Row |-> seen[r] * amountOf[r]])
  /\ currency \notin {"none", "mixed"} =>
       \A r \in Row : seen[r] > 0 => currencyOf[r] \in {currency, NoCurrency}

-----------------------------------------------------------------------------
(* The inductive invariant of a list that nobody changes.                    *)

(* The rows before the page that is read next have been counted, once each.  *)
CountedUpTo(n) ==
  /\ scanned = n
  /\ seen = [r \in Row |-> IF \E i \in 1..n : list[i] = r THEN 1 ELSE 0]

(* The walk goes on only while it may, and rows are left.                    *)
Underway ==
  /\ page \in 0..(maxPages - 1)
  /\ page = 0 \/ page * SIZE < Len(list)
  /\ CountedUpTo(page * SIZE)

Undisturbed ==
  added = 0 /\ removed = 0 =>
    /\ list \in Seq(Row) /\ IsInjective(list)
    /\ status = "walking" => Underway

IInv ==
  /\ {added, removed} \subseteq Nat /\ status \in {"walking", "done", "failed"}
  /\ Undisturbed
  /\ ExactIfUnchanged
=============================================================================

------------------------------- MODULE Wallet -------------------------------
(***************************************************************************)
(* The wallet of one customer: wallet.service over wallet.repository.      *)
(* Each operation is a transaction that reads the wallet, changes it by an *)
(* increment, adds a WalletTransaction and reads the wallet again.         *)
(*                                                                         *)
(* The increments are safe against each other; the check of a debit is     *)
(* made on the balance read first and is not repeated under the lock.      *)
(***************************************************************************)
EXTENDS Integers, Sequences, FiniteSets, SequencesExt

CONSTANTS
  Tellers,       \* operations in progress at the same time
  Amounts,       \* amounts they ask for
  PageSize,      \* limit of getTransactions
  MaxLedger      \* bound: transactions of the wallet

ASSUME WalletAssumption ==
  /\ Amounts # {} /\ IsFiniteSet(Amounts) /\ Amounts \subseteq Nat \ {0}
  /\ IsFiniteSet(Tellers) /\ Tellers # {}
  /\ PageSize \in Nat \ {0} /\ MaxLedger \in Nat

VARIABLES
  wallet,        \* Wallet: exists, balance, cashback
  ledger,        \* WalletTransaction, oldest first
  teller,        \* what each operation is doing
  walk           \* a client that follows nextCursor from page to page

walletVars == <<wallet, ledger, teller, walk>>

Kinds == {"credit", "debit", "cashback"}
Entry == [type : Kinds, amount : Amounts]

Teller == [pc : {"idle", "read", "update", "commit", "ended"},
           op : Kinds, amount : Amounts,
           wrote : BOOLEAN]         \* uncommitted increment, row locked

IdleTeller == [pc |-> "idle", op |-> "credit", amount |-> CHOOSE a \in Amounts : TRUE,
               wrote |-> FALSE]

(* cursor: position in ledger of the last entry received; first: how many  *)
(* there were when the walk began; got: the positions received.            *)
Walk == [on : BOOLEAN, cursor : 0 .. MaxLedger + 1, first : 0 .. MaxLedger,
         got : Seq(1 .. MaxLedger), over : BOOLEAN]
NoWalk == [on |-> FALSE, cursor |-> 0, first |-> 0, got |-> <<>>, over |-> FALSE]

WalletTypeOK ==
  /\ wallet \in [exists : BOOLEAN, balance : Int, cashback : Int]
  /\ ledger \in Seq(Entry)
  /\ teller \in [Tellers -> Teller]
  /\ walk \in Walk

WalletInit ==
  /\ wallet = [exists |-> FALSE, balance |-> 0, cashback |-> 0]
  /\ ledger = <<>>
  /\ teller = [t \in Tellers |-> IdleTeller]
  /\ walk = NoWalk

AccountStays == UNCHANGED <<wallet, ledger, walk>>
TellerGoes(t, pc) == teller' = [teller EXCEPT ![t].pc = pc]
TellerEnds(t) == teller' = [teller EXCEPT ![t] = [IdleTeller EXCEPT !.pc = "ended"]]

-----------------------------------------------------------------------------
(* getWallet creates the wallet with an upsert.                            *)
GetWallet ==
  /\ wallet' = [wallet EXCEPT !.exists = TRUE]
  /\ UNCHANGED <<ledger, teller, walk>>

StartOperation(t, op, amount) ==
  /\ teller[t].pc = "idle"
  /\ Len(ledger) + Cardinality({s \in Tellers : teller[s].pc \notin {"idle", "ended"}}) < MaxLedger
  /\ teller' = [teller EXCEPT ![t] = [IdleTeller EXCEPT !.pc = "read", !.op = op, !.amount = amount]]
  /\ AccountStays

(* WalletNotFoundError, InsufficientFundsError.                            *)
(* Mutant: a debit needs a positive balance, not the amount.               *)
AnyBalanceCovers(t) ==
  wallet.exists /\ (teller[t].op = "debit" => wallet.balance > 0)

Covered(t) ==
  wallet.exists /\ (teller[t].op = "debit" => wallet.balance >= teller[t].amount)

ReadWallet(t) ==
  /\ teller[t].pc = "read"
  /\ \/ Covered(t) /\ TellerGoes(t, "update")
     \/ ~ Covered(t) /\ TellerEnds(t)
  /\ AccountStays

(* The increment or decrement takes the row's lock.                        *)
UpdateWallet(t) ==
  /\ teller[t].pc = "update"
  /\ \A s \in Tellers \ {t} : ~ teller[s].wrote
  /\ teller' = [teller EXCEPT ![t].pc = "commit", ![t].wrote = TRUE]
  /\ AccountStays

(* The row of the transaction, the last read, and the commit.              *)
(* Mutant: cashback is paid into the balance.                              *)
CashbackToBalance(t) ==
  IF teller[t].op = "debit" THEN [wallet EXCEPT !.balance = @ - teller[t].amount]
  ELSE [wallet EXCEPT !.balance = @ + teller[t].amount]

Changed(t) ==
  LET n == teller[t].amount
  IN  CASE teller[t].op = "credit"   -> [wallet EXCEPT !.balance = @ + n]
        [] teller[t].op = "debit"    -> [wallet EXCEPT !.balance = @ - n]
        [] teller[t].op = "cashback" -> [wallet EXCEPT !.cashback = @ + n]

CommitOperation(t) ==
  /\ teller[t].pc = "commit"
  /\ wallet' = Changed(t)
  /\ ledger' = Append(ledger, [type |-> teller[t].op, amount |-> teller[t].amount])
  /\ TellerEnds(t)
  /\ UNCHANGED walk

(* A statement throws or the process stops: the transaction rolls back.    *)
OperationFails(t) ==
  /\ teller[t].pc \in {"read", "update", "commit"}
  /\ TellerEnds(t)
  /\ AccountStays

TellerReturns(t) ==
  /\ teller[t].pc = "ended"
  /\ teller' = [teller EXCEPT ![t] = IdleTeller]
  /\ AccountStays

-----------------------------------------------------------------------------
(* getTransactions of the repository: newest first, one row more than      *)
(* asked for to see whether there is a next page, the cursor's own row     *)
(* skipped.  The client here is a caller of the repository that passes     *)
(* nextCursor on; the service's own method takes no cursor.                *)

Descending(i, j) == [k \in 1 .. (i - j + 1) |-> i - k + 1]       \* i, i-1 .. j

(* Mutant: the cursor's own row is not skipped.                            *)
WithCursorRow(cursor, n) ==
  Descending(IF cursor = 0 THEN n ELSE cursor, 1)

From(cursor, n) ==
  Descending(IF cursor = 0 THEN n ELSE cursor - 1, 1)

Page(cursor, n) ==
  LET rows == From(cursor, n)
      hasMore == Len(rows) > PageSize
      data == IF hasMore THEN SubSeq(rows, 1, PageSize) ELSE rows
  IN  [data |-> data, hasMore |-> hasMore]

StartWalk ==
  /\ ~ walk.on
  /\ wallet.exists
  /\ walk' = [NoWalk EXCEPT !.on = TRUE, !.first = Len(ledger)]
  /\ UNCHANGED <<wallet, ledger, teller>>

NextPage ==
  LET page == Page(walk.cursor, Len(ledger))
      got == walk.got \o page.data
  IN  /\ walk.on /\ ~ walk.over
      /\ walk' = [walk EXCEPT !.got = got, !.over = ~ page.hasMore,
                    !.cursor = IF page.hasMore THEN Last(page.data) ELSE @]
      /\ UNCHANGED <<wallet, ledger, teller>>

EndWalk ==
  /\ walk.over
  /\ walk' = NoWalk
  /\ UNCHANGED <<wallet, ledger, teller>>

WalletNext ==
  \/ GetWallet
  \/ \E t \in Tellers :
       \/ \E op \in Kinds, a \in Amounts : StartOperation(t, op, a)
       \/ ReadWallet(t) \/ UpdateWallet(t) \/ CommitOperation(t)
       \/ OperationFails(t) \/ TellerReturns(t)
  \/ StartWalk \/ NextPage \/ EndWalk

WalletSpec == WalletInit /\ [][WalletNext]_walletVars

-----------------------------------------------------------------------------
(* Properties.                                                             *)

(* The amounts of one type among the entries, added up oldest first.       *)
SumOf(entries, type) ==
  LET total[n \in 0 .. Len(entries)] ==
        IF n = 0 THEN 0
        ELSE total[n - 1] + (IF entries[n].type = type THEN entries[n].amount ELSE 0)
  IN  total[Len(entries)]

(* "Preserving the financial audit trail": the balance and the cashback    *)
(* are the sums of the recorded transactions, whatever overlaps or fails.  *)
LedgerExplainsWallet ==
  /\ wallet.balance = SumOf(ledger, "credit") - SumOf(ledger, "debit")
  /\ wallet.cashback = SumOf(ledger, "cashback")

MaxAmount == CHOOSE a \in Amounts : \A b \in Amounts : b <= a

(* wallet.service says of deductBalance that one transaction for check and *)
(* decrement prevents races between them.  It does not: debits that        *)
(* overlap may each be covered by the same balance.  What holds is that it *)
(* is never overdrawn by more than all but one of them, and with one       *)
(* operation at a time never at all.                                       *)
OverdraftIsBounded ==
  wallet.balance >= - ((Cardinality(Tellers) - 1) * MaxAmount)

(* A caller of the repository's getTransactions that passes nextCursor on  *)
(* gets every transaction there was when it began exactly once and in      *)
(* order, although others are added while it reads.                        *)
WalkIsComplete ==
  walk.over =>
    /\ \A i, j \in DOMAIN walk.got : i < j => walk.got[i] > walk.got[j]
    /\ \A k \in 1 .. walk.first : \E i \in DOMAIN walk.got : walk.got[i] = k
=============================================================================

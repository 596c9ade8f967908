--------------------------- MODULE ConsumableStock ---------------------------
(***************************************************************************)
(* One laboratory resource and what is kept beside its bookings: its stock *)
(* when it is a consumable, and the use that students report when it is    *)
(* equipment: apps/resources/services.py and views.py.                     *)
(*                                                                         *)
(* Stock transactions and edits lock the row, and an edit made from an     *)
(* outdated page is refused, so each is one step.  A report of use and the *)
(* decision about it act on the row that their view loaded.  Who may do    *)
(* what is left out (a refusal changes nothing), and so are costs.         *)
(***************************************************************************)
EXTENDS Integers, Sequences

CONSTANTS
  Uses,       \* ids of reports of use
  Visitors,   \* overlapping requests of students and managers
  MaxStock,   \* bound: units in stock
  MaxLedger   \* bound: stock transactions

ASSUME StockAssumption == MaxStock \in Nat /\ MaxLedger \in Nat \ {0}

VARIABLES
  item,       \* the ResourceItem row
  ledger,     \* ConsumableStockTransaction rows
  uses,       \* status of the ResourceUseSubmission rows
  lowTold,    \* history: managers were told since the stock was last high
  visitors    \* visitors[v]: the row that a request has loaded

stockVars == <<item, ledger, uses, lowTold, visitors>>

-----------------------------------------------------------------------------
ItemKind == {"equipment", "consumable"}

ItemRow == [state : {"absent", "active", "retired", "deleted"}, kind : ItemKind,
            stock : 0 .. MaxStock, reorder : 0 .. MaxStock]

Delta == (-MaxStock .. MaxStock) \ {0}

Transaction == [delta : Delta, balance : 0 .. MaxStock]

NoVisit == [step |-> "none"]

StockTypeOK ==
  /\ item \in ItemRow
  /\ ledger \in Seq(Transaction) /\ Len(ledger) <= MaxLedger
  /\ uses \in [Uses -> {"absent", "pending", "confirmed", "rejected"}]
  /\ lowTold \in BOOLEAN
  /\ visitors \in
       [Visitors -> {NoVisit} \cup [step : {"reporting"}, kind : ItemKind]
                      \cup [step : {"deciding"}, use : Uses, status : {"pending"}]]

StockInit ==
  /\ item = [state |-> "absent", kind |-> "equipment", stock |-> 0, reorder |-> 0]
  /\ ledger = << >>
  /\ uses = [u \in Uses |-> "absent"]
  /\ lowTold = FALSE
  /\ visitors = [v \in Visitors |-> NoVisit]

Kept == item.state \in {"active", "retired"}

IsLow(row) == row.kind = "consumable" /\ row.stock <= row.reorder

-----------------------------------------------------------------------------
(***************************************************************************)
(* The inventory.                                                          *)
(***************************************************************************)

\* create_resource: a consumable starts with a transaction for its opening
\* balance, and its managers are told when that is low.
CreateItem(row) ==
  /\ item.state = "absent" /\ row.state = "active"
  /\ item' = row
  /\ ledger' = IF row.kind = "consumable" /\ row.stock > 0
               THEN <<[delta |-> row.stock, balance |-> row.stock]>> ELSE << >>
  /\ lowTold' = IsLow(row)
  /\ UNCHANGED <<uses, visitors>>

HasHistory == ledger # << >> \/ \E u \in Uses : uses[u] # "absent"

\* Mutant of EditItem: the class changes with the history there is.
EditAnyItem(state, kind, reorder) ==
  /\ Kept
  /\ item' = [item EXCEPT !.state = state, !.kind = kind, !.reorder = reorder]
  /\ UNCHANGED <<ledger, uses, lowTold, visitors>>

\* update_resource: the class changes only without history.  The stock stays,
\* and nobody is told when it is low now.
EditItem(state, kind, reorder) ==
  /\ Kept
  /\ kind = item.kind \/ ~HasHistory
  /\ item' = [item EXCEPT !.state = state, !.kind = kind, !.reorder = reorder]
  /\ UNCHANGED <<ledger, uses, lowTold, visitors>>

RetireItem ==
  /\ Kept
  /\ item' = [item EXCEPT !.state = "retired"]
  /\ UNCHANGED <<ledger, uses, lowTold, visitors>>

DeleteItem ==
  /\ Kept /\ ~HasHistory
  /\ item' = [item EXCEPT !.state = "deleted"]
  /\ UNCHANGED <<ledger, uses, lowTold, visitors>>

\* record_stock_transaction: managers are told when the stock comes down to
\* the reorder level.  A retired resource has transactions too.
RecordStock(delta) ==
  LET balance == item.stock + delta
      told == item.stock > item.reorder /\ balance <= item.reorder
  IN  /\ Kept /\ item.kind = "consumable"
      /\ balance \in 0 .. MaxStock
      /\ Len(ledger) < MaxLedger
      /\ item' = [item EXCEPT !.stock = balance]
      /\ ledger' = Append(ledger, [delta |-> delta, balance |-> balance])
      /\ lowTold' = (told \/ (lowTold /\ balance <= item.reorder))
      /\ UNCHANGED <<uses, visitors>>

-----------------------------------------------------------------------------
(***************************************************************************)
(* Reports of use.                                                         *)
(***************************************************************************)

DepartVisitor(v) == visitors' = [visitors EXCEPT ![v] = NoVisit]

\* The use_submissions action loads the resource.
LoadItem(v) ==
  /\ visitors[v] = NoVisit
  /\ item.state = "active" /\ item.kind = "equipment"
  /\ visitors' = [visitors EXCEPT ![v] = [step |-> "reporting", kind |-> item.kind]]
  /\ UNCHANGED <<item, ledger, uses, lowTold>>

\* create_use_submission checked the row that was loaded; the insert waits for
\* a lock on the resource and fails when that is gone.
ReportUse(v, u) ==
  /\ visitors[v].step = "reporting"
  /\ Kept /\ uses[u] = "absent"
  /\ uses' = [uses EXCEPT ![u] = "pending"]
  /\ DepartVisitor(v)
  /\ UNCHANGED <<item, ledger, lowTold>>

ReportFails(v) ==
  /\ visitors[v].step = "reporting" /\ ~Kept
  /\ DepartVisitor(v)
  /\ UNCHANGED <<item, ledger, uses, lowTold>>

\* The view loads a report that is pending.
LoadUse(v, u) ==
  /\ visitors[v] = NoVisit /\ uses[u] = "pending"
  /\ visitors' = [visitors EXCEPT
       ![v] = [step |-> "deciding", use |-> u, status |-> uses[u]]]
  /\ UNCHANGED <<item, ledger, uses, lowTold>>

\* decide_use_submission judges the row that was loaded.
DecideUse(v, decision) ==
  /\ visitors[v].step = "deciding" /\ visitors[v].status = "pending"
  /\ uses' = [uses EXCEPT ![visitors[v].use] = decision]
  /\ DepartVisitor(v)
  /\ UNCHANGED <<item, ledger, lowTold>>

-----------------------------------------------------------------------------
\* LaboratoryResourceViewSet
InventoryRequest ==
  \/ \E row \in ItemRow : CreateItem(row)
  \/ \E state \in {"active", "retired"}, kind \in ItemKind, reorder \in 0 .. MaxStock :
       EditItem(state, kind, reorder)
  \/ RetireItem \/ DeleteItem

\* ConsumableStockTransactionViewSet
StockRequest == \E delta \in Delta : RecordStock(delta)

\* The use_submissions action of LaboratoryResourceViewSet
ReportRequest(v) == LoadItem(v) \/ ReportFails(v) \/ \E u \in Uses : ReportUse(v, u)

\* ResourceUseSubmissionViewSet
DecisionRequest(v) ==
  \/ \E u \in Uses : LoadUse(v, u)
  \/ \E decision \in {"confirmed", "rejected"} : DecideUse(v, decision)

StockNext ==
  \/ InventoryRequest \/ StockRequest
  \/ \E v \in Visitors : ReportRequest(v) \/ DecisionRequest(v)

StockSpec == StockInit /\ [][StockNext]_stockVars

-----------------------------------------------------------------------------
(***************************************************************************)
(* Properties.                                                             *)
(***************************************************************************)

\* The transactions account for the stock: each balance follows from the one
\* before, and the last is what is in stock.  The first may start from units
\* that were entered while the resource was equipment (create_resource,
\* record_stock_transaction).
LedgerExplainsStock ==
  /\ \A n \in DOMAIN ledger :
       n > 1 => ledger[n].balance = ledger[n - 1].balance + ledger[n].delta
  /\ ledger # << >> =>
       item.kind = "consumable" /\ ledger[Len(ledger)].balance = item.stock

\* The stock is low without anybody having been told.
LowUnseen == Kept /\ IsLow(item) /\ ~lowTold

\* That can only come from an edit of the reorder level or of the class, never
\* from using up the stock (record_stock_transaction, update_resource).
OnlyEditsHideLowStock ==
  [][~LowUnseen /\ LowUnseen' => item'.stock = item.stock /\ ledger' = ledger]_stockVars

Mixed == item.kind = "consumable" /\ \E u \in Uses : uses[u] # "absent"

\* A consumable has reports of use only when a report that was checked while it
\* was equipment arrives after its class was changed, and a decision is replaced
\* only by one made on a report that was loaded before it (create_use_submission,
\* decide_use_submission, update_resource).
OnlyLateRequestsMixUses ==
  [][/\ ~Mixed /\ Mixed' => item' = item
     /\ \A u \in Uses :
          uses[u] \in {"confirmed", "rejected"} /\ uses'[u] # uses[u] =>
            \E v \in Visitors :
              visitors[v] = [step |-> "deciding", use |-> u, status |-> "pending"]
    ]_stockVars
=============================================================================

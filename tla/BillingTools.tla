------------------------------ MODULE BillingTools ------------------------------
(* Invoices and expenses.  A tool whose arguments choose between routes    *)
(* has a row for each.                                                     *)
EXTENDS Steps, TLC

ListInvoices == <<Look("invoice")>>
GetInvoice == <<Need("invoice")>>
CreateInvoice == <<Vet, Preview, Post("newInvoice")>>
\* The fields are merged into what is there, then the status is set: two
\* requests, the second may fail after the first.
MergeInvoiceFields == GetInvoice \o <<Put("invoice", "changed")>>
PatchInvoiceStatus == <<Put("invoiceStatus", "changed")>>
UpdateInvoice == <<Preview>> \o MergeInvoiceFields \o PatchInvoiceStatus
UpdateInvoiceStatus == <<Preview>> \o PatchInvoiceStatus
DeleteInvoice == <<Preview, Delete("invoice")>>
\* Says whether the invoice is paid; an invoice that is not is refused.
MarkInvoicePaid == <<Preview>> \o GetInvoice \o <<Vet>>
ListInvoiceItems == GetInvoice
AddInvoiceItem == <<Preview, Post("newItem")>>
DeleteInvoiceItem == <<Preview, Delete("item")>>
ListInvoicePayments == <<Look("payment")>>
CreateInvoicePayment == <<Post("newPayment")>>
DeleteInvoicePayment == <<Preview, Delete("payment")>>
ImportInvoiceTime == <<Post("importedItems")>>
ImportInvoiceExpenses == <<Post("importedItems")>>
ExportInvoice == <<Need("invoice")>>
InvoicesInfo == <<Look("invoice")>>
Guidance == <<>>

\* The invoice stays when the import fails, and the result says so.
InvoiceClientWork == <<Need("client")>> \o CreateInvoice \o <<Report(Post("importedItems"))>>

-----------------------------------------------------------------------------

FetchAllExpenseCategories == <<Look("category")>>
FindExpenseCategory == <<Need("category")>>
ListExpenses == <<Look("expense")>>
GetExpense == <<Need("expense")>>
CreateExpense == <<Look("user"), Preview, Post("newExpense")>>
UpdateExpense == GetExpense \o <<Vet, Look("user"), Put("expense", "changed")>>
DeleteExpense == <<Preview, Delete("expense")>>
CreateExpenseCategory == <<Preview, Post("newCategory")>>
UpdateExpenseCategory == FindExpenseCategory \o <<Preview, Put("category", "changed")>>
ArchiveExpenseCategory == <<Preview, Put("category", "archived")>>
\* Archived whatever its state, then deleted.
DeleteExpenseCategory == <<Preview, Put("category", "archived"), Delete("category")>>

RecordExpense == FindExpenseCategory \o <<Need("project")>> \o CreateExpense

-----------------------------------------------------------------------------

Billing(change, s, steps) == Risky(WithDryRun(RW(change, s, steps)))
BillingDelete(s, steps) == WithDryRun(Destructive("deleted", s, steps))

InvoiceTools ==
    "clockify_invoices_list" :> RO(ListInvoices) @@
    "clockify_invoices_get" :> RO(GetInvoice) @@
    "clockify_invoices_create" :> Billing("created", "newInvoice", CreateInvoice) @@
    "clockify_invoices_update" :> Billing("updated", "invoice", UpdateInvoice) @@
    "clockify_invoices_update of the status" :>
        Billing("updated", "invoiceStatus", UpdateInvoiceStatus) @@
    "clockify_invoices_delete" :> BillingDelete("invoice", DeleteInvoice) @@
    "clockify_invoices_send_guidance" :> RO(Guidance) @@
    "clockify_invoices_mark_paid" :> Billing("updated", "invoice", MarkInvoicePaid) @@
    "clockify_invoices_items_list" :> RO(ListInvoiceItems) @@
    "clockify_invoices_items_add" :> Billing("created", "newItem", AddInvoiceItem) @@
    "clockify_invoices_items_update_guidance" :> RO(Guidance) @@
    "clockify_invoices_items_delete" :> BillingDelete("item", DeleteInvoiceItem)

InvoiceRouteTools ==
    "clockify_invoices_export" :> RO(ExportInvoice) @@
    "clockify_invoices_import_time" :>
        Risky(RW("updated", "importedItems", ImportInvoiceTime)) @@
    "clockify_invoices_import_expenses" :>
        Risky(RW("updated", "importedItems", ImportInvoiceExpenses)) @@
    "clockify_invoices_payments_list" :> RO(ListInvoicePayments) @@
    "clockify_invoices_payments_create" :>
        Risky(RW("created", "newPayment", CreateInvoicePayment)) @@
    "clockify_invoices_payments_delete" :> BillingDelete("payment", DeleteInvoicePayment) @@
    "clockify_invoices_info" :> RO(InvoicesInfo)

ExpenseTools ==
    "clockify_expenses_list" :> RO(ListExpenses) @@
    "clockify_expenses_get" :> RO(GetExpense) @@
    "clockify_expenses_create" :> Billing("created", "newExpense", CreateExpense) @@
    "clockify_expenses_update" :> Risky(RW("updated", "expense", UpdateExpense)) @@
    "clockify_expenses_delete" :> BillingDelete("expense", DeleteExpense) @@
    "clockify_expenses_categories_list" :> RO(FetchAllExpenseCategories) @@
    "clockify_expenses_categories_create" :>
        Billing("created", "newCategory", CreateExpenseCategory) @@
    "clockify_expenses_categories_update" :>
        Billing("updated", "category", UpdateExpenseCategory) @@
    "clockify_expenses_categories_update archiving" :>
        Billing("updated", "category", ArchiveExpenseCategory) @@
    "clockify_expenses_categories_delete" :>
        BillingDelete("category", DeleteExpenseCategory)

BillingWorkflows ==
    "clockify_invoice_client_work" :>
        Billing("created", "newInvoice", InvoiceClientWork) @@
    "clockify_record_expense" :> Billing("created", "newExpense", RecordExpense)

BillingToolsCatalog == InvoiceTools @@ InvoiceRouteTools @@ ExpenseTools @@
                       BillingWorkflows
================================================================================

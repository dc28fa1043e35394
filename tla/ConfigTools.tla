------------------------------ MODULE ConfigTools ------------------------------
(* Custom fields, webhooks, reports, logs and the raw API.                 *)
EXTENDS Steps, TLC

ListCustomFields == <<Look("field")>>
FindCustomFieldByID == <<Need("field")>>
GetCustomField == FindCustomFieldByID
CreateCustomField == <<Post("newField")>>
UpdateCustomField == FindCustomFieldByID \o <<Vet, Put("field", "changed")>>
DeleteCustomField == <<Preview, Delete("field")>>
\* The value is checked against the field, then set on a project or merged
\* into an entry of the current user.
SetCustomFieldOfProject == FindCustomFieldByID \o <<Vet, Put("project", "changed")>>
SetCustomFieldOfEntry == FindCustomFieldByID \o
    <<Vet, Need("entry"), Look("user"), Vet, Put("entry", "changed"), Emit("entry")>>

\* One request for several entries.
EntriesMarkInvoiced == <<Put("entry", "changed")>>

ListWebhooks == <<Look("webhook")>>
GetWebhook == <<Need("webhook")>>
\* The host of the URL is resolved before anything is sent.
CreateWebhook == <<Vet, Preview, Post("newWebhook")>>
UpdateWebhook == GetWebhook \o <<Vet, Preview, Put("webhook", "changed")>>
DeleteWebhook == <<Preview, Delete("webhook")>>
ListWebhookEvents == <<>>
UnsupportedGuidance == <<>>
SetupWebhook == CreateWebhook

ReportsAPIReport == <<Look("report")>>
AuditLogsSearch == <<Look("log")>>
EntityChangesList == <<Look("log")>>

\* A method and a path: reads, and writes when raw writes are enabled.
RawAPIGet == <<Look("resource")>>
RawAPIRequest(write) == <<Vet, Preview, write>>

-----------------------------------------------------------------------------

Special(change, s, steps) == Risky(RW(change, s, steps))
DryRunDelete(s, steps) == WithDryRun(Destructive("deleted", s, steps))

CustomFieldTools ==
    "clockify_custom_fields_list" :> RO(ListCustomFields) @@
    "clockify_custom_fields_get" :> RO(GetCustomField) @@
    "clockify_custom_fields_create" :>
        Special("created", "newField", CreateCustomField) @@
    "clockify_custom_fields_update" :> Special("updated", "field", UpdateCustomField) @@
    "clockify_custom_fields_delete" :> DryRunDelete("field", DeleteCustomField) @@
    "clockify_custom_fields_set_value" :>
        Special("updated", "entry", SetCustomFieldOfEntry) @@
    "clockify_custom_fields_set_value of a project" :>
        Special("updated", "project", SetCustomFieldOfProject) @@
    "clockify_entries_mark_invoiced" :>
        Risky(RWIdem("updated", "entry", EntriesMarkInvoiced))

WebhookTools ==
    "clockify_webhooks_list" :> RO(ListWebhooks) @@
    "clockify_webhooks_get" :> RO(GetWebhook) @@
    "clockify_webhooks_create" :>
        WithDryRun(Special("created", "newWebhook", CreateWebhook)) @@
    "clockify_webhooks_update" :>
        WithDryRun(Special("updated", "webhook", UpdateWebhook)) @@
    "clockify_webhooks_delete" :> DryRunDelete("webhook", DeleteWebhook) @@
    "clockify_webhooks_events" :> RO(ListWebhookEvents) @@
    "clockify_webhooks_test_guidance" :> RO(UnsupportedGuidance) @@
    "clockify_setup_webhook" :>
        WithDryRun(Special("created", "newWebhook", SetupWebhook))

ReportTools ==
    "clockify_reports_attendance" :> RO(ReportsAPIReport) @@
    "clockify_reports_money" :> RO(ReportsAPIReport) @@
    "clockify_reports_expense" :> RO(ReportsAPIReport) @@
    "clockify_reports_export" :> RO(ReportsAPIReport) @@
    "clockify_reports_detailed" :> RO(ReportsAPIReport) @@
    "clockify_reports_summary" :> RO(ReportsAPIReport) @@
    "clockify_reports_weekly" :> RO(ReportsAPIReport) @@
    "clockify_audit_logs_search" :> RO(AuditLogsSearch) @@
    "clockify_entity_changes_list" :> RO(EntityChangesList)

RawAPITools ==
    "clockify_api_get" :> RO(RawAPIGet) @@
    "clockify_api_request posting" :>
        WithDryRun(Special("", "resource", RawAPIRequest(Post("resource")))) @@
    "clockify_api_request putting" :>
        WithDryRun(Special("", "resource", RawAPIRequest(Put("resource", "changed")))) @@
    "clockify_api_request deleting" :>
        WithDryRun(Special("", "resource", RawAPIRequest(Delete("resource"))))

ConfigToolsCatalog == CustomFieldTools @@ WebhookTools @@ ReportTools @@ RawAPITools
================================================================================

-------------------------------- MODULE MCTools --------------------------------
EXTENDS Calls, TimeTools, ProjectTools, BillingTools, PeopleTools, ConfigTools

AllTools == TimeToolsCatalog @@ ProjectToolsCatalog @@ BillingToolsCatalog @@
            PeopleToolsCatalog @@ ConfigToolsCatalog
MCCatalog == AllTools
\* The tools whose dry run is refuted.
MCInviteTools == InviteTools

MCWatched == {"entry", "timer", "started", "project", "user", "group", "demo"}
MCSilent == {"clockify_log_work", "clockify_start_work", "clockify_switch_work",
             "clockify_fix_entry", "clockify_projects_delete", "clockify_demo_seed",
             "clockify_demo_cleanup", "clockify_entries_mark_invoiced",
             "clockify_groups_update", "clockify_groups_delete",
             "clockify_custom_fields_set_value of a project"}
================================================================================

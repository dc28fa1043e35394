------------------------------ MODULE PeopleTools ------------------------------
(* Users, groups, holidays, time off, approvals and scheduling.            *)
EXTENDS Steps, TLC

\* A user or a group by name or ID; a whole list is read when it is a name.
ResolveUserID == <<Need("user")>>

ListUsers == <<Look("user")>>
CurrentUser == <<Look("user")>>
GetWorkspace == <<Look("workspace")>>

\* The owner of the API key may not lock itself out; a lookup that fails lets
\* the change through.  "self" is there when the user is that owner.
SelfModificationGuard == <<Check("self", {"absent"})>>

\* "live" is a user with roles, "changed" one without; one request per grant.
CurrentUserRoleGrants == <<Need("user"), Find("user", {"live"}, 2)>>
StripUserRoles(grants) == <<Preview>> \o SelfModificationGuard \o grants \o
                          <<Put("user", "changed"), Emit("user")>>
UpdateUserRole == <<Preview>> \o SelfModificationGuard \o
                  <<Put("user", "changed"), Emit("user")>>
DeactivateUser == <<Preview>> \o SelfModificationGuard \o
                  <<Put("user", "changed"), Emit("user")>>
\* The dry_run of the call is not among the arguments passed on.
InviteUser == <<Post("invitation")>>
UsersInvite == InviteUser
UsersInviteSeveral == InviteUser \o <<Post("secondInvitation")>>

ListUserGroupsAdmin == <<Look("group")>>
GetUserGroup == <<Need("group")>>
\* Members that cannot be added are listed in the result.
CreateUserGroupAdmin == <<Post("newGroup"), Warn(Post("member"), 0)>>
UpdateUserGroupAdmin == <<Put("group", "changed")>>
DeleteUserGroupAdmin == <<Preview, Delete("group")>>
\* A membership is part of its group.
AddUserToGroup == <<Preview, Put("group", "changed"), Emit("group")>>
RemoveUserFromGroup == <<Preview, Put("group", "changed"), Emit("group")>>

ListHolidays == <<Look("holiday")>>
FindHolidayByID == <<Need("holiday")>>
GetHoliday == FindHolidayByID
ListHolidaysInPeriod == <<Look("holiday")>>
CreateHoliday == <<Post("newHoliday")>>
UpdateHoliday == FindHolidayByID \o <<Put("holiday", "changed")>>
DeleteHoliday == <<Preview, Delete("holiday")>>

-----------------------------------------------------------------------------
(* Time off.                                                               *)

ListTimeOffRequests == ResolveUserID \o <<Look("request")>>
FetchTimeOffRequest == <<Need("request")>>
GetTimeOffRequest == FetchTimeOffRequest
CreateTimeOffRequest == <<Preview, Post("newRequest")>>
UpdateTimeOffRequest == <<Preview, Put("request", "changed")>>
DeleteTimeOffRequest == <<Preview, Delete("request")>>
PatchTimeOffStatus == <<Put("request", "changed")>>
ApproveTimeOff == PatchTimeOffStatus
\* Only a pending request ("live") is denied.
DenyTimeOff == <<NeedIn("request", {"live"})>> \o PatchTimeOffStatus

FetchTimeOffPolicies == <<Look("policy")>>
GetTimeOffPolicy == <<Need("policy")>>
CreateTimeOffPolicy == <<Look("user"), Post("newPolicy")>>
UpdateTimeOffPolicy == GetTimeOffPolicy \o <<Put("policy", "changed")>>
ArchiveTimeOffPolicy == <<Put("policy", "archived")>>
TimeOffBalance == ResolveUserID \o <<Need("balance")>>
\* Two references may name one user: refused.
UpdateTimeOffBalance == ResolveUserID \o <<Vet, Preview, Put("balance", "changed")>>
RequestTimeOff == GetTimeOffPolicy \o CreateTimeOffRequest

-----------------------------------------------------------------------------
(* Approvals and scheduling.                                               *)

ListApprovalRequests == <<Look("approval")>>
FindApprovalRequest == <<Need("approval")>>
GetApprovalRequest == FindApprovalRequest
PostApprovalPeriod == <<Preview, Post("newApproval")>>
SubmitForApproval == PostApprovalPeriod
PatchApprovalState == <<Preview, Put("approval", "changed")>>
\* Nothing to resubmit once approved ("archived"), as far as it can be read.
ResubmitApproval == <<Check("approval", State \ {"archived"}), Put("approval", "changed")>>

ListAssignments == ResolveUserID \o <<Need("project"), Look("assignment")>>
GetAssignment == <<Need("assignment")>>
CreateAssignment == ResolveUserID \o <<Need("project"), Preview, Post("newAssignment")>>
UpdateAssignment == <<Put("assignment", "changed")>>
DeleteAssignment == <<Preview, Delete("assignment")>>
SchedulingPublish == <<Preview, Put("assignment", "changed")>>
GetProjectScheduleTotals == <<Need("project"), Look("assignment")>>
SchedulingUserTotals == ResolveUserID \o <<Look("assignment")>>
SchedulingCapacity == <<Look("assignment")>>
ScheduleWork == ResolveUserID \o <<Need("project"), Need("task")>> \o CreateAssignment

-----------------------------------------------------------------------------

Admin(change, s, steps) == Risky(RW(change, s, steps))
AdminDelete(s, steps) == WithDryRun(Destructive("deleted", s, steps))

UserTools ==
    "clockify_users_list" :> RO(ListUsers) @@
    "clockify_users_profile" :> RO(CurrentUser) @@
    "clockify_workspace_settings" :> RO(GetWorkspace) @@
    "clockify_users_role" :> WithDryRun(Admin("updated", "user", UpdateUserRole)) @@
    "clockify_users_role to regular" :>
        WithDryRun(Admin("updated", "user", StripUserRoles(CurrentUserRoleGrants))) @@
    "clockify_users_role without grants" :>
        WithDryRun(Admin("updated", "user", StripUserRoles(<<>>))) @@
    "clockify_users_deactivate" :> WithDryRun(Admin("updated", "user", DeactivateUser))

InviteTools ==
    "clockify_users_invite" :>
        WithDryRun(HintedDestructive(RW("created", "invitation", UsersInvite))) @@
    "clockify_users_invite of several" :>
        WithDryRun(HintedDestructive(RW("created", "invitation", UsersInviteSeveral)))

GroupTools ==
    "clockify_groups_list" :> RO(ListUserGroupsAdmin) @@
    "clockify_groups_get" :> RO(GetUserGroup) @@
    "clockify_groups_create" :> Admin("created", "newGroup", CreateUserGroupAdmin) @@
    "clockify_groups_update" :> Admin("updated", "group", UpdateUserGroupAdmin) @@
    "clockify_groups_delete" :> AdminDelete("group", DeleteUserGroupAdmin) @@
    "clockify_groups_add_user" :> WithDryRun(Admin("updated", "group", AddUserToGroup)) @@
    "clockify_groups_remove_user" :>
        WithDryRun(Destructive("updated", "group", RemoveUserFromGroup))

HolidayTools ==
    "clockify_holidays_list" :> RO(ListHolidays) @@
    "clockify_holidays_get" :> RO(GetHoliday) @@
    "clockify_holidays_list_for_user_period" :> RO(ListHolidaysInPeriod) @@
    "clockify_holidays_create" :> RW("created", "newHoliday", CreateHoliday) @@
    "clockify_holidays_update" :> RWIdem("updated", "holiday", UpdateHoliday) @@
    "clockify_holidays_delete" :> AdminDelete("holiday", DeleteHoliday)

TimeOffTools ==
    "clockify_time_off_requests_list" :> RO(ListTimeOffRequests) @@
    "clockify_time_off_requests_get" :> RO(GetTimeOffRequest) @@
    "clockify_time_off_requests_create" :>
        WithDryRun(Admin("created", "newRequest", CreateTimeOffRequest)) @@
    "clockify_time_off_requests_update" :>
        WithDryRun(Admin("updated", "request", UpdateTimeOffRequest)) @@
    "clockify_time_off_requests_delete" :> AdminDelete("request", DeleteTimeOffRequest) @@
    "clockify_time_off_approve" :> Admin("updated", "request", ApproveTimeOff) @@
    "clockify_time_off_deny" :> Admin("updated", "request", DenyTimeOff) @@
    "clockify_request_time_off" :>
        WithDryRun(Admin("created", "newRequest", RequestTimeOff))

TimeOffPolicyTools ==
    "clockify_time_off_policies_list" :> RO(FetchTimeOffPolicies) @@
    "clockify_time_off_policies_get" :> RO(GetTimeOffPolicy) @@
    "clockify_time_off_policies_create" :>
        Admin("created", "newPolicy", CreateTimeOffPolicy) @@
    "clockify_time_off_policies_update" :>
        Admin("updated", "policy", UpdateTimeOffPolicy) @@
    "clockify_time_off_archive" :>
        HintedDestructive(RWIdem("updated", "policy", ArchiveTimeOffPolicy)) @@
    "clockify_time_off_balances" :> RO(TimeOffBalance) @@
    "clockify_time_off_balances_update" :>
        WithDryRun(Admin("updated", "balance", UpdateTimeOffBalance))

ApprovalTools ==
    "clockify_approvals_list" :> RO(ListApprovalRequests) @@
    "clockify_approvals_get" :> RO(GetApprovalRequest) @@
    "clockify_approvals_submit" :>
        WithDryRun(Admin("created", "newApproval", SubmitForApproval)) @@
    "clockify_approvals_approve" :>
        WithDryRun(Admin("updated", "approval", PatchApprovalState)) @@
    "clockify_approvals_reject" :>
        WithDryRun(Admin("updated", "approval", PatchApprovalState)) @@
    "clockify_approvals_withdraw" :>
        WithDryRun(Admin("updated", "approval", PatchApprovalState)) @@
    "clockify_approvals_resubmit" :> Admin("updated", "approval", ResubmitApproval)

SchedulingTools ==
    "clockify_scheduling_assignments_list" :> RO(ListAssignments) @@
    "clockify_scheduling_assignments_get" :> RO(GetAssignment) @@
    "clockify_scheduling_assignments_create" :>
        RW("created", "newAssignment", CreateAssignment) @@
    "clockify_scheduling_assignments_update" :>
        RW("updated", "assignment", UpdateAssignment) @@
    "clockify_scheduling_assignments_delete" :>
        AdminDelete("assignment", DeleteAssignment) @@
    "clockify_scheduling_publish" :>
        WithDryRun(HintedDestructive(RWIdem("updated", "assignment", SchedulingPublish))) @@
    "clockify_scheduling_project_totals" :> RO(GetProjectScheduleTotals) @@
    "clockify_scheduling_user_totals" :> RO(SchedulingUserTotals) @@
    "clockify_scheduling_capacity" :> RO(SchedulingCapacity) @@
    "clockify_schedule_work" :>
        WithDryRun(Admin("created", "newAssignment", ScheduleWork))

PeopleToolsCatalog == UserTools @@ InviteTools @@ GroupTools @@ HolidayTools @@ TimeOffTools @@
                      TimeOffPolicyTools @@ ApprovalTools @@ SchedulingTools
================================================================================

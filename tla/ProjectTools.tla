------------------------------ MODULE ProjectTools ------------------------------
(* Clients, projects, tasks and tags; their administration; the work       *)
(* package and the demo fixture made of them.                              *)
EXTENDS Steps, TLC

\* A name or an ID that must stand for one thing.
ResolveClientID == <<Need("client")>>
ResolveProjectID == <<Need("project")>>
ResolveTagID == <<Need("tag")>>
ResolveTaskID == <<Need("task")>>
ResolveTask == ResolveProjectID \o ResolveTaskID

ClientsList == <<Look("client")>>
ProjectsList == <<Look("project")>>
TasksList == ResolveProjectID \o <<Look("task")>>
TagsList == <<Look("tag")>>
ClientsCreate == <<Post("newClient")>>
ProjectsCreate == ResolveClientID \o <<Post("newProject")>>
TasksCreate == ResolveProjectID \o <<Post("newTask")>>
TagsCreate == <<Post("newTag")>>

GetClientWithArgs == ResolveClientID \o <<Need("client")>>
GetProject == ResolveProjectID \o <<Need("project")>>
ListProjectMemberships == ResolveProjectID \o <<Need("project")>>
GetTask == ResolveTask \o <<Need("task")>>
GetTag == ResolveTagID \o <<Need("tag")>>

UpdateClient == GetClientWithArgs \o <<Vet, Preview, Put("client", "changed")>>
ProjectUpdate(state) == GetProject \o ResolveClientID \o
    <<Vet, Preview, Put("project", state), Emit("project")>>
UpdateProject == ProjectUpdate("changed")
ArchiveProject == ProjectUpdate("archived")
UpdateTask == GetTask \o <<Vet, Preview, Put("task", "changed")>>
UpdateTag == GetTag \o <<Vet, Preview, Put("tag", "changed")>>

-----------------------------------------------------------------------------
(* Clockify deletes only what is archived, a task only when it is done     *)
(* ("archived"): a delete is two writes.                                   *)

Unarchived == State \ {"archived"}
ArchiveThenDelete(s) ==
    <<When(Unarchived, Put(s, "archived")), Delete(s)>>

\* Refused while the client has active projects, as far as they can be listed.
DeleteClient == GetClientWithArgs \o
    <<Preview, Check("clientProjects", {"absent"})>> \o ArchiveThenDelete("client")
DeleteProject == GetProject \o <<Preview>> \o ArchiveThenDelete("project")
DeleteTask == GetTask \o <<Preview>> \o ArchiveThenDelete("task")
DeleteTag == GetTag \o <<Preview, Delete("tag")>>

-----------------------------------------------------------------------------
(* Administration: IDs only, no look at the project first.                 *)

ListProjectTemplates == <<Look("template")>>
CreateProjectTemplate == <<Post("newTemplate")>>
ProjectWrite == <<Preview, Put("project", "changed"), Emit("project")>>
UpdateProjectEstimate == ProjectWrite
UpdateProjectMemberships == ProjectWrite
SetProjectMemberships == UpdateProjectMemberships
UpdateProjectUserRate == ProjectWrite
UpdateTaskRate == ResolveTask \o <<Preview, Put("task", "changed")>>

-----------------------------------------------------------------------------
(* The work package, upserting: each part is looked for by name and        *)
(* created if there is none; several of the name are refused.              *)

EnsureClientNamed == <<NeedIn("newClient", State \ {"twice"}),
                       When({"absent"}, Post("newClient"))>>
EnsureProjectNamed == <<NeedIn("newProject", State \ {"twice"}),
                        When({"absent"}, Post("newProject"))>>
EnsureTaskNamed == <<NeedIn("newTask", State \ {"twice"}),
                     When({"absent"}, Post("newTask"))>>
EnsureTagNamed == <<NeedIn("newTag", State \ {"twice"}),
                    When({"absent"}, Post("newTag"))>>
\* The tag names are checked once the rest has been made.
CreateWorkPackage == EnsureClientNamed \o EnsureProjectNamed \o EnsureTaskNamed \o
                     <<Vet>> \o EnsureTagNamed

-----------------------------------------------------------------------------
(* The demo fixture.                                                       *)

EnsureDemoClient == <<Look("client"), When({"absent"}, Post("client"))>>
\* Active and archived projects are listed; an archived one is read, restored
\* and published.
RestoreArchivedProject == <<Need("project"), Put("project", "live"), Emit("project")>>
EnsureDemoProject == <<Look("project"), Find("project", {"archived"}, 3)>> \o
                     RestoreArchivedProject \o <<When({"absent"}, Post("project"))>>
EnsureDemoTask == <<Look("task"), When({"absent"}, Post("task"))>>
EnsureDemoTag == <<Look("tag"), When({"absent"}, Post("tag"))>>
EnsureDemoEntry == <<Look("user"), Find("entry", {"absent"}, 2), Vet, Post("entry")>>
UpdateDemoResource == <<Emit("demo")>>
DemoSeed == EnsureDemoClient \o EnsureDemoProject \o EnsureDemoTask \o
            EnsureDemoTag \o EnsureDemoEntry \o UpdateDemoResource

\* Every failure is collected as a warning, and what depends on it skipped.
\* A GET of what is gone ends as a PUT of it does.
DeleteDemo(s) == <<Warn(Look(s), 2),
                   Warn(When(Unarchived, Put(s, "archived")), 1), Warn(Delete(s), 0)>>
DeleteDemoEntry == <<Warn(Find("entry", Present, 1), 1), Warn(Delete("entry"), 0)>>
DeleteDemoTag == <<Warn(Find("tag", Present, 1), 1), Warn(Delete("tag"), 0)>>
DeleteDemoTask == <<Warn(Find("task", Present, 2), 2),
                    Warn(When(Unarchived, Put("task", "archived")), 1),
                    Warn(Delete("task"), 0)>>
DeleteDemoProject == DeleteDemo("project")
DeleteDemoClient == <<Warn(Find("client", Present, 3), 3)>> \o DeleteDemo("client")

\* The tags, which nothing here depends on, come first: projects that could
\* not be listed lose their tasks' and their own deletion.
DemoCleanup ==
    <<Warn(Look("user"), 2)>> \o DeleteDemoEntry \o DeleteDemoTag \o
    <<Warn(Look("project"), 7), Warn(Find("project", Present, 6), 6)>> \o
    DeleteDemoTask \o DeleteDemoProject \o DeleteDemoClient \o UpdateDemoResource

-----------------------------------------------------------------------------

FirstSliceTools ==
    "clockify_clients_list" :> RO(ClientsList) @@
    "clockify_clients_create" :> RW("created", "newClient", ClientsCreate) @@
    "clockify_projects_list" :> RO(ProjectsList) @@
    "clockify_projects_create" :> RW("created", "newProject", ProjectsCreate) @@
    "clockify_tasks_list" :> RO(TasksList) @@
    "clockify_tasks_create" :> RW("created", "newTask", TasksCreate) @@
    "clockify_tags_list" :> RO(TagsList) @@
    "clockify_tags_create" :> RW("created", "newTag", TagsCreate)

CoreObjectTools ==
    "clockify_clients_get" :> RO(GetClientWithArgs) @@
    "clockify_clients_update" :> RWIdem("updated", "client", UpdateClient) @@
    "clockify_clients_delete" :>
        WithDryRun(Destructive("deleted", "client", DeleteClient)) @@
    "clockify_projects_get" :> RO(GetProject) @@
    "clockify_projects_update" :> RWIdem("updated", "project", UpdateProject) @@
    "clockify_projects_delete" :>
        WithDryRun(Destructive("deleted", "project", DeleteProject)) @@
    "clockify_projects_archive" :> HintedDestructive(RWIdem("updated", "project", ArchiveProject)) @@
    "clockify_projects_rates_update" :>
        Risky(WithDryRun(RWIdem("updated", "project", UpdateProjectUserRate))) @@
    "clockify_tasks_get" :> RO(GetTask) @@
    "clockify_tasks_update" :> RWIdem("updated", "task", UpdateTask) @@
    "clockify_tasks_delete" :> WithDryRun(Destructive("deleted", "task", DeleteTask)) @@
    "clockify_tasks_rates_update" :>
        Risky(WithDryRun(RWIdem("updated", "task", UpdateTaskRate))) @@
    "clockify_tags_get" :> RO(GetTag) @@
    "clockify_tags_update" :> RWIdem("updated", "tag", UpdateTag) @@
    "clockify_tags_delete" :> WithDryRun(Destructive("deleted", "tag", DeleteTag))

ProjectAdminTools ==
    "clockify_projects_templates_list" :> RO(ListProjectTemplates) @@
    "clockify_projects_templates_create" :>
        RW("created", "newTemplate", CreateProjectTemplate) @@
    "clockify_projects_estimates_update" :> RW("updated", "project", UpdateProjectEstimate) @@
    "clockify_projects_memberships_list" :> RO(ListProjectMemberships) @@
    "clockify_projects_memberships_update" :>
        Risky(WithDryRun(RWIdem("updated", "project", UpdateProjectMemberships)))

FixtureTools ==
    "clockify_create_work_package" :> RWIdem("", "newProject", CreateWorkPackage) @@
    "clockify_demo_seed" :> RWIdem("", "demo", DemoSeed) @@
    "clockify_demo_cleanup" :> RWIdem("", "demo", DemoCleanup)

ProjectToolsCatalog == FirstSliceTools @@ CoreObjectTools @@ ProjectAdminTools @@
                       FixtureTools
================================================================================

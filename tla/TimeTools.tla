------------------------------- MODULE TimeTools -------------------------------
(* Time entries, timers and the work workflows over them.                  *)
EXTENDS Steps, TLC

\* Names and IDs an entry refers to.
ResolveProject == <<Need("project")>>
TagIDsFromArgs == <<Need("tag")>>
BuildEntryPayload == ResolveProject \o <<Need("task")>> \o TagIDsFromArgs

\* The workspace may require a project: a settings read that never blocks.
CreateEntry == BuildEntryPayload \o <<Vet, Post("entry")>>

EntriesCreate == BuildEntryPayload \o <<Preview, Vet, Post("entry"), Emit("entry")>>

\* The entry must be the current user's.
RequireCurrentUserEntry == <<Look("user"), Vet>>
GetEntry == <<Need("entry")>>
CurrentUserEntriesPath == <<Look("user")>>
ListEntriesWithQuery == CurrentUserEntriesPath \o <<Look("entries")>>
ListCurrentUserEntries == <<Look("user")>> \o ResolveProject \o <<Look("entries")>>

UpdateEntry == GetEntry \o RequireCurrentUserEntry \o ResolveProject \o
               <<Vet, Put("entry", "changed"), Emit("entry")>>

DeleteEntry == GetEntry \o RequireCurrentUserEntry \o
               <<Preview, Delete("entry"), Emit("entry")>>

-----------------------------------------------------------------------------
(* Timers: the slot "timer" is the entry running now, "changed" once it    *)
(* has ended; "started" is the entry a start creates.                      *)

ListRunning(states, n) == CurrentUserEntriesPath \o <<Find("timer", states, n)>>

\* Nothing running is a result of its own, not an error.  An answer that
\* holds no entry counts as lost: the error says no timer was running.
StopTimer == <<Look("user")>> \o ListRunning({"live"}, 2) \o
             <<Put("timer", "changed"), Emit("timer")>>

\* A timer is refused while one runs, as far as the list can be read.
StartTimer == ResolveProject \o
              <<Check("timer", State \ {"live"}), Vet, Post("started"), Emit("started")>>

EntriesTimerStart == ResolveProject \o
              <<Check("timer", {"absent"}), Vet, Post("timer"), Emit("timer")>>

\* A stop that answers 400 or 404, to whichever of its requests, counts as no
\* timer running.
StopForSwitch == [i \in DOMAIN StopTimer |->
    IF StopTimer[i].op = "emit" THEN StopTimer[i]
    ELSE Mistake(StopTimer[i], Len(StopTimer) - i)]
EntriesTimerSwitch == StopForSwitch \o StartTimer
TimerStatus == ListEntriesWithQuery
EntriesRunning == ListEntriesWithQuery

-----------------------------------------------------------------------------
(* Workflows.                                                              *)

AggregateEntriesRange == <<Look("user"), Look("entries")>>
\* findEntryOverlaps: refused when the range holds an entry already.
RejectLogWorkOverlap == <<Look("user"), NeedIn("entry", {"absent"})>>
LogWork == RejectLogWorkOverlap \o CreateEntry

PrepareStartWorkArgs == BuildEntryPayload
StartWorkEntry == <<Vet, Post("started")>>
StartWork == PrepareStartWorkArgs \o StartWorkEntry
StopWork == StopTimer

\* Everything is resolved first; a start that fails is part of the result.
SwitchWork == PrepareStartWorkArgs \o StopForSwitch \o
              <<Report(Post("started"))>>

\* One entry must match, by ID or by search; without a change, no request.
FindSingleEntry == <<Look("user"), Need("entry"), Vet>>
FindAndUpdateEntry == FindSingleEntry \o ResolveProject \o
                      <<When({"live"}, Put("entry", "changed"))>>

TimesheetReview == AggregateEntriesRange
Status == <<Look("user"), Look("workspace"), Warn(Look("entries"), 0)>>
ToolsGuide == <<>>

-----------------------------------------------------------------------------

CoreEntryTools ==
    "clockify_entries_get" :> RO(GetEntry) @@
    "clockify_entries_update" :> RWIdem("updated", "entry", UpdateEntry) @@
    "clockify_entries_delete" :>
        WithDryRun(Destructive("deleted", "entry", DeleteEntry))

FirstSliceEntryTools ==
    "clockify_entries_list" :> RO(ListCurrentUserEntries) @@
    "clockify_entries_create" :> WithDryRun(RW("created", "entry", EntriesCreate))

TimerTools ==
    "clockify_entries_running" :> RO(EntriesRunning) @@
    "clockify_entries_timer_start" :> RW("created", "timer", EntriesTimerStart) @@
    "clockify_entries_timer_stop" :> RWIdem("", "timer", StopTimer) @@
    "clockify_entries_timer_status" :> RO(TimerStatus) @@
    "clockify_entries_timer_switch" :> RW("updated", "started", EntriesTimerSwitch)

WorkTools ==
    "clockify_status" :> RO(Status) @@
    "clockify_tools_guide" :> RO(ToolsGuide) @@
    "clockify_log_work" :> RW("created", "entry", LogWork) @@
    "clockify_start_work" :> RW("created", "started", StartWork) @@
    "clockify_stop_work" :> RWIdem("", "timer", StopWork) @@
    "clockify_switch_work" :> RW("created", "started", SwitchWork) @@
    "clockify_review_day" :> RO(TimesheetReview) @@
    "clockify_review_week" :> RO(TimesheetReview) @@
    "clockify_fix_entry" :> RWIdem("updated", "entry", FindAndUpdateEntry)

TimeToolsCatalog == CoreEntryTools @@ FirstSliceEntryTools @@ TimerTools @@ WorkTools
================================================================================

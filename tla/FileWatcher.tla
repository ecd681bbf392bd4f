---------------------------- MODULE FileWatcher ----------------------------
(***************************************************************************)
(* spawn_file_watcher and the dataset plugins that reload through it:      *)
(* domain_set, ip_set and hosts.  A rule file is written in place, or      *)
(* replaced by a rename as the downloader does, or deleted; the kernel     *)
(* reports the changes of the file it was asked to watch, and forgets the  *)
(* watch when that file goes.                                              *)
(*                                                                         *)
(* The contents of a file are a member of Bodies or Absent; the rules a    *)
(* dataset serves are the contents it read, and whether the rules given    *)
(* inline in the configuration are among them.                             *)
(***************************************************************************)
EXTENDS Naturals, Sequences

CONSTANTS Files,         \* the rule files of the dataset
          Bodies,        \* what can be in a file
          Malformed,     \* the bodies with a line in which hosts finds no address
          Kinds,         \* the datasets considered
          MaxChanges     \* bound on the changes of files

VARIABLES
  kind,          \* which dataset plugin reads the files
  file,          \* what each path holds
  watcher,       \* the watcher's task: "off", "running" or "stopped"
  watched,       \* the paths whose present file the kernel reports on
  events,        \* the watcher's channel
  handling,      \* the path of a Remove event in its pause of 50 ms, or None
  pending,       \* pending_map: "none", "fresh" (an event came) or "quiet"
  scheduled,     \* the paths with a debounce task
  reading,       \* the callback that holds pending_map, with what it read
  loaded,        \* the rules being served
  shutdown,      \* the dataset's shutdown: "no", "stopping" or "done"
  changes,       \* number of changes so far
  unseen         \* a file changed with nobody watching it, and none was read since

watchVars == <<watcher, watched, events, handling>>
debounceVars == <<pending, scheduled, reading, loaded>>
vars == <<kind, file, watchVars, debounceVars, shutdown, changes, unseen>>

Absent == "absent"
None == "none"
Idle == [path |-> None, files |-> <<>>]   \* no callback is running

-----------------------------------------------------------------------------
(* What a dataset makes of its files.                                      *)

Readable(fs) == {f \in Files : fs[f] # Absent}
Rules(fs, inline) == [files |-> [f \in Readable(fs) |-> fs[f]], inline |-> inline]
Empty == Rules([f \in Files |-> Absent], FALSE)

\* load_domains and load_networks: every file that can be read, then the inline
\* rules.
LoadSets(fs) == Rules(fs, TRUE)

\* The reload callbacks of domain_set and ip_set: every file that can be read.
ReloadDomains(fs) == Rules(fs, FALSE)
ReloadNetworks(fs) == Rules(fs, FALSE)

\* A hosts file with a malformed line is refused, and the others with it; the old
\* table stays.  So it does when no file can be read.
HostsAccept(fs) == /\ Readable(fs) # {}
                   /\ \A f \in Readable(fs) : fs[f] \notin Malformed
LoadHosts(fs, old) == IF HostsAccept(fs) THEN Rules(fs, FALSE) ELSE old

FirstLoad(fs) == IF kind = "hosts" THEN LoadHosts(fs, Empty) ELSE LoadSets(fs)
Reload(fs, old) ==
  CASE kind = "hosts" -> LoadHosts(fs, old)
    [] kind = "ip_set" -> ReloadNetworks(fs)
    [] kind = "domain_set" -> ReloadDomains(fs)

\* Plugin::init of a dataset with auto_reload: load, then spawn the watcher's task.
Init ==
  /\ kind \in Kinds
  /\ file \in [Files -> (Bodies \ Malformed) \union {Absent}]
  /\ watcher = "off" /\ watched = {} /\ events = <<>> /\ handling = None
  /\ pending = [f \in Files |-> "none"] /\ scheduled = {} /\ reading = Idle
  /\ loaded = FirstLoad(file)
  /\ shutdown = "no" /\ changes = 0 /\ unseen = FALSE

-----------------------------------------------------------------------------
(* Changes of the files, and what the kernel reports of them.              *)

Reported(f) == watcher = "running" /\ f \in watched

\* The removal of the file before is still to be handled.
RemovalToCome(f) ==
  \/ f = handling
  \/ watcher = "running" /\ \E i \in 1..Len(events) : events[i] = [kind |-> "Remove", path |-> f]

Change(f, b) ==
  /\ changes < MaxChanges /\ changes' = changes + 1
  /\ file' = [file EXCEPT ![f] = b]

\* The file is written in place.
Edit(f) ==
  /\ file[f] # Absent /\ \E b \in Bodies : Change(f, b)
  /\ events' = IF Reported(f) THEN Append(events, [kind |-> "Modify", path |-> f]) ELSE events
  /\ unseen' = (unseen \/ ~(Reported(f) \/ RemovalToCome(f)))
  /\ UNCHANGED <<kind, watcher, watched, handling, debounceVars, shutdown>>

\* The file goes: the kernel reports its last change and its removal.
Gone(f) ==
  /\ events' = IF Reported(f) THEN events \o <<[kind |-> "Modify", path |-> f], [kind |-> "Remove", path |-> f]>>
               ELSE events
  /\ watched' = watched \ {f}
  /\ UNCHANGED <<kind, watcher, handling, debounceVars, shutdown>>

\* Another file is renamed to its place.
Replace(f) ==
  /\ file[f] # Absent /\ (\E b \in Bodies : Change(f, b)) /\ Gone(f)
  /\ unseen' = (unseen \/ ~(Reported(f) \/ RemovalToCome(f)))

Delete(f) == file[f] # Absent /\ Change(f, Absent) /\ Gone(f) /\ unseen' = TRUE

\* Nobody is told of a new file.
Create(f) ==
  /\ file[f] = Absent /\ (\E b \in Bodies : Change(f, b))
  /\ unseen' = TRUE
  /\ UNCHANGED <<kind, watchVars, debounceVars, shutdown>>

-----------------------------------------------------------------------------
(* The watcher's task.                                                     *)

\* The task starts: the files that exist are watched.
WatcherStarts ==
  /\ watcher = "off" /\ watcher' = "running"
  /\ watched' = Readable(file)
  /\ UNCHANGED <<kind, file, events, handling, debounceVars, shutdown, changes, unseen>>

\* An event whose path can no longer be resolved is ignored.
Ignore ==
  /\ watcher = "running" /\ handling = None /\ events # <<>>
  /\ file[Head(events).path] = Absent
  /\ events' = Tail(events)
  /\ UNCHANGED <<kind, file, watcher, watched, handling, debounceVars, shutdown, changes, unseen>>

\* Mutant: the event is handled while a callback is under way.
HandleEventUnlocked ==
  LET e == Head(events) IN
  /\ watcher = "running" /\ handling = None /\ events # <<>>
  /\ file[e.path] # Absent
  /\ events' = Tail(events)
  /\ pending' = [pending EXCEPT ![e.path] = "fresh"]
  /\ IF e.kind = "Remove" THEN handling' = e.path /\ UNCHANGED scheduled
     ELSE scheduled' = scheduled \union {e.path} /\ UNCHANGED handling
  /\ UNCHANGED <<kind, file, watcher, watched, reading, loaded, shutdown, changes, unseen>>

\* The time of the event is noted, and a debounce task is spawned unless the path
\* has one; for a removal the spawning follows the pause.  A callback under way
\* holds pending_map.
HandleEvent ==
  LET e == Head(events) IN
  /\ watcher = "running" /\ handling = None /\ reading.path = None /\ events # <<>>
  /\ file[e.path] # Absent
  /\ events' = Tail(events)
  /\ pending' = [pending EXCEPT ![e.path] = "fresh"]
  /\ IF e.kind = "Remove" THEN handling' = e.path /\ UNCHANGED scheduled
     ELSE scheduled' = scheduled \union {e.path} /\ UNCHANGED handling
  /\ UNCHANGED <<kind, file, watcher, watched, reading, loaded, shutdown, changes, unseen>>

\* After the pause the path is watched again, if there is a file.
Rewatch ==
  /\ handling # None
  /\ watched' = watched \union {f \in {handling} : file[f] # Absent}
  /\ scheduled' = scheduled \union {handling}
  /\ handling' = None
  /\ UNCHANGED <<kind, file, watcher, events, pending, reading, loaded, shutdown, changes, unseen>>

-----------------------------------------------------------------------------
(* The debounce tasks.                                                     *)

\* The debounce time passes without an event.  It is longer than the pause.
Quiesce(f) ==
  /\ pending[f] = "fresh" /\ handling # f
  /\ pending' = [pending EXCEPT ![f] = "quiet"]
  /\ UNCHANGED <<kind, file, watchVars, scheduled, reading, loaded, shutdown, changes, unseen>>

\* The task finds its path quiet and calls the callback, which reads the files
\* with pending_map locked.
CallbackReads(f) ==
  /\ f \in scheduled /\ pending[f] = "quiet" /\ reading.path = None
  /\ reading' = [path |-> f, files |-> file]
  /\ unseen' = FALSE
  /\ UNCHANGED <<kind, file, watchVars, pending, scheduled, loaded, shutdown, changes>>

\* The rules are replaced, the entry is removed and the lock released.
CallbackEnds ==
  /\ reading.path # None
  /\ loaded' = Reload(reading.files, loaded)
  /\ pending' = [pending EXCEPT ![reading.path] = "none"]
  /\ scheduled' = scheduled \ {reading.path}
  /\ reading' = Idle
  /\ UNCHANGED <<kind, file, watchVars, shutdown, changes, unseen>>

-----------------------------------------------------------------------------
(* Shutdown.                                                               *)

\* FileWatcherHandle::stop sends the signal and waits for the watcher's task.
Stop ==
  /\ shutdown = "no" /\ watcher = "running" /\ shutdown' = "stopping"
  /\ UNCHANGED <<kind, file, watchVars, debounceVars, changes, unseen>>

\* The select is biased: the loop ends when the channel is empty.  Debounce tasks
\* go on.  domain_set then clears its rules.
ShutdownDataset ==
  /\ shutdown = "stopping" /\ handling = None /\ events = <<>>
  /\ watcher' = "stopped" /\ watched' = {} /\ shutdown' = "done"
  /\ loaded' = IF kind = "domain_set" THEN Empty ELSE loaded
  /\ UNCHANGED <<kind, file, events, handling, pending, scheduled, reading, changes, unseen>>

WatcherStep == WatcherStarts \/ Ignore \/ HandleEvent \/ Rewatch
DebounceStep == CallbackEnds \/ \E f \in Files : Quiesce(f) \/ CallbackReads(f)

Next ==
  \/ \E f \in Files : Edit(f) \/ Replace(f) \/ Delete(f) \/ Create(f)
  \/ WatcherStep \/ DebounceStep \/ Stop \/ ShutdownDataset

\* The watcher's task and the debounce tasks run on the runtime, which polls every
\* task that is ready.
Fairness == WF_vars(WatcherStep) /\ WF_vars(DebounceStep)

Spec == Init /\ [][Next]_vars /\ Fairness

-----------------------------------------------------------------------------
(* Properties.                                                             *)

\* The rules served are those of the files, or a malformed file keeps the old.
UpToDate == \/ loaded.files = Rules(file, FALSE).files
            \/ kind = "hosts" /\ ~HostsAccept(file)

\* ReloadSettles: once the files stop changing the dataset ends up with their
\* contents: no change is lost between the events, the debounce tasks, the
\* callback and the watching of a replaced file.  Changes of a file that was not
\* being watched are excepted.
ReloadSettles == <>[](UpToDate \/ unseen \/ watcher = "stopped")
=============================================================================

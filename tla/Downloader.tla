----------------------------- MODULE Downloader -----------------------------
(***************************************************************************)
(* The cron plugin and the downloader plugin it invokes: a job's task      *)
(* sleeps, spawns the downloader without waiting for it, and sleeps again; *)
(* a download fetches a body, writes it to <path>.tmp and renames that     *)
(* file to <path>, with retries.                                           *)
(*                                                                         *)
(* A file is Absent or a body with a flag that says whether it is all      *)
(* there.  The temporary file is shared by all downloads to a path, as in  *)
(* the code; fd says where the file that a download has open is now.       *)
(***************************************************************************)
EXTENDS Naturals, Sequences

CONSTANTS Files,         \* the paths
          Bodies,        \* what a server can answer
          Runs,          \* the executions of the downloader that cron may start
          Entries,       \* per run: the "files" argument, a sequence of [url, path]
                         \* that names a path once
          max_retries    \* of the downloader

VARIABLES
  plan,          \* the files of each run
  concurrent,    \* the downloader's mode
  cron,          \* the job's task: "sleeping" or "stopped"
  run,           \* per run: "idle", "downloading", "ok" or "failed"
  fetch,         \* per run and file: the progress of download_single_with_retries
  tmp, final,    \* the temporary and the final file of each path
  overlapped     \* the paths two downloads were ever writing at once

vars == <<plan, concurrent, cron, run, fetch, tmp, final, overlapped>>

NoBody == "no body"
Content == [body : Bodies \union {NoBody}, whole : BOOLEAN]
Whole(b) == [body |-> b, whole |-> TRUE]
Truncated == [body |-> NoBody, whole |-> FALSE]
Absent == [body |-> "absent", whole |-> TRUE]

\* FileDownloadSpec: a download that has not begun.
Fetch0 == [pc |-> "todo", attempt |-> 0, body |-> NoBody, fd |-> "none"]

\* DownloaderPlugin::init: entries without a URL or a path are skipped, a list
\* without another is refused: cron then has nothing to run.
Missing == "missing"
FilesOf(entries) ==
  LET usable == SelectSeq(entries, LAMBDA e : e.url # Missing /\ e.path # Missing)
  IN  [i \in 1..Len(usable) |-> usable[i].path]

Init ==
  /\ plan = [r \in Runs |-> FilesOf(Entries[r])]
  /\ concurrent \in BOOLEAN
  /\ cron = "sleeping"
  /\ run = [r \in Runs |-> "idle"]
  /\ fetch = [r \in Runs |-> [f \in Files |-> Fetch0]]
  /\ tmp = [f \in Files |-> Absent]
  /\ final = [f \in Files |-> Absent]
  /\ overlapped = {}

-----------------------------------------------------------------------------
(* CronPlugin.                                                             *)

\* The delay of the job is over and its action is spawned: the next time may come
\* while it is still running.  An HTTP request, a command, an unknown plugin type
\* or a failing factory change nothing here.
Trigger(r) ==
  /\ cron = "sleeping" /\ run[r] = "idle" /\ plan[r] # <<>>
  /\ run' = [run EXCEPT ![r] = "downloading"]
  /\ UNCHANGED <<plan, concurrent, cron, fetch, tmp, final, overlapped>>

\* A schedule without a next time ends the job.
NoNextTime ==
  /\ cron = "sleeping" /\ cron' = "stopped"
  /\ UNCHANGED <<plan, concurrent, run, fetch, tmp, final, overlapped>>

\* shutdown() stops the loops and waits for them, not for what they have spawned.
CronShutdown ==
  /\ cron \in {"sleeping", "stopped"} /\ cron' = "shut down"
  /\ UNCHANGED <<plan, concurrent, run, fetch, tmp, final, overlapped>>

-----------------------------------------------------------------------------
(* DownloaderPlugin.                                                       *)

\* The downloads of a run, and those before the i-th, are done.
AllDone(r) == \A i \in 1..Len(plan[r]) : fetch[r][plan[r][i]].pc = "ok"
DoneBefore(r, i) == \A j \in 1..(i - 1) : fetch[r][plan[r][j]].pc = "ok"

\* Those of a concurrent run are tasks of their own, the others follow one another.
Moves(r, f) ==
  \E i \in 1..Len(plan[r]) :
    /\ plan[r][i] = f
    /\ \/ concurrent /\ run[r] # "idle"
       \/ ~concurrent /\ run[r] = "downloading" /\ DoneBefore(r, i)

Step(r, f, new) == fetch' = [fetch EXCEPT ![r][f] = new]

\* An attempt that failed is followed by another, after the back-off, or by the
\* error.
Failed(x) == IF x.attempt = max_retries THEN [x EXCEPT !.pc = "err", !.fd = "none"]
             ELSE [x EXCEPT !.pc = "todo", !.attempt = @ + 1, !.fd = "none"]

\* The request fails, its status is an error, the body cannot be read or is empty.
RequestFails(r, f) ==
  /\ Moves(r, f) /\ fetch[r][f].pc = "todo"
  /\ Step(r, f, Failed(fetch[r][f]))
  /\ UNCHANGED <<plan, concurrent, cron, run, tmp, final, overlapped>>

\* A body has arrived; fs::write opens the temporary file and truncates it.
OpenTmp(r, f) ==
  /\ Moves(r, f) /\ fetch[r][f].pc = "todo"
  /\ \E b \in Bodies :
       Step(r, f, [fetch[r][f] EXCEPT !.pc = "writing", !.body = b, !.fd = "tmp"])
  /\ tmp' = [tmp EXCEPT ![f] = Truncated]
  /\ overlapped' = overlapped \union
       {g \in {f} : \E q \in Runs \ {r} : fetch[q][g].pc \in {"writing", "renaming"}}
  /\ UNCHANGED <<plan, concurrent, cron, run, final>>

\* What a file holds once the body is written from its start: the body, or, when
\* another download has written to the same file, possibly a mixture.
Written(old, b) ==
  {[body |-> b, whole |-> w] : w \in IF old.body = NoBody THEN {TRUE} ELSE BOOLEAN}

\* The rest of fs::write.  The open file may have been renamed, or be gone.
WriteTmp(r, f) ==
  LET x == fetch[r][f] IN
  /\ Moves(r, f) /\ x.pc = "writing"
  /\ Step(r, f, [x EXCEPT !.pc = "renaming"])
  /\ \/ /\ x.fd = "tmp" /\ \E c \in Written(tmp[f], x.body) : tmp' = [tmp EXCEPT ![f] = c]
        /\ UNCHANGED final
     \/ /\ x.fd = "final" /\ \E c \in Written(final[f], x.body) : final' = [final EXCEPT ![f] = c]
        /\ UNCHANGED tmp
     \/ x.fd = "gone" /\ UNCHANGED <<tmp, final>>
  /\ UNCHANGED <<plan, concurrent, cron, run, overlapped>>

\* Mutant: the error of fs::write is dropped.
WriteFailsIgnored(r, f) ==
  /\ Moves(r, f) /\ fetch[r][f].pc = "writing"
  /\ Step(r, f, [fetch[r][f] EXCEPT !.pc = "renaming"])
  /\ UNCHANGED <<plan, concurrent, cron, run, tmp, final, overlapped>>

\* fs::write fails half-way.
WriteFails(r, f) ==
  /\ Moves(r, f) /\ fetch[r][f].pc = "writing"
  /\ Step(r, f, Failed(fetch[r][f]))
  /\ UNCHANGED <<plan, concurrent, cron, run, tmp, final, overlapped>>

\* A file takes the place of another: open files follow theirs.
FdAfter(x) == CASE x.fd = "tmp" -> "final" [] x.fd = "final" -> "gone" [] OTHER -> x.fd

RenameTmp(r, f) ==
  /\ Moves(r, f) /\ fetch[r][f].pc = "renaming" /\ tmp[f] # Absent
  /\ final' = [final EXCEPT ![f] = tmp[f]] /\ tmp' = [tmp EXCEPT ![f] = Absent]
  /\ fetch' = [q \in Runs |-> [fetch[q] EXCEPT ![f] =
                 IF q = r THEN [@ EXCEPT !.pc = "ok", !.fd = "none"]
                 ELSE [@ EXCEPT !.fd = FdAfter(fetch[q][f])]]]
  /\ UNCHANGED <<plan, concurrent, cron, run, overlapped>>

\* Any error: another download has renamed the file, or the system refuses.
RenameFails(r, f) ==
  /\ Moves(r, f) /\ fetch[r][f].pc = "renaming"
  /\ Step(r, f, [fetch[r][f] EXCEPT !.pc = "cleanup"])
  /\ UNCHANGED <<plan, concurrent, cron, run, tmp, final, overlapped>>

\* The clean-up removes the temporary file, whoever has created it since.  Its own
\* failure is not looked at.
FdRemoved(x) == IF x.fd = "tmp" THEN "gone" ELSE x.fd

RemoveTmp(r, f) ==
  /\ Moves(r, f) /\ fetch[r][f].pc = "cleanup"
  /\ \/ /\ tmp' = [tmp EXCEPT ![f] = Absent]
        /\ fetch' = [q \in Runs |-> [fetch[q] EXCEPT ![f] =
                       IF q = r THEN Failed(fetch[r][f])
                       ELSE [@ EXCEPT !.fd = FdRemoved(fetch[q][f])]]]
     \/ Step(r, f, Failed(fetch[r][f])) /\ UNCHANGED tmp
  /\ UNCHANGED <<plan, concurrent, cron, run, final, overlapped>>

\* The run ends with the first error in the order of its files, or when all are
\* done; the other tasks of a concurrent run go on by themselves.
RunEnds(r) ==
  /\ run[r] = "downloading"
  /\ \/ AllDone(r) /\ run' = [run EXCEPT ![r] = "ok"]
     \/ /\ \E i \in 1..Len(plan[r]) : fetch[r][plan[r][i]].pc = "err" /\ DoneBefore(r, i)
        /\ run' = [run EXCEPT ![r] = "failed"]
  /\ UNCHANGED <<plan, concurrent, cron, fetch, tmp, final, overlapped>>

Download(r, f) ==
  RequestFails(r, f) \/ OpenTmp(r, f) \/ WriteTmp(r, f) \/ WriteFails(r, f) \/ RenameTmp(r, f)
  \/ RenameFails(r, f) \/ RemoveTmp(r, f)

Next ==
  \/ NoNextTime \/ CronShutdown
  \/ \E r \in Runs : Trigger(r) \/ RunEnds(r) \/ \E f \in Files : Download(r, f)

Spec == Init /\ [][Next]_vars

-----------------------------------------------------------------------------
(* Properties.                                                             *)

\* DownloadsAllOrNothing: a rule file is incomplete only if two downloads were
\* writing the same path at once (failures and retries alone never do it), and a
\* run that reports success leaves each of its files in place.
DownloadsAllOrNothing ==
  /\ \A f \in Files : ~final[f].whole => f \in overlapped
  /\ \A r \in Runs, f \in Files :
       run[r] = "ok" /\ (\E i \in 1..Len(plan[r]) : plan[r][i] = f) => final[f] # Absent
=============================================================================

------------------------------ MODULE CacheDump ------------------------------
(***************************************************************************)
(* Persisting the cache (src/src/plugins/cache/persistence.rs and          *)
(* dump_to_file, run_background_task, shutdown in mod.rs).                 *)
(*                                                                         *)
(* The background task and the plugin's shutdown both call dump_to_file;   *)
(* they run on different threads while other threads store responses.  A   *)
(* dump collects the shards one lock at a time, writes the records to one  *)
(* temporary file and renames it.  The file system is modelled by its      *)
(* inodes: two names, and file handles that keep an offset of their own    *)
(* and stay attached to an inode that is renamed or truncated.             *)
(*                                                                         *)
(* A response is identified by the number of its write; lifetimes are in   *)
(* CachePlugin.  Every record has the same length.                         *)
(***************************************************************************)
EXTENDS Naturals, Sequences, FiniteSets

CONSTANTS
    Shards,       \* number of shards, each holding one key here
    Dumpers,      \* who calls dump_to_file: some of "background", "shutdown"
    MaxWrites,    \* bound on stores
    MaxDumps,     \* bound on dumps
    MaxCrashes    \* bound on crashes

VARIABLES
    up,          \* the process runs
    mem,         \* shard -> number of the write its entry is from, 0 if none
    counting,    \* a store pushed its entry and has yet to count it
    changes,     \* changes_since_dump
    pc,          \* where each dumper is in dump_to_file
    dump,        \* the number of its dump
    next,        \* next shard to collect, then offset of its file handle
    handle,      \* inode of its open file
    tmp, path,   \* the inodes the two names are linked to, 0 if none
    content,     \* inode -> its records
    snaps,       \* the entries each dump collected
    writes,      \* number of stores so far
    raced,       \* history: writes made while a dump was under way
    crashes

fileVars == <<tmp, path, content>>
dumpVars == <<pc, dump, next, handle, snaps>>
cacheVars == <<mem, counting, changes, writes, raced>>
vars == <<up, crashes, cacheVars, dumpVars, fileVars>>

-----------------------------------------------------------------------------

Names == 1 .. Shards
Inodes == 1 .. (Cardinality(Dumpers) + 2)

\* The magic and the record count; `dump` is the history's name for the
\* dump and not in the file.
Header(d) == [count |-> Len(snaps[d]), dump |-> d]
Record(k, w) == [key |-> k, write |-> w]
Hole == [key |-> 0, write |-> 0]

\* The records of a complete dump.
Encoded(d) == <<Header(d)>> \o snaps[d]

\* write_all at a handle's offset: a gap before it reads as zeros.
WriteAt(c, offset, cell) ==
    [i \in 1 .. (IF Len(c) > offset THEN Len(c) ELSE offset + 1) |->
        IF i = offset + 1 THEN cell
        ELSE IF i <= Len(c) THEN c[i] ELSE Hole]

\* load_cache and restore_from_dump: a missing or empty file, or one without
\* the magic, restores nothing; otherwise at most `count` records are read, up
\* to the end of the file, a hole counts as expired (its TTL is 0) and the last
\* record of a key wins.
Loaded(c) ==
    IF c = <<>> \/ c[1] = Hole THEN [k \in Names |-> 0]
    ELSE LET end == IF Len(c) <= c[1].count THEN Len(c) ELSE c[1].count + 1
             of(k) == { i \in 2 .. end : c[i].key = k }
         IN  [k \in Names |->
                IF of(k) = {} THEN 0
                ELSE c[CHOOSE i \in of(k) : \A j \in of(k) : j <= i].write]

OnDisk == IF path = 0 THEN [k \in Names |-> 0] ELSE Loaded(content[path])

Init ==
    /\ up = TRUE
    /\ mem = [k \in Names |-> 0]
    /\ counting = FALSE
    /\ changes = 0
    /\ pc = [d \in Dumpers |-> "idle"]
    /\ dump = [d \in Dumpers |-> 0]
    /\ next = [d \in Dumpers |-> 0]
    /\ handle = [d \in Dumpers |-> 0]
    /\ tmp = 0 /\ path = 0
    /\ content = [i \in Inodes |-> <<>>]
    /\ snaps = <<>>
    /\ writes = 0
    /\ raced = {}
    /\ crashes = 0

-----------------------------------------------------------------------------
(* Other threads *)

\* store: the entry is pushed; changes_since_dump is counted after that.
Store(k) ==
    /\ up /\ ~counting /\ writes < MaxWrites
    /\ writes' = writes + 1
    /\ mem' = [mem EXCEPT ![k] = writes']
    /\ counting' = TRUE
    /\ raced' = IF \E d \in Dumpers : pc[d] \notin {"idle", "done"}
                THEN raced \cup {writes'} ELSE raced
    /\ UNCHANGED <<up, crashes, changes, dumpVars, fileVars>>

CountStore ==
    /\ up /\ counting
    /\ changes' = changes + 1
    /\ counting' = FALSE
    /\ raced' = IF \E d \in Dumpers : pc[d] \notin {"idle", "done"}
                THEN raced \cup {writes} ELSE raced
    /\ UNCHANGED <<up, crashes, mem, writes, dumpVars, fileVars>>

\* An entry expires, is evicted or is cleared; nothing counts that.
Drop(k) ==
    /\ up /\ mem[k] # 0
    /\ mem' = [mem EXCEPT ![k] = 0]
    /\ UNCHANGED <<up, crashes, counting, changes, writes, raced, dumpVars, fileVars>>

-----------------------------------------------------------------------------
(* dump_to_file, by dumper d *)

\* run_background_task: some change is uncounted for, and either the threshold
\* is reached or the interval is over (both left open).  shutdown dumps once,
\* in any case.
StartDump(d) ==
    /\ up /\ pc[d] = "idle" /\ Len(snaps) < MaxDumps
    /\ d = "background" => changes > 0
    /\ snaps' = Append(snaps, <<>>)
    /\ dump' = [dump EXCEPT ![d] = Len(snaps')]
    /\ next' = [next EXCEPT ![d] = 1]
    /\ pc' = [pc EXCEPT ![d] = "collect"]
    /\ UNCHANGED <<up, crashes, cacheVars, handle, fileVars>>

\* entries(): one shard under its lock.
Collect(d) ==
    LET k == next[d] IN
    /\ up /\ pc[d] = "collect"
    /\ snaps' = IF mem[k] = 0 THEN snaps
                ELSE [snaps EXCEPT ![dump[d]] = Append(@, Record(k, mem[k]))]
    /\ next' = [next EXCEPT ![d] = k + 1]
    /\ pc' = [pc EXCEPT ![d] = IF k = Shards THEN "create" ELSE "collect"]
    /\ UNCHANGED <<up, crashes, cacheVars, dump, handle, fileVars>>

\* Mutant of Create: the file is opened without truncating it.
CreateKeepsContent(d) ==
    /\ up /\ pc[d] = "create"
    /\ \E i \in Inodes :
          /\ IF tmp # 0 THEN i = tmp
             ELSE i # path /\ \A e \in Dumpers : handle[e] # i
          /\ tmp' = i
          /\ content' = IF tmp # 0 THEN content ELSE [content EXCEPT ![i] = <<>>]
          /\ handle' = [handle EXCEPT ![d] = i]
    /\ next' = [next EXCEPT ![d] = 0]
    /\ pc' = [pc EXCEPT ![d] = "write"]
    /\ UNCHANGED <<up, crashes, cacheVars, dump, snaps, path>>

\* File::create: truncates the temporary file, or makes it.
Create(d) ==
    /\ up /\ pc[d] = "create"
    /\ \E i \in Inodes :
          /\ IF tmp # 0 THEN i = tmp
             ELSE i # path /\ \A e \in Dumpers : handle[e] # i
          /\ tmp' = i
          /\ content' = [content EXCEPT ![i] = <<>>]
          /\ handle' = [handle EXCEPT ![d] = i]
    /\ next' = [next EXCEPT ![d] = 0]
    /\ pc' = [pc EXCEPT ![d] = "write"]
    /\ UNCHANGED <<up, crashes, cacheVars, dump, snaps, path>>

\* write_all of the header or of one record.
Write(d) ==
    /\ up /\ pc[d] = "write"
    /\ content' = [content EXCEPT ![handle[d]] =
                      WriteAt(@, next[d], Encoded(dump[d])[next[d] + 1])]
    /\ next' = [next EXCEPT ![d] = @ + 1]
    /\ pc' = [pc EXCEPT ![d] = IF next[d] = Len(snaps[dump[d]]) THEN "rename" ELSE "write"]
    /\ UNCHANGED <<up, crashes, cacheVars, dump, handle, snaps, tmp, path>>

\* The file is closed and renamed; renaming a missing file is an error.
Rename(d) ==
    /\ up /\ pc[d] = "rename" /\ tmp # 0
    /\ path' = tmp
    /\ tmp' = 0
    /\ handle' = [handle EXCEPT ![d] = 0]
    /\ pc' = [pc EXCEPT ![d] = "reset"]
    /\ UNCHANGED <<up, crashes, cacheVars, dump, next, snaps, content>>

\* The background task returns to its timer; shutdown is over.
Return(d) ==
    /\ pc' = [pc EXCEPT ![d] = IF d = "background" THEN "idle" ELSE "done"]
    /\ handle' = [handle EXCEPT ![d] = 0]

\* Ok(()): changes_since_dump.store(0).
ResetChanges(d) ==
    /\ up /\ pc[d] = "reset"
    /\ changes' = 0
    /\ Return(d)
    /\ UNCHANGED <<up, crashes, mem, counting, writes, raced, dump, next, snaps, fileVars>>

\* Mutant of DumpFails: a failed dump counts as one.
DumpFailsReset(d) ==
    /\ up /\ pc[d] \in {"create", "write", "rename"}
    /\ changes' = 0
    /\ Return(d)
    /\ UNCHANGED <<up, crashes, mem, counting, writes, raced, dump, next, snaps, fileVars>>

\* create, a write or the rename fails: a warning; the temporary file stays.
DumpFails(d) ==
    /\ up /\ pc[d] \in {"create", "write", "rename"}
    /\ Return(d)
    /\ UNCHANGED <<up, crashes, cacheVars, dump, next, snaps, fileVars>>

-----------------------------------------------------------------------------
(* The process *)

\* It ends at any point; what was written to files stays.
Crash ==
    /\ up /\ crashes < MaxCrashes
    /\ up' = FALSE
    /\ crashes' = crashes + 1
    /\ mem' = [k \in Names |-> 0]
    /\ counting' = FALSE
    /\ changes' = 0
    /\ pc' = [d \in Dumpers |-> "idle"]
    /\ handle' = [d \in Dumpers |-> 0]
    /\ UNCHANGED <<dump, next, snaps, writes, raced, fileVars>>

\* restore_from_dump.
Restart ==
    /\ ~up
    /\ up' = TRUE
    /\ mem' = OnDisk
    /\ UNCHANGED <<crashes, counting, changes, writes, raced, dumpVars, fileVars>>

Next ==
    \/ \E k \in Names : Store(k) \/ Drop(k)
    \/ CountStore
    \/ \E d \in Dumpers :
          \/ StartDump(d) \/ Collect(d) \/ Create(d) \/ Write(d) \/ Rename(d)
          \/ ResetChanges(d) \/ DumpFails(d)
    \/ Crash \/ Restart

Spec == Init /\ [][Next]_vars

-----------------------------------------------------------------------------
(* Properties *)

\* "Atomically writes via temp file + rename." (persistence.rs:19): the file
\* always holds one dump, complete, whatever crashed, failed or was stored
\* meanwhile.
DumpAtomic ==
    path # 0 => \E d \in 1 .. Len(snaps) : content[path] = Encoded(d)

\* While the counter is zero there is nothing to dump, except writes that
\* raced with a dump: a failed or interrupted dump is tried again.
OnlyRacedUncounted ==
    up /\ changes = 0 /\ ~counting =>
        \A k \in Names : mem[k] \in {0, OnDisk[k]} \cup raced
=============================================================================

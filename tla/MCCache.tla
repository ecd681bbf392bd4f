------------------------------ MODULE MCCache ------------------------------
(***************************************************************************)
(* What the cache does with its entries: their lifetimes (CachePlugin) and *)
(* the file they are dumped to (CacheDump).  A behaviour is one of either, *)
(* chosen in the initial state; MCCache.cfg gives both their parameters.   *)
(***************************************************************************)
EXTENDS CachePlugin

CONSTANTS Shards, Dumpers, MaxWrites, MaxDumps, MaxCrashes   \* see CacheDump

\* sharded.rs:22-23 makes at least one shard; dump_to_file is called by the
\* background task and by the shutdown.
ASSUME DumpAssumption ==
  /\ Shards \in Nat \ {0}
  /\ Dumpers \subseteq {"background", "shutdown"}

VARIABLES part,
          dumperUp, mem, counting, changes, pc, dump, next, handle, tmp, path, content, snaps,
          writes, raced, crashes

Dumped == INSTANCE CacheDump WITH up <- dumperUp

dumpVars == <<dumperUp, mem, counting, changes, pc, dump, next, handle, tmp, path, content, snaps,
              writes, raced, crashes>>

CacheInit ==
  /\ part \in {"lifetimes", "dumps"}
  /\ Init /\ Dumped!Init
  /\ part = "dumps" => cacheTtl = 0

LifetimesMove == part = "lifetimes" /\ Next /\ UNCHANGED <<part, dumpVars>>
DumpsMove == part = "dumps" /\ Dumped!Next /\ UNCHANGED <<part, vars>>

CacheSpec == CacheInit /\ [][LifetimesMove \/ DumpsMove]_<<part, vars, dumpVars>>

-----------------------------------------------------------------------------
(* The properties of the dump, under their own names.                      *)

\* The dump file always holds one complete dump.
DumpAtomic == Dumped!DumpAtomic
\* Only writes that raced with a dump are left out of the count of changes.
OnlyRacedUncounted == Dumped!OnlyRacedUncounted
=============================================================================

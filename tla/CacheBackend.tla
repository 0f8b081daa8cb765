---------------------------- MODULE CacheBackend ----------------------------
(***************************************************************************)
(* The cache that run_gateway() makes: a SqliteCache or a FileCache, as    *)
(* cache.type says.  ReliablePublisher has only the interface              *)
(* MessageCache, so that both have to be the queue it promises.  The       *)
(* messages, and what was accepted and published, are those of FileCache.  *)
(***************************************************************************)
EXTENDS FileCache

VARIABLES type,                    \* gateway_config.cache.type
          rows, sequence, ready    \* of SqliteCache

file_only == <<disk, file, cut, tmp, op, rest, misread>>
sqlite_only == <<rows, sequence, ready>>

Sqlite == INSTANCE SqliteCache

BackendInit == type \in {"sqlite", "file"} /\ Init /\ Sqlite!Init

BackendNext ==
    \/ type = "sqlite" /\ Sqlite!Next /\ UNCHANGED <<type, file_only>>
    \/ type = "file" /\ Next /\ UNCHANGED <<type, sqlite_only>>

BackendSpec == BackendInit /\ [][BackendNext]_<<type, vars, sqlite_only>>

-----------------------------------------------------------------------------
(* Whichever cache was configured, a message the publisher was told is     *)
(* deferred stays in it until it has been published: over failing          *)
(* statements, failed rewrites and renames, and crashes; for the file, on  *)
(* a disk that reads back and takes whole lines.                           *)
BackendKeepsDeferred ==
    IF type = "sqlite" THEN Sqlite!DeferredKept ELSE DeferredKept

(* Whichever cache was configured, and under the same proviso, append(),   *)
(* load_all() and remove_first() together behave as the queue that         *)
(* MessageCache promises.                                                  *)
Backend == INSTANCE MessageCache
              WITH stored <- IF type = "sqlite" THEN Sqlite!Loaded
                             ELSE IF read_faults \/ short_writes THEN <<>> ELSE Loadable
MessageCacheSpec == Backend!Spec

(* The inductive invariant: that of the configured cache; the other one    *)
(* has nothing.                                                            *)
BackendIInv ==
    /\ type \in {"sqlite", "file"}
    /\ type = "sqlite" => Sqlite!IInv /\ file = <<>> /\ op = "idle"
    /\ type = "file" => IInv
=============================================================================

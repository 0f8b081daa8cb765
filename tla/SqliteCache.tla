----------------------------- MODULE SqliteCache -----------------------------
(***************************************************************************)
(* cache::SqliteCache: the queue as the rows of pending_messages, ordered  *)
(* by an AUTOINCREMENT id, used by one thread at a time.  SQLite itself is *)
(* external: a statement commits completely or changes nothing, also when  *)
(* the process dies (WAL, synchronous=FULL), and any statement may fail    *)
(* (a locked database after the busy timeout, a full disk).                *)
(*                                                                         *)
(* Messages are numbered in the order of publication.                      *)
(***************************************************************************)
EXTENDS Naturals, Sequences, FiniteSets, Functions, InOrder

CONSTANT MaxMessages      \* bound on the messages of one behaviour

Messages == 1..MaxMessages

VARIABLES
    rows,           \* pending_messages: id |-> message
    sequence,       \* sqlite_sequence: the largest id ever used
    ready,          \* ready_, or FALSE while no process runs
    count,          \* messages published and not yet removed, 0 outside a flush
    next, accepted, published       \* history, as in FileCache

vars == <<rows, sequence, ready, count, next, accepted, published>>

(* SELECT id ... ORDER BY id                                               *)
OrderedIds == Ascending(DOMAIN rows)

(* load_all() when every step succeeds.                                    *)
Loaded == [i \in 1..Cardinality(DOMAIN rows) |-> rows[OrderedIds[i]]]

-----------------------------------------------------------------------------
(* initialize(): the directory, the database, the pragmas and the table.   *)
(* When it fails main() gives the cache up and exits.                      *)
initialize ==
    /\ ~ready
    /\ ready' = TRUE
    /\ UNCHANGED <<rows, sequence, count, next, accepted, published>>

(* INSERT: the message gets the id after the largest one ever used.        *)
Inserted == [id \in DOMAIN rows \cup {sequence + 1} |->
                IF id = sequence + 1 THEN next ELSE rows[id]]

append ==
    /\ ready /\ count = 0 /\ next <= MaxMessages
    /\ rows' = Inserted
    /\ sequence' = sequence + 1
    /\ accepted' = accepted \cup {next}
    /\ next' = next + 1
    /\ UNCHANGED <<ready, count, published>>

(* The row is committed and the process dies before append() returns.      *)
AppendCrash ==
    /\ ready /\ count = 0 /\ next <= MaxMessages
    /\ rows' = Inserted
    /\ sequence' = sequence + 1
    /\ ready' = FALSE
    /\ next' = next + 1
    /\ UNCHANGED <<count, accepted, published>>

AppendFails ==
    /\ ready /\ count = 0 /\ next <= MaxMessages
    /\ next' = next + 1
    /\ UNCHANGED <<rows, sequence, ready, count, accepted, published>>

(* flush_cache(): load_all(), and the publication of a prefix of it.  A    *)
(* load_all() that fails returns nothing, and the flush does nothing.      *)
Flush ==
    /\ ready /\ count = 0
    /\ \E n \in 1..Len(Loaded) :
          /\ count' = n
          /\ published' = published \cup {Loaded[i] : i \in 1..n}
    /\ UNCHANGED <<rows, sequence, ready, next, accepted>>

(* A faulty remove_first: ORDER BY id DESC.                                *)
remove_first_newest ==
    /\ ready /\ count > 0
    /\ rows' = Restrict(rows, DOMAIN rows \ {OrderedIds[Len(OrderedIds) + 1 - i] : i \in 1..count})
    /\ count' = 0
    /\ UNCHANGED <<sequence, ready, next, accepted, published>>

(* DELETE ... WHERE id IN (SELECT id ... ORDER BY id LIMIT count)          *)
remove_first ==
    /\ ready /\ count > 0
    /\ rows' = Restrict(rows, DOMAIN rows \ {OrderedIds[i] : i \in 1..count})
    /\ count' = 0
    /\ UNCHANGED <<sequence, ready, next, accepted, published>>

RemoveFails ==
    /\ ready /\ count > 0
    /\ count' = 0
    /\ UNCHANGED <<rows, sequence, ready, next, accepted, published>>

Crash ==
    /\ ready
    /\ ready' = FALSE
    /\ count' = 0
    /\ UNCHANGED <<rows, sequence, next, accepted, published>>

Init ==
    /\ rows = <<>> /\ sequence = 0 /\ ready = FALSE /\ count = 0
    /\ next = 1 /\ accepted = {} /\ published = {}

Next == \/ initialize \/ append \/ AppendCrash \/ AppendFails \/ Flush
        \/ remove_first \/ RemoveFails \/ Crash

Spec == Init /\ [][Next]_vars

-----------------------------------------------------------------------------
TypeOK ==
    /\ DOMAIN rows \subseteq 1..sequence
    /\ \A id \in DOMAIN rows : rows[id] \in Messages
    /\ sequence \in 0..MaxMessages
    /\ ready \in BOOLEAN
    /\ count \in 0..Cardinality(DOMAIN rows)
    /\ next \in 1..(MaxMessages + 1)
    /\ accepted \subseteq Messages /\ published \subseteq Messages

(* A message the publisher was told is deferred stays in the database      *)
(* until it has been published, whatever statement fails and whenever the  *)
(* process dies.                                                           *)
DeferredKept == \A m \in accepted : m \in published \/ m \in Range(Loaded)

-----------------------------------------------------------------------------
(* The inductive invariant: the ids in the table are the latest ones, none *)
(* missing, so that a new row comes last and the first rows go first; and  *)
(* the rows a flush is about to remove have been published.                *)
IInv ==
    /\ TypeOK
    /\ sequence < next
    /\ \E gone \in 0..sequence : DOMAIN rows = (gone + 1)..sequence
    /\ \A i \in 1..count : Loaded[i] \in published
    /\ DeferredKept
=============================================================================

------------------------------ MODULE FileCache ------------------------------
(***************************************************************************)
(* cache::FileCache: the queue as lines "topic TAB payload" of a text      *)
(* file, used by one thread at a time (under ReliablePublisher's mutex).   *)
(*                                                                         *)
(* A line is the message it holds, or the remains of a write cut short:    *)
(* Headless (no TAB), Garbled (one TAB: it loads as a message nobody       *)
(* wrote) or Doubled (more: the payload it loads contains a TAB).  cut     *)
(* says that the last line lacks its newline.                              *)
(*                                                                         *)
(* Messages are numbered in the order of publication, so that each append  *)
(* is of the next number.                                                  *)
(***************************************************************************)
EXTENDS Naturals, Sequences, Functions, InOrder

CONSTANTS MaxMessages,    \* bound on the messages of one behaviour
          Headless, Garbled, Doubled

ASSUME FileAssumption == /\ MaxMessages \in Nat
                         /\ {Headless, Garbled, Doubled} \cap Nat = {}
                         /\ Headless # Garbled /\ Headless # Doubled
                         /\ Garbled # Doubled

Messages == 1..MaxMessages
Lines == Messages \cup {Headless, Garbled, Doubled}

VARIABLES
    read_faults,    \* may opening or reading the file fail in this behaviour?
    short_writes,   \* may an append be cut short (a full disk)?
    file, cut,      \* the cache file
    tmp,            \* the temporary file
    op,             \* the step of remove_first() that comes next
    count,          \* how many messages the flush published
    rest,           \* the messages remove_first() is to keep
    misread,        \* history: remove_first() could not read the whole file,
    next,           \* the next message,
    accepted,       \* those whose append() returned true,
    published       \* and those a flush has published

disk == <<read_faults, short_writes>>
vars == <<disk, file, cut, tmp, op, count, rest, misread, next, accepted, published>>

(* What load_all() makes of the lines of a file: those that have a TAB.    *)
Loads(lines) == LET headed == Ascending({p \in DOMAIN lines : lines[p] # Headless})
                IN [i \in DOMAIN headed |-> lines[headed[i]]]

(* load_all() on a file that can be read to its end.                       *)
Loadable == Loads(file)

(* The outcomes of load_all(): an error looks like the end of the file.    *)
LoadAll == IF read_faults THEN {SubSeq(Loadable, 1, k) : k \in 0..Len(Loadable)}
                          ELSE {Loadable}

Tabs(line) == CASE line = Headless -> 0 [] line = Doubled -> 2 [] OTHER -> 1

(* The line that begins with an unfinished one and goes on with the next   *)
(* write.                                                                  *)
Glue(line, part) ==
    CASE Tabs(line) + Tabs(part) = 0 -> Headless
      [] Tabs(line) + Tabs(part) = 1 -> Garbled
      [] OTHER -> Doubled

(* The file after writing part at its end, in ios::app mode.               *)
Written(part) == IF cut THEN [file EXCEPT ![Len(file)] = Glue(@, part)]
                        ELSE Append(file, part)

-----------------------------------------------------------------------------
(* append(): the whole line is written,                                    *)
AppendOk ==
    /\ op = "idle" /\ next <= MaxMessages
    /\ file' = Written(next)
    /\ cut' = FALSE
    /\ accepted' = accepted \cup {next}
    /\ next' = next + 1
    /\ UNCHANGED <<disk, tmp, op, count, rest, misread, published>>

(* though the process may die before append() returns,                     *)
AppendCrash ==
    /\ op = "idle" /\ next <= MaxMessages
    /\ file' = Written(next)
    /\ cut' = FALSE
    /\ next' = next + 1
    /\ UNCHANGED <<disk, tmp, op, count, rest, misread, accepted, published>>

(* or nothing is: the directory or the file cannot be opened,              *)
AppendFails ==
    /\ op = "idle" /\ next <= MaxMessages
    /\ next' = next + 1
    /\ UNCHANGED <<disk, file, cut, tmp, op, count, rest, misread, accepted,
                   published>>

(* or a part of it: without the TAB, without the end of the payload, or    *)
(* without the newline only.  append() returns false.                      *)
AppendShort ==
    /\ short_writes
    /\ op = "idle" /\ next <= MaxMessages
    /\ \E part \in {Headless, Garbled, next} : file' = Written(part)
    /\ cut' = TRUE
    /\ next' = next + 1
    /\ UNCHANGED <<disk, tmp, op, count, rest, misread, accepted, published>>

(* flush_cache(): load_all(), and the publication of a prefix of it.       *)
Flush ==
    /\ op = "idle"
    /\ \E batch \in LoadAll : \E n \in 1..Len(batch) :
          /\ count' = n
          /\ published' = published \cup {batch[i] : i \in 1..n}
    /\ op' = "reload"
    /\ UNCHANGED <<disk, file, cut, tmp, rest, misread, next, accepted>>

(* A faulty RemoveReload: it drops one message too many.                   *)
RemoveReloadOneMore ==
    /\ op = "reload"
    /\ \E messages \in LoadAll :
          /\ rest' = IF count >= Len(messages) THEN <<>>
                     ELSE SubSeq(messages, count + 2, Len(messages))
          /\ misread' = (messages # Loadable)
    /\ op' = "write"
    /\ UNCHANGED <<disk, file, cut, tmp, count, next, accepted, published>>

(* remove_first(count): load_all() again,                                  *)
RemoveReload ==
    /\ op = "reload"
    /\ \E messages \in LoadAll :
          /\ rest' = IF count >= Len(messages) THEN <<>>
                     ELSE SubSeq(messages, count + 1, Len(messages))
          /\ misread' = (messages # Loadable)
    /\ op' = "write"
    /\ UNCHANGED <<disk, file, cut, tmp, count, next, accepted, published>>

(* then replace_all(): refuse a message that contains a TAB,               *)
ReplaceRefused ==
    /\ op = "write" /\ Doubled \in Range(rest)
    /\ op' = "idle"
    /\ UNCHANGED <<disk, file, cut, tmp, count, rest, misread, next, accepted,
                   published>>

(* write the rest to the temporary file,                                   *)
WriteTmp ==
    /\ op = "write" /\ Doubled \notin Range(rest)
    /\ tmp' = rest
    /\ op' = "rename"
    /\ UNCHANGED <<disk, file, cut, count, rest, misread, next, accepted, published>>

(* A faulty WriteTmpFails: replace_all() writes the cache file itself.     *)
WriteInPlace ==
    /\ op = "write" /\ Doubled \notin Range(rest)
    /\ \E k \in 0..Len(rest) : file' = SubSeq(rest, 1, k)
    /\ op' = "idle"
    /\ UNCHANGED <<disk, tmp, cut, count, rest, misread, next, accepted, published>>

(* give up when only a part of it could be written,                        *)
WriteTmpFails ==
    /\ op = "write" /\ Doubled \notin Range(rest)
    /\ \/ UNCHANGED tmp
       \/ \E k \in 0..Len(rest) : tmp' = SubSeq(rest, 1, k)
    /\ op' = "idle"
    /\ UNCHANGED <<disk, file, cut, count, rest, misread, next, accepted, published>>

(* and rename it over the file,                                            *)
Rename ==
    /\ op = "rename"
    /\ file' = tmp /\ cut' = FALSE
    /\ tmp' = <<>>
    /\ op' = "idle"
    /\ UNCHANGED <<disk, count, rest, misread, next, accepted, published>>

(* or remove it when that fails.                                           *)
RenameFails ==
    /\ op = "rename"
    /\ tmp' = <<>>
    /\ op' = "idle"
    /\ UNCHANGED <<disk, file, cut, count, rest, misread, next, accepted, published>>

(* The process dies; both files stay.                                      *)
Crash ==
    /\ op # "idle"
    /\ op' = "idle"
    /\ UNCHANGED <<disk, file, cut, tmp, count, rest, misread, next, accepted,
                   published>>

Init ==
    /\ read_faults \in BOOLEAN /\ short_writes \in BOOLEAN
    /\ file = <<>> /\ cut = FALSE /\ tmp = <<>>
    /\ op = "idle" /\ count = 0 /\ rest = <<>> /\ misread = FALSE
    /\ next = 1 /\ accepted = {} /\ published = {}

(* No message is left to append and none to flush.                         *)
Finished == op = "idle" /\ next > MaxMessages /\ Loadable = <<>> /\ UNCHANGED vars

Next == \/ AppendOk \/ AppendCrash \/ AppendFails \/ AppendShort \/ Flush
        \/ RemoveReload \/ ReplaceRefused \/ WriteTmp \/ WriteTmpFails
        \/ Rename \/ RenameFails \/ Crash \/ Finished

Spec == Init /\ [][Next]_vars

-----------------------------------------------------------------------------
TypeOK ==
    /\ read_faults \in BOOLEAN /\ short_writes \in BOOLEAN
    /\ file \in Seq(Lines) /\ tmp \in Seq(Lines) /\ rest \in Seq(Lines)
    /\ cut \in BOOLEAN /\ misread \in BOOLEAN
    /\ op \in {"idle", "reload", "write", "rename"}
    /\ count \in 0..MaxMessages
    /\ next \in 1..(MaxMessages + 1)
    /\ accepted \subseteq Messages
    /\ published \subseteq Lines

Held == Range(file)

Kept == \A m \in accepted : m \in published \/ m \in Held

(* On a disk that reads back and takes whole lines, a message the          *)
(* publisher was told is deferred stays in the cache until it has been     *)
(* published, whichever opens, rewrites and renames fail and whenever the  *)
(* process dies.                                                           *)
DeferredKept == ~read_faults /\ ~short_writes => Kept

(* Whatever fails, a deferred message leaves the file unpublished only in  *)
(* a remove_first() that could not read all it was to keep: not by         *)
(* a failed or interrupted rewrite, and not by a later append().           *)
LossOnlyByMisread ==
    [][\A m \in accepted \ published :
          m \in Held /\ m \notin Held' => op = "rename" /\ misread]_vars

(* docs/architecture.md: "Deferred means that the message is in the local  *)
(* cache", where the periodic replay finds it; on a disk that reads back.  *)
DeferredIsCached == ~read_faults => Kept

-----------------------------------------------------------------------------
(* The inductive invariant.  A message is accepted after it got its        *)
(* number;                                                                 *)
Numbered == \A m \in accepted : m < next

(* no file outgrows the messages there were;                               *)
Sized == Len(file) < next /\ Len(rest) < next /\ Len(tmp) < next

(* an unfinished line holds no accepted message;                           *)
CutSound == cut => file # <<>> /\ file[Len(file)] \notin accepted

(* between a flush and the end of its remove_first() the file still begins *)
(* with the messages that were published;                                  *)
FlushSound ==
    op # "idle" => /\ count \in 1..Len(Loadable)
                   /\ \A i \in 1..count : Loadable[i] \in published

(* what remove_first() keeps is all that follows them, unless it misread   *)
(* the file, and the temporary file that is renamed holds it;              *)
RestSound ==
    /\ op \in {"write", "rename"} /\ ~misread =>
          rest = SubSeq(Loadable, count + 1, Len(Loadable))
    /\ op = "rename" => tmp = rest

(* and on a disk without faults every line is a message, and all are read. *)
HealthyDisk ==
    ~read_faults /\ ~short_writes =>
        file \in Seq(Messages) /\ ~cut /\ ~misread /\ Kept

IInv == /\ TypeOK /\ Numbered /\ Sized /\ CutSound
        /\ FlushSound /\ RestSound /\ HealthyDisk
=============================================================================

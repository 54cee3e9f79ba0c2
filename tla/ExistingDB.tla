----------------------------- MODULE ExistingDB -----------------------------
(***************************************************************************)
(* ExistingDB: updatedb reads the database it is about to replace, record  *)
(* by record, from three places at once: the filename blocks, the stream   *)
(* of directory times and the stream of metadata.  The streams come out of *)
(* zstd in pieces that have nothing to do with records.                    *)
(*                                                                         *)
(* scan() keeps a record or gives it back with unread().  Which one it     *)
(* does, and what it makes of the record, is module Updatedb.              *)
(***************************************************************************)
EXTENDS DatabaseBuilder

CONSTANT Piece       \* bound: parts of a stream that a refill adds

ASSUME PieceAssumption == Piece \in Nat \ {0}

VARIABLES
    old,     \* the database as far as it can be read: a block that cannot is empty, a
             \* stream ends where it cannot be read on
    cur,     \* the ExistingDB
    call,    \* where read_next() is, or "scan"
    got      \* history: the records scan() kept, [name, dt, meta]

cursorVars == <<old, cur, call, got>>

\* The NUL-terminated strings of a block, and of nothing.
CStrings(block) ==
    LET split[k \in 0 .. Len(block)] ==     \* the strings of the first k bytes
            IF k = 0 THEN <<<<>>>>
            ELSE LET s == split[k - 1]
                 IN  IF block[k] = 0 THEN Append(s, <<>>)
                     ELSE [s EXCEPT ![Len(s)] = Append(@, block[k])]
    IN  split[Len(block)]

NoRecord == [name |-> <<>>, dt |-> not_a_dir]
NoCursor ==
    [docid |-> 0, names |-> <<>>,                      \* current_filename_ptr
     dir_time |-> <<>>, dir_time_pos |-> 0,            \* buffered parts, and parts read
     metadata |-> <<>>, metadata_pos |-> 0, metadata_available |-> FALSE,
     record |-> NoRecord, last_metadata |-> NoMetadata,
     unread |-> NoRecord, unread_metadata |-> NoMetadata,
     eof |-> FALSE, error |-> FALSE]

\* ExistingDB(fd): a database built with another configuration is not used.
OpenOld(db, conf_block) ==
    /\ call = "closed"
    /\ old' = db /\ call' = "scan"
    /\ cur' = [NoCursor EXCEPT !.error = db.prune # conf_block, !.metadata_available = db.stored]
    /\ UNCHANGED got

Return(c) == cur' = c /\ call' = "returned"

-----------------------------------------------------------------------------
(* read_next().                                                            *)

\* The record given back comes again, with its metadata.
ReadUnread ==
    /\ call = "scan" /\ cur.unread # NoRecord
    /\ Return([cur EXCEPT !.record = cur.unread, !.last_metadata = cur.unread_metadata,
                          !.unread = NoRecord])
    /\ UNCHANGED <<old, got>>

ReadNothing ==
    /\ call = "scan" /\ cur.unread = NoRecord
    /\ \/ cur.eof \/ cur.error
       \/ cur.names = <<>> /\ cur.docid >= Len(old.blocks)
    /\ Return([cur EXCEPT !.record = NoRecord, !.eof = @ \/ ~cur.error])
    /\ UNCHANGED <<old, got>>

\* A filename block is read; pread() or zstd may fail.
ReadBlock ==
    /\ call = "scan" /\ cur.unread = NoRecord /\ ~cur.eof /\ ~cur.error
    /\ cur.names = <<>> /\ cur.docid < Len(old.blocks)
    /\ LET block == old.blocks[cur.docid + 1]
       IN  IF block = <<>>
           THEN Return([cur EXCEPT !.record = NoRecord, !.error = TRUE])
           ELSE /\ cur' = [cur EXCEPT !.names = CStrings(block), !.docid = @ + 1]
                /\ call' = "dir time"
    /\ UNCHANGED <<old, got>>

ReadOn ==
    /\ call = "scan" /\ cur.unread = NoRecord /\ ~cur.eof /\ ~cur.error
    /\ cur.names # <<>>
    /\ call' = "dir time"
    /\ UNCHANGED <<old, cur, got>>

\* Mutant of DirTimeBuffered: a time is always asked for.
DirTimeAndTime == Len(cur.dir_time) >= 2

\* A marker, and the time of a directory.
DirTimeBuffered ==
    cur.dir_time # <<>> /\ (cur.dir_time[1].u = "dir" => Len(cur.dir_time) >= 2)

\* The stream has no more, or cannot be read: nothing is returned from here on.
DirTimesEnd ==
    /\ call = "dir time" /\ ~DirTimeBuffered /\ cur.dir_time_pos = Len(old.dir_times)
    /\ Return([cur EXCEPT !.record = NoRecord, !.error = TRUE])
    /\ UNCHANGED <<old, got>>

RefillDirTimes ==
    /\ call = "dir time" /\ ~DirTimeBuffered
    /\ \E n \in 1 .. Piece :
           /\ cur.dir_time_pos + n <= Len(old.dir_times)
           /\ cur' = [cur EXCEPT !.dir_time = @ \o SubSeq(old.dir_times, cur.dir_time_pos + 1,
                                                         cur.dir_time_pos + n),
                                 !.dir_time_pos = @ + n]
    /\ UNCHANGED <<old, call, got>>

TakeRecord ==
    /\ call = "dir time" /\ DirTimeBuffered
    /\ LET dir == cur.dir_time[1].u = "dir"
           parts == IF dir THEN 2 ELSE 1
       IN  cur' = [cur EXCEPT !.names = Tail(@), !.last_metadata = NoMetadata,
                       !.dir_time = SubSeq(@, parts + 1, Len(@)),
                       !.record = [name |-> Head(cur.names),
                                   dt |-> IF dir THEN cur.dir_time[2].val[1] ELSE not_a_dir]]
    /\ call' = IF cur.metadata_available THEN "metadata" ELSE "returned"
    /\ UNCHANGED <<old, got>>

\* read_next_metadata_record(): how many parts it needs, as far as it can tell.
MetadataNeeds(m) ==
    IF m = <<>> THEN 1
    ELSE IF m[1].u = "none" THEN 1
    ELSE IF Len(m) = 1 THEN 2
    ELSE 2 + m[2].val[3]
MetadataBuffered == Len(cur.metadata) >= MetadataNeeds(cur.metadata)

RefillMetadata ==
    /\ call = "metadata" /\ ~MetadataBuffered
    /\ \E n \in 1 .. Piece :
           /\ cur.metadata_pos + n <= Len(old.metadata)
           /\ cur' = [cur EXCEPT !.metadata = @ \o SubSeq(old.metadata, cur.metadata_pos + 1,
                                                         cur.metadata_pos + n),
                                 !.metadata_pos = @ + n]
    /\ UNCHANGED <<old, call, got>>

\* The rest of the entries are treated as new.
MetadataEnds ==
    /\ call = "metadata" /\ ~MetadataBuffered /\ cur.metadata_pos = Len(old.metadata)
    /\ Return([cur EXCEPT !.metadata_available = FALSE])
    /\ UNCHANGED <<old, got>>

decode_metadata_record(m) ==
    IF m[1].u = "none" THEN NoMetadata
    ELSE [enabled |-> TRUE, stamp |-> m[2].val[1], atime |-> m[2].val[2],
          hash |-> IF m[2].val[3] = 0 THEN 0 ELSE m[3].val[1]]

TakeMetadata ==
    /\ call = "metadata" /\ MetadataBuffered
    /\ Return([cur EXCEPT !.last_metadata = decode_metadata_record(cur.metadata),
                          !.metadata = SubSeq(@, MetadataNeeds(@) + 1, Len(@))])
    /\ UNCHANGED <<old, got>>

-----------------------------------------------------------------------------
(* What scan() does with what it gets.                                     *)

Keep ==
    /\ call = "returned" /\ cur.record # NoRecord
    /\ got' = Append(got, [name |-> cur.record.name, dt |-> cur.record.dt,
                           meta |-> cur.last_metadata])
    /\ call' = "scan"
    /\ UNCHANGED <<old, cur>>

\* Mutant of unread: the metadata is not kept with the record.
UnreadNameOnly ==
    /\ call = "returned" /\ cur.record # NoRecord
    /\ cur' = [cur EXCEPT !.unread = cur.record, !.unread_metadata = NoMetadata]
    /\ call' = "scan"
    /\ UNCHANGED <<old, got>>

unread ==
    /\ call = "returned" /\ cur.record # NoRecord
    /\ cur' = [cur EXCEPT !.unread = cur.record, !.unread_metadata = cur.last_metadata]
    /\ call' = "scan"
    /\ UNCHANGED <<old, got>>

\* An empty record ends the loop that asked for it, and scan() may ask again.
AtEnd ==
    /\ call = "returned" /\ cur.record = NoRecord
    /\ call' = "scan"
    /\ UNCHANGED <<old, cur, got>>

ReadNext ==
    \/ ReadUnread \/ ReadNothing \/ ReadBlock \/ ReadOn
    \/ DirTimesEnd \/ RefillDirTimes \/ TakeRecord
    \/ RefillMetadata \/ MetadataEnds \/ TakeMetadata
    \/ Keep \/ unread \/ AtEnd
=============================================================================

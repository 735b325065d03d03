------------------------------ MODULE WpiLog --------------------------------
(***************************************************************************)
(* Mirroring published values into a WPILOG file (proto/src/wpilog.rs): a  *)
(* bounded queue, the thread that drains it, the file's entries, and       *)
(* failing writes.  A record is its kind and the number of the submission; *)
(* its bytes are abstracted to the layout a reader must know to parse it.  *)
(***************************************************************************)
EXTENDS Naturals, Sequences, FiniteSets, SequencesExt

CONSTANTS
  Topic,        \* channels that are logged
  Kind,         \* kinds of value that are logged
  QueueSize,    \* the queue's depth
  MaxRecords,   \* bound: records submitted
  NoEntry       \* a channel has no open entry

ASSUME WpiLogAssumption ==
  /\ QueueSize \in Nat \ {0}
  /\ MaxRecords \in Nat

VARIABLES
  queue,       \* the sync_channel of commands
  submitted,   \* records submitted
  droppedRecs, \* Logger::dropped
  failed,      \* Logger::failed
  ignored,     \* commands taken after a failure
  entries,     \* Writer::entries
  nextEntry,   \* Writer::next_id
  logFile,     \* the records in the file
  tx           \* Logger::tx: "open", "closed" or, with the thread joined, "joined";
               \* "cut" when closing the entries failed

wpiVars == <<queue, submitted, droppedRecs, failed, ignored, entries, nextEntry, logFile, tx>>

WpiInit ==
  /\ queue = <<>>
  /\ submitted = 0
  /\ droppedRecs = 0
  /\ failed = FALSE
  /\ ignored = 0
  /\ entries = [t \in Topic |-> NoEntry]
  /\ nextEntry = 1
  /\ logFile = <<>>
  /\ tx = "open"

-----------------------------------------------------------------------------
\* type_name.
TypeName(kind) ==
  CASE kind = "String" -> "string"
    [] kind \in {"Int32", "Int64", "Uint32", "Uint64"} -> "int64"
    [] kind = "Bool" -> "boolean"
    [] kind = "Double" -> "double"
    [] kind = "Float" -> "float"
    [] kind = "StringList" -> "string[]"
    [] kind = "FloatList" -> "float[]"
    [] kind = "BoolList" -> "boolean[]"
    [] kind \in {"DoubleList", "CoordinateList"} -> "double[]"
    [] kind \in {"IntegerList", "LongList"} -> "int64[]"
    [] OTHER -> "raw"

\* encode: how the payload of a kind is laid out.
EncodeKind(kind) ==
  CASE kind = "String" -> <<"text">>
    [] kind \in {"Int32", "Int64", "Uint32", "Uint64", "Double"} -> <<"8 bytes">>
    [] kind = "Bool" -> <<"1 byte">>
    [] kind = "Float" -> <<"4 bytes">>
    [] kind \in {"StringList", "BytesList"} -> <<"count", "each", "length", "text">>
    [] kind = "BoolList" -> <<"each", "1 byte">>
    [] kind = "FloatList" -> <<"each", "4 bytes">>
    [] kind \in {"DoubleList", "IntegerList", "LongList", "CoordinateList"} -> <<"each", "8 bytes">>
    [] OTHER -> <<"bytes">>

-----------------------------------------------------------------------------
\* record and record_raw: submit never blocks.
Submit(t, kind) ==
  /\ tx = "open"
  /\ submitted < MaxRecords
  /\ submitted' = submitted + 1
  /\ IF Len(queue) < QueueSize
     THEN /\ queue' = Append(queue, [topic |-> t, kind |-> kind, number |-> submitted'])
          /\ UNCHANGED droppedRecs
     ELSE /\ droppedRecs' = droppedRecs + 1
          /\ UNCHANGED queue
  /\ UNCHANGED <<failed, ignored, entries, nextEntry, logFile, tx>>

StartRecord(id, t, type) == [record |-> "start", id |-> id, topic |-> t, type |-> type]
FinishRecord(id) == [record |-> "finish", id |-> id]
DataRecord(id, command) ==
  [record |-> "data", id |-> id, number |-> command.number, layout |-> EncodeKind(command.kind)]

\* mutant: an entry is kept whatever its type
RecordsUntyped(command) ==
  LET open == entries[command.topic]
      type == TypeName(command.kind)
  IN IF open = NoEntry
     THEN <<StartRecord(nextEntry, command.topic, type), DataRecord(nextEntry, command)>>
     ELSE <<DataRecord(open.id, command)>>

\* append with entry_id: the records a command puts in the file.  A channel
\* whose type changes has its entry finished and another one started.
Records(command) ==
  LET open == entries[command.topic]
      type == TypeName(command.kind)
      start == <<StartRecord(nextEntry, command.topic, type), DataRecord(nextEntry, command)>>
  IN IF open = NoEntry THEN start
     ELSE IF open.type = type THEN <<DataRecord(open.id, command)>>
     ELSE <<FinishRecord(open.id)>> \o start

\* The entries once n of a command's records are written: start_entry puts the
\* entry in after its record.
EntriesAfter(command, records, n) ==
  IF \E i \in 1 .. n : records[i].record = "start"
  THEN [entries EXCEPT ![command.topic] = [id |-> nextEntry, type |-> TypeName(command.kind)]]
  ELSE entries

\* drain takes a command.  The first write that fails latches failed, and the
\* rest of the command is not written.
Drain ==
  /\ queue # <<>>
  /\ queue' = Tail(queue)
  /\ IF failed
     THEN /\ ignored' = ignored + 1
          /\ UNCHANGED <<failed, entries, nextEntry, logFile>>
     ELSE LET records == Records(Head(queue))
              starts == \E i \in 1 .. Len(records) : records[i].record = "start"
          IN \E n \in 0 .. Len(records) :
               /\ logFile' = logFile \o SubSeq(records, 1, n)
               /\ entries' = EntriesAfter(Head(queue), records, n)
               /\ nextEntry' = IF starts /\ (n > 0 \/ records[1].record = "start")
                               THEN nextEntry + 1 ELSE nextEntry
               /\ failed' = (n < Len(records))
               /\ ignored' = IF n < Len(records) THEN ignored + 1 ELSE ignored
  /\ UNCHANGED <<submitted, droppedRecs, tx>>

\* A periodic flush fails.
FlushFails ==
  /\ tx = "open"
  /\ ~ failed
  /\ failed' = TRUE
  /\ UNCHANGED <<queue, submitted, droppedRecs, ignored, entries, nextEntry, logFile, tx>>

\* close or Drop: tx.take.
Close ==
  /\ tx = "open"
  /\ tx' = "closed"
  /\ UNCHANGED <<queue, submitted, droppedRecs, failed, ignored, entries, nextEntry, logFile>>

\* The channel is disconnected and empty: finish_all, which stops at an error,
\* and the last flush; shutdown's join returns.
FinishAll ==
  /\ tx = "closed"
  /\ queue = <<>>
  /\ LET open == {t \in Topic : entries[t] # NoEntry}
         finish == [i \in 1 .. Cardinality(open) |->
                      FinishRecord(entries[SetToSeq(open)[i]].id)]
     IN \E n \in 0 .. Len(finish) :
          /\ tx' = IF n < Len(finish) THEN "cut" ELSE "joined"
          /\ logFile' = logFile \o SubSeq(finish, 1, n)
  /\ entries' = [t \in Topic |-> NoEntry]
  /\ UNCHANGED <<queue, submitted, droppedRecs, failed, ignored, nextEntry>>

WpiNext ==
  \/ \E t \in Topic, kind \in Kind : Submit(t, kind)
  \/ Drain \/ FlushFails \/ Close \/ FinishAll

WpiSpec == WpiInit /\ [][WpiNext]_wpiVars

-----------------------------------------------------------------------------
\* What is open after the first n records of the file.
OpenAfter(n) ==
  {i \in 1 .. n : /\ logFile[i].record = "start"
                  /\ \A j \in i + 1 .. n : logFile[j] # FinishRecord(logFile[i].id)}

\* How a reader parses the payload of an entry of a type.
ReadAs(type) ==
  CASE type \in {"int64", "double"} -> {<<"8 bytes">>}
    [] type = "float" -> {<<"4 bytes">>}
    [] type = "boolean" -> {<<"1 byte">>}
    [] type \in {"int64[]", "double[]"} -> {<<"each", "8 bytes">>}
    [] type = "float[]" -> {<<"each", "4 bytes">>}
    [] type = "boolean[]" -> {<<"each", "1 byte">>}
    [] type = "string[]" -> {<<"count", "each", "length", "text">>}
    [] type = "string" -> {<<"text">>}
    [] OTHER -> {<<"bytes">>, <<"count", "each", "length", "text">>}

\* The file can be read from the front at any length, also after a failed
\* write: every data record's entry is started before it and not finished, its
\* payload is laid out as the entry's type says, and no id is started twice or
\* two entries of one channel open at once (wpilog.rs:184-251).
FileReadable ==
  /\ \A n \in 1 .. Len(logFile) : logFile[n].record = "data" =>
       \E i \in OpenAfter(n - 1) :
         logFile[i].id = logFile[n].id /\ logFile[n].layout \in ReadAs(logFile[i].type)
  /\ \A i, j \in OpenAfter(Len(logFile)) :
       logFile[i].id = logFile[j].id \/ logFile[i].topic = logFile[j].topic => i = j

\* Every submitted record is in the queue, in the file once and in order, or
\* counted: as dropped on a full queue, or, once is_healthy reports the
\* failure, among those the thread ignored.
RecordsAccounted ==
  LET written == SelectSeq(logFile, LAMBDA r : r.record = "data")
  IN /\ submitted = Len(queue) + Len(written) + droppedRecs + ignored
     /\ \A i, j \in 1 .. Len(written) : i < j => written[i].number < written[j].number
     /\ ignored > 0 => failed

\* "Flush, close every open entry, and join the writer thread" (wpilog.rs:397):
\* after a close without an I/O error the file has every record that was queued,
\* and every entry is finished.
ClosedIsComplete ==
  tx = "joined" /\ ~ failed =>
    /\ OpenAfter(Len(logFile)) = {}
    /\ Len(SelectSeq(logFile, LAMBDA r : r.record = "data")) = submitted - droppedRecs

\* The log on disk is what a reader of the file can rely on: readable from the
\* front, with every record written or counted, and complete after close.
RecordsKept == FileReadable /\ RecordsAccounted /\ ClosedIsComplete
=============================================================================

------------------------------ MODULE EventLog ------------------------------
(* The event log (rts/eventlog/EventLog.c, rts/Trace.c): one buffer for    *)
(* each Capability, written by its owner without a lock, and one for       *)
(* events that belong to no Capability, under a mutex.  A full buffer is   *)
(* written to the file as a block, whose marker is completed only then.    *)
(* forkProcess starts a new log in the child, setNumCapabilities adds      *)
(* buffers.                                                                *)
(*                                                                         *)
(* An event is its tag, the bytes that were written for it and a number.   *)
(* Sizes are in bytes, as in the code; timestamps are not modelled.  What  *)
(* a Capability's owner posts is one step, since nobody else looks at the  *)
(* buffer, and what is posted under eventBufMutex is another.              *)
EXTENDS Integers, Sequences, SequencesExt

CONSTANTS EVENT_LOG_SIZE,  \* size of a buffer
          BUF,             \* size of the buffer for a formatted message
          Word16,          \* the payload size of an event is kept modulo this
          Texts,           \* lengths of labels, messages and arguments
          Setups           \* nNodes, new_n_capabilities, whether to fork, whether fwrite fails, who traces,
                           \* and a bound on the events

VARIABLES ebuf,            \* capEventBuf, and eventBuf as ebuf[-1]
          ncaps,           \* n_capabilities
          stdio, disk,     \* event_log_file: what is in its buffer and what has been written
          leaked,          \* what a child has written to the log of its parent
          told,            \* how far traceOSProcessInfo_ is
          logging,         \* "on", "child" or "ended"
          failed,          \* an fwrite has failed
          posted,          \* history: the numbers of the events posted to each buffer
          serial,          \* the number of the next event
          setup

vars == <<ebuf, ncaps, stdio, disk, leaked, told, logging, failed, posted, serial, setup>>

None == -1                       \* the EventCapNo of eventBuf
NoBuf == [items |-> <<>>, pos |-> 0, marker |-> 0, mpos |-> 0]
Caps == 0..ncaps - 1
Nums(items) == LET es == SelectSeq(items, LAMBDA e : e.n > 0) IN [i \in DOMAIN es |-> es[i].n]

-----------------------------------------------------------------------------
(* Events and their sizes. *)

\* The sizes of payloads that the header of the log declares; 0xffff is a payload
\* with its own size.
Variable == {"LOG_MSG", "USER_MSG", "RTS_IDENTIFIER", "PROGRAM_ARGS", "PROGRAM_ENV", "THREAD_LABEL"}
eventTypes(tag) ==
  CASE tag \in {"CREATE_THREAD", "CREATE_SPARK_THREAD"} -> 4
    [] tag \in {"MIGRATE_THREAD", "CAPSET_CREATE", "CAPSET_ASSIGN_CAP"} -> 6
    [] tag = "STOP_THREAD" -> 10
    [] tag \in {"STARTUP", "SPARK_STEAL"} -> 2
    [] tag = "CAPSET_DELETE" -> 4
    [] tag \in {"OSPROCESS_PID", "OSPROCESS_PPID"} -> 8
    [] tag = "WALL_CLOCK_TIME" -> 16
    [] tag \in {"SHUTDOWN", "GC_START", "SPARK_CREATE"} -> 0
    [] tag = "SPARK_COUNTERS" -> 56
    [] tag = "BLOCK_MARKER" -> 14

\* postEventHeader: type and timestamp.
HeaderSize == 10
MarkerSize == HeaderSize + 4 + 8 + 2
Fixed(tag, payload) == [tag |-> tag, size |-> HeaderSize + payload, says |-> 0, n |-> serial, cap |-> None]
Sized(tag, payload) ==
  [tag |-> tag, size |-> HeaderSize + 2 + payload, says |-> payload % Word16, n |-> serial, cap |-> None]
Mark(c) == [tag |-> "BLOCK_MARKER", size |-> MarkerSize, says |-> 0, n |-> 0, cap |-> c]
Token(tag) == [tag |-> tag, size |-> 4, says |-> 0, n |-> 0, cap |-> None]

-----------------------------------------------------------------------------
(* Buffers. *)

hasRoomForEvent(b, tag) == b.pos + HeaderSize + eventTypes(tag) <= EVENT_LOG_SIZE
hasRoomForVariableEvent(b, payload) == b.pos + HeaderSize + 2 + payload <= EVENT_LOG_SIZE

Add(b, e) == [b EXCEPT !.items = Append(@, e), !.pos = @ + e.size]

closeBlockMarker(b) ==
  IF b.marker = 0 THEN b
  ELSE [b EXCEPT !.items[b.marker].says = b.pos - b.mpos, !.marker = 0]

\* It is called with an empty buffer, which has room for a marker.
postBlockMarker(b, c) ==
  Add([closeBlockMarker(b) EXCEPT !.marker = Len(b.items) + 1, !.mpos = b.pos], Mark(c))

\* The buffer afterwards and what went to the file.
printAndClearEventBuf(b, c) ==
  LET closed == closeBlockMarker(b)
  IN  IF closed.pos = 0 THEN [buf |-> closed, out |-> <<>>]
      ELSE [buf |-> postBlockMarker(NoBuf, c), out |-> closed.items]

\* fwrite writes less than it was given: the buffer stays full.
PrintFailed(b) == {[buf |-> closeBlockMarker(b), out |-> SubSeq(b.items, 1, k)] : k \in 0..Len(b.items) - 1}

-----------------------------------------------------------------------------
(* Starting, forking, ending. *)

\* The header, in a block of its own, and a marker in each buffer.
initEventLogging(nNodes) ==
  /\ ebuf' = [c \in None..nNodes - 1 |-> postBlockMarker(NoBuf, c)]
  /\ stdio' = <<Token("HEADER")>>
  /\ disk' = <<>>
  /\ posted' = [c \in None..nNodes - 1 |-> <<>>]

initTracing ==
  /\ setup \in Setups
  /\ ncaps = setup.nNodes
  /\ ebuf = [c \in None..ncaps - 1 |-> postBlockMarker(NoBuf, c)]
  /\ stdio = <<Token("HEADER")>> /\ disk = <<>> /\ leaked = <<>>
  /\ posted = [c \in None..ncaps - 1 |-> <<>>]
  /\ told = 0 /\ serial = 1 /\ logging = "on" /\ failed = FALSE

Going == logging # "ended" /\ ~failed

flushEventLog == [disk |-> disk \o stdio, stdio |-> <<>>]

\* forkProcess, in the parent.  All Capabilities are held.
ForkParent ==
  /\ Going /\ setup.forks /\ logging = "on"
  /\ disk' = flushEventLog.disk /\ stdio' = flushEventLog.stdio
  /\ UNCHANGED <<ebuf, ncaps, leaked, told, logging, failed, posted, serial, setup>>

\* resetTracing in the child: the inherited file is closed, which writes what its
\* buffer held when the process was forked, and a new log is started.
resetTracing ==
  /\ Going /\ setup.forks /\ logging = "on"
  /\ leaked' = flushEventLog.stdio
  /\ initEventLogging(setup.nNodes)
  /\ logging' = "child"
  /\ UNCHANGED <<ncaps, told, failed, serial, setup>>

\* setNumCapabilities: buffers for the new Capabilities, without a marker.
moreCapEventBufs ==
  /\ Going /\ ncaps < setup.more
  /\ ebuf' = [c \in None..setup.more - 1 |-> IF c < ncaps THEN ebuf[c] ELSE NoBuf]
  /\ posted' = [c \in None..setup.more - 1 |-> IF c < ncaps THEN posted[c] ELSE <<>>]
  /\ ncaps' = setup.more
  /\ UNCHANGED <<stdio, disk, leaked, told, logging, failed, serial, setup>>

FinalBlocks ==
  FlattenSeq([i \in 1..ncaps |-> printAndClearEventBuf(ebuf[i - 1], i - 1).out])
    \o printAndClearEventBuf(ebuf[None], None).out

endEventLogging ==
  /\ Going
  /\ disk' = disk \o stdio \o FinalBlocks \o <<Token("DATA_END")>>
  /\ stdio' = <<>>
  /\ logging' = "ended"
  /\ UNCHANGED <<ebuf, ncaps, leaked, told, failed, posted, serial, setup>>

-----------------------------------------------------------------------------
(* Posting events. *)

\* p is what became of the buffer when it was flushed, or not.
Put(c, p, e) ==
  /\ ebuf' = [ebuf EXCEPT ![c] = Add(p.buf, e)]
  /\ stdio' = stdio \o p.out
  /\ posted' = [posted EXCEPT ![c] = Append(@, e.n)]

Unflushed(b) == [buf |-> b, out |-> <<>>]

Post(c, e, room) ==
  /\ Going /\ serial <= setup.posts /\ serial' = serial + 1
  /\ \/ room /\ Put(c, Unflushed(ebuf[c]), e) /\ UNCHANGED failed
     \/ ~room /\ Put(c, printAndClearEventBuf(ebuf[c], c), e) /\ UNCHANGED failed
     \/ ~room /\ setup.fails /\ failed' = TRUE
          /\ \E p \in PrintFailed(ebuf[c]) : Put(c, p, e)
  /\ UNCHANGED <<ncaps, disk, leaked, logging, setup>>

\* Events that may be larger than the buffer are dropped if they are.
PostOrDrop(c, e, payload) ==
  LET p == printAndClearEventBuf(ebuf[c], c) IN
  \/ Post(c, e, hasRoomForVariableEvent(ebuf[c], payload)) /\ hasRoomForVariableEvent(p.buf, payload)
  \/ /\ Going /\ serial <= setup.posts /\ serial' = serial + 1
     /\ ~hasRoomForVariableEvent(ebuf[c], payload) /\ ~hasRoomForVariableEvent(p.buf, payload)
     /\ ebuf' = [ebuf EXCEPT ![c] = p.buf] /\ stdio' = stdio \o p.out
     /\ UNCHANGED <<ncaps, disk, leaked, logging, failed, posted, setup>>

PostFixed(c, tag, payload) == Post(c, Fixed(tag, payload), hasRoomForEvent(ebuf[c], tag))

\* The payloads of events of the scheduler.
SchedPayload(tag) ==
  CASE tag = "CREATE_THREAD" -> 4 [] tag = "MIGRATE_THREAD" -> 4 + 2
    [] tag = "STOP_THREAD" -> 4 + 2 + 4 [] tag = "SHUTDOWN" -> 0
postSchedEvent(c, tag) == PostFixed(c, tag, SchedPayload(tag))

SparkPayload(tag) ==
  CASE tag = "CREATE_SPARK_THREAD" -> 4 [] tag = "SPARK_STEAL" -> 2 [] tag = "SPARK_CREATE" -> 0
postSparkEvent(c, tag) == PostFixed(c, tag, SparkPayload(tag))

postSparkCountersEvent(c) == PostFixed(c, "SPARK_COUNTERS", 7 * 8)

CapsetPayload(tag) ==
  4 + (CASE tag = "CAPSET_CREATE" -> 2 [] tag = "CAPSET_DELETE" -> 0 [] tag = "CAPSET_ASSIGN_CAP" -> 2
         [] OTHER -> 4)
postCapsetEvent(tag) == PostFixed(None, tag, CapsetPayload(tag))

postCapsetStrEvent(tag, len) == PostOrDrop(None, Sized(tag, len + 4), len + 4)

\* One byte more for the end of each argument.
postCapsetVecEvent(tag, lens) ==
  LET size == 4 + FoldLeft(LAMBDA a, b : a + b + 1, 0, lens) IN PostOrDrop(None, Sized(tag, size), size)

postWallClockTime == PostFixed(None, "WALL_CLOCK_TIME", 4 + 8 + 4)

postEvent(c, tag) == PostFixed(c, tag, 0)

\* vsnprintf cuts the message off.
postLogMsg(c, tag, len) ==
  LET size == IF len > BUF THEN BUF ELSE len
  IN  Post(c, Sized(tag, size), hasRoomForVariableEvent(ebuf[c], size))

postEventStartup == PostFixed(None, "STARTUP", 2)

postThreadLabel(c, len) == PostOrDrop(c, Sized("THREAD_LABEL", len + 4), len + 4)

-----------------------------------------------------------------------------
(* Who posts them. *)

Traces(what) == what \in setup.traces /\ UNCHANGED told

traceSchedEvent_(c) == Traces("sched") /\ \E tag \in {"CREATE_THREAD", "MIGRATE_THREAD", "STOP_THREAD", "SHUTDOWN"} :
                                              postSchedEvent(c, tag)
traceGcEvent_(c) == Traces("gc") /\ postEvent(c, "GC_START")
traceCapsetEvent_ == Traces("capset") /\ \E tag \in {"CAPSET_CREATE", "CAPSET_DELETE", "CAPSET_ASSIGN_CAP"} :
                                             postCapsetEvent(tag)
traceWallClockTime_ == Traces("capset") /\ postWallClockTime
traceEventStartup_ == Traces("capset") /\ postEventStartup

\* The process, its parent, the version, the arguments and the environment.
traceOSProcessInfo_ ==
  /\ "process" \in setup.traces /\ told' = told + 1
  /\ \/ told = 0 /\ postCapsetEvent("OSPROCESS_PID")
     \/ told = 1 /\ postCapsetEvent("OSPROCESS_PPID")
     \/ told = 2 /\ \E len \in Texts : postCapsetStrEvent("RTS_IDENTIFIER", len)
     \/ told = 3 /\ \E len \in Texts : postCapsetVecEvent("PROGRAM_ARGS", <<len>>)
     \/ told = 4 /\ \E len \in Texts : postCapsetVecEvent("PROGRAM_ENV", <<len, len>>)

traceSparkEvent_(c) == Traces("spark") /\ \E tag \in {"CREATE_SPARK_THREAD", "SPARK_STEAL", "SPARK_CREATE"} :
                                              postSparkEvent(c, tag)
traceSparkCounters_(c) == Traces("spark") /\ postSparkCountersEvent(c)
traceCap_(c) == Traces("user") /\ \E len \in Texts : postLogMsg(c, "LOG_MSG", len)
trace_ == Traces("user") /\ \E len \in Texts : postLogMsg(None, "LOG_MSG", len)
traceUserMsg(c) == Traces("user") /\ \E len \in Texts : postLogMsg(c, "USER_MSG", len)
traceThreadLabel_(c) == Traces("user") /\ \E len \in Texts : postThreadLabel(c, len)

Next ==
  \/ ForkParent \/ resetTracing \/ moreCapEventBufs \/ endEventLogging
  \/ traceCapsetEvent_ \/ traceWallClockTime_ \/ traceEventStartup_ \/ traceOSProcessInfo_ \/ trace_
  \/ \E c \in Caps : \/ traceSchedEvent_(c) \/ traceGcEvent_(c) \/ traceSparkEvent_(c)
                     \/ traceSparkCounters_(c) \/ traceCap_(c) \/ traceUserMsg(c) \/ traceThreadLabel_(c)

-----------------------------------------------------------------------------
(* A reader of the file.  It takes the size of an event from the header or  *)
(* from the event, and the Capability from the block the event is in.       *)

ReadSize(e) == HeaderSize + (IF e.tag \in Variable THEN 2 + e.says ELSE eventTypes(e.tag))

ReadItem(r, e) ==
  CASE e.tag \in {"HEADER", "DATA_END"} -> [r EXCEPT !.ok = @ /\ r.left = 0]
    [] e.tag = "BLOCK_MARKER" -> [r EXCEPT !.ok = @ /\ r.left = 0, !.cap = e.cap, !.left = e.says - e.size]
    [] OTHER ->
         IF r.left = 0 THEN [r EXCEPT !.ok = @ /\ ReadSize(e) = e.size]
         ELSE [r EXCEPT !.ok = @ /\ ReadSize(e) = e.size /\ e.size <= r.left, !.left = @ - e.size,
                        !.seen[r.cap] = Append(@, e.n)]

Read(file) == FoldLeft(ReadItem, [ok |-> TRUE, left |-> 0, cap |-> None,
                                  seen |-> [c \in None..ncaps - 1 |-> <<>>]], file)

\* The blocks in the file are as long as their markers say, and what is read
\* under a Capability, together with what is still in its buffer, is what was
\* posted for it: once, in order, and under no other Capability (the buffers of
\* Capabilities added later have no marker until they are first flushed).
LogReadable ==
  failed \/ \A r \in {Read(disk \o stdio)} :
    /\ r.ok /\ r.left = 0
    /\ \A c \in None..setup.nNodes - 1 :
         posted[c] = r.seen[c] \o (IF logging = "ended" THEN <<>> ELSE Nums(ebuf[c].items))

\* No event is written beyond the end of its buffer, as long as the file can be
\* written: what hasRoomForEvent was asked about is what is then written.
LogFits == failed \/ \A c \in DOMAIN ebuf : ebuf[c].pos <= EVENT_LOG_SIZE

\* "so that child won't inherit dirty file buffers" (forkProcess): the child writes
\* nothing to the log of its parent.
ForkClean == leaked = <<>>

LogSound == LogReadable /\ LogFits /\ ForkClean
=============================================================================

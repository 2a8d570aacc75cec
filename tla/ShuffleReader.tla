---------------------------- MODULE ShuffleReader ----------------------------
(***************************************************************************)
(* The read side of a shuffle: CometBlockStoreShuffleReader iterates over  *)
(* the fetched streams and decodes each with a NativeBatchDecoderIterator. *)
(* The consumer is the plan of the reduce task; the task may end at any    *)
(* point, and then runs the completion listeners.                          *)
(*                                                                         *)
(* A decoded batch is named by its stream and position.                    *)
(***************************************************************************)
EXTENDS ShuffleBlocks, FiniteSets

VARIABLES
    streams,    \* fetched streams, each a sequence of cells
    current,    \* index of currentReadIterator, 0 before the first
    pos,        \* position of the current iterator in its stream
    fetched,    \* batch of the current iterator that hasNext has found
    handed,     \* currentBatch, the batch the consumer has
    closed,     \* iterators that are closed
    openBatches,\* batches decoded and not closed
    listeners,  \* iterators with a completion listener
    delivered,  \* rows the consumer received
    reader      \* "off", "reading", "exhausted", "corrupt", "ended"

readerVars == <<streams, current, pos, fetched, handed, closed, openBatches,
                listeners, delivered, reader>>

NoBatch == <<>>

ReaderInit ==
    /\ streams = <<>>
    /\ current = 0
    /\ pos = 0
    /\ fetched = NoBatch
    /\ handed = NoBatch
    /\ closed = {}
    /\ openBatches = {}
    /\ listeners = {}
    /\ delivered = <<>>
    /\ reader = "off"

(* read, over the streams that the fetcher returns *)
Read(fetchedStreams) ==
    /\ reader = "off"
    /\ streams' = fetchedStreams
    /\ reader' = "reading"
    /\ UNCHANGED <<current, pos, fetched, handed, closed, openBatches, listeners, delivered>>

-----------------------------------------------------------------------------
(* NativeBatchDecoderIterator.close; a second call does nothing, and a     *)
(* batch that was fetched and not taken is left open.                      *)
CloseIterators(S) ==
    /\ closed' = closed \cup S
    /\ handed' = NoBatch
    /\ openBatches' = openBatches \ {handed}

(* flatMap moves to the next stream.  The constructor's fetchNext returns  *)
(* at once because the channel does not exist yet.                         *)
NextStream ==
    /\ reader = "reading"
    /\ current = 0 \/ current \in closed
    /\ IF current < Len(streams)
         THEN /\ current' = current + 1
              /\ listeners' = listeners \cup {current + 1}
              /\ pos' = 0
              /\ UNCHANGED reader
         ELSE /\ reader' = "exhausted"
              /\ UNCHANGED <<current, listeners, pos>>
    /\ UNCHANGED <<streams, fetched, handed, closed, openBatches, delivered>>

(* Mutant: the previous batch is not released. *)
HasNextKeepsBatch ==
    /\ reader = "reading"
    /\ current > 0 /\ current \notin closed
    /\ fetched = NoBatch
    /\ LET r == FetchNext(streams[current], pos)
       IN  /\ pos' = r.pos
           /\ reader' = IF r.end = "corrupt" THEN "corrupt" ELSE reader
           /\ closed' = IF r.end = "eof" THEN closed \cup {current} ELSE closed
           /\ fetched' = IF r.end = "block" THEN <<current, pos>> ELSE NoBatch
           /\ handed' = NoBatch
           /\ openBatches' = openBatches \cup IF r.end = "block" THEN {<<current, pos>>} ELSE {}
    /\ UNCHANGED <<streams, current, listeners, delivered>>

(* hasNext of the current iterator, when it has to fetch *)
HasNext ==
    /\ reader = "reading"
    /\ current > 0 /\ current \notin closed
    /\ fetched = NoBatch
    /\ LET r == FetchNext(streams[current], pos)
       IN  /\ pos' = r.pos
           /\ reader' = IF r.end = "corrupt" THEN "corrupt" ELSE reader
           /\ closed' = IF r.end = "eof" THEN closed \cup {current} ELSE closed
           /\ fetched' = IF r.end = "block" THEN <<current, pos>> ELSE NoBatch
           /\ handed' = NoBatch
           /\ openBatches' = (openBatches \ {handed})
                               \cup IF r.end = "block" THEN {<<current, pos>>} ELSE {}
    /\ UNCHANGED <<streams, current, listeners, delivered>>

(* next of the current iterator *)
NextRows ==
    /\ reader = "reading"
    /\ fetched # NoBatch
    /\ handed' = fetched
    /\ fetched' = NoBatch
    /\ delivered' = delivered \o FetchNext(streams[fetched[1]], fetched[2]).rows
    /\ UNCHANGED <<streams, current, pos, closed, openBatches, listeners, reader>>

(* The task ends, normally or not, and the listeners close all iterators. *)
TaskEnds ==
    /\ reader \in {"reading", "exhausted", "corrupt"}
    /\ reader' = "ended"
    /\ CloseIterators(listeners \cup ({current} \ {0}))
    /\ UNCHANGED <<streams, current, pos, fetched, listeners, delivered>>

ReaderStep == NextStream \/ HasNext \/ NextRows \/ TaskEnds

-----------------------------------------------------------------------------
(* Properties *)

(* The consumer's batch stays open until it asks for the next one, at most *)
(* one more is decoded ahead, and once the task has ended every batch that *)
(* was handed out is closed.                                               *)
BatchesReleased ==
    /\ openBatches = {handed, fetched} \ {NoBatch}
    /\ reader = "ended" => handed = NoBatch /\ 1 .. current \subseteq closed

=============================================================================

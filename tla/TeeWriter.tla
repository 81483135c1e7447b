----------------------------- MODULE TeeWriter -----------------------------
(***************************************************************************)
(* The write multiplexer of internal/tee: Write, invoked by the goroutines *)
(* that pump the standard output and the standard error of a machine's     *)
(* process (local.go), Tee with the goroutine it starts, and its cancel    *)
(* function.                                                               *)
(*                                                                         *)
(* A sink stands for a call of Tee: its writer, its channel of capacity    *)
(* one and its goroutine.  A byte is <<w, i>>, the i-th that writer w      *)
(* wrote, so that loss, duplication and reordering can all be seen.        *)
(***************************************************************************)
EXTENDS Naturals, Sequences

CONSTANTS
    Writers,     \* goroutines that invoke Write
    Sinks,       \* invocations of Tee
    BufferSize,  \* bufferSize, in bytes
    Sizes,       \* the lengths a write may have
    MaxBytes     \* bound: bytes each writer writes

ASSUME TeeAssumption ==
    BufferSize \in Nat /\ MaxBytes \in Nat /\ Sizes \subseteq Nat

VARIABLES
    keys,       \* the sync.Map: the sinks whose channel is in it
    channel,    \* each sink's channel: a sequence of at most one buffer
    done,       \* the sinks whose done channel is closed
    sinkPc,     \* where each sink's goroutine is
    copying,    \* the buffer it copies to its writer
    delivered,  \* what that writer has been given
    writePc,    \* where each Write is
    todo,       \* the sinks its Range has yet to visit
    at,         \* the sink it visits
    held,       \* its local buf
    data,       \* p
    written     \* the bytes each writer has passed to Write so far

sinkVars == <<done, sinkPc, copying, delivered>>
writeVars == <<writePc, todo, at, held, data, written>>
vars == <<keys, channel, sinkVars, writeVars>>

Init ==
    /\ keys = {} /\ done = {}
    /\ channel = [s \in Sinks |-> <<>>]
    /\ sinkPc = [s \in Sinks |-> "off"]
    /\ copying = [s \in Sinks |-> <<>>]
    /\ delivered = [s \in Sinks |-> <<>>]
    /\ writePc = [w \in Writers |-> "idle"]
    /\ todo = [w \in Writers |-> {}]
    /\ at = [w \in Writers |-> CHOOSE s \in Sinks : TRUE]
    /\ held = [w \in Writers |-> <<>>]
    /\ data = [w \in Writers |-> <<>>]
    /\ written = [w \in Writers |-> 0]

-----------------------------------------------------------------------------
(* Tee, its goroutine and its cancel function.                             *)

\* A Range in progress may or may not come to see the channel that Tee stores.
Tee(s) ==
    /\ sinkPc[s] = "off"
    /\ keys' = keys \cup {s}
    /\ \E W \in SUBSET {w \in Writers : writePc[w] # "idle"} :
          todo' = [w \in Writers |-> IF w \in W THEN todo[w] \cup {s} ELSE todo[w]]
    /\ sinkPc' = [sinkPc EXCEPT ![s] = "select"]
    /\ UNCHANGED <<channel, done, copying, delivered, writePc, at, held, data, written>>

\* Faulty variant: the channel stays in the map.
cancelKept(s) == keys' = keys /\ done' = done \cup {s}

\* once.Do: take the channel out of the map, close done.  In between, the goroutine
\* can only receive, which it also may once done is closed.
cancel(s) == keys' = keys \ {s} /\ done' = done \cup {s}

\* Whoever called Tee invokes the function it returned.
CancelCalled(s) ==
    /\ sinkPc[s] # "off" /\ s \notin done
    /\ cancel(s)
    /\ UNCHANGED <<channel, sinkPc, copying, delivered, writeVars>>

\* case <-done
SinkReturns(s) ==
    /\ sinkPc[s] = "select" /\ s \in done
    /\ sinkPc' = [sinkPc EXCEPT ![s] = "returned"]
    /\ UNCHANGED <<keys, channel, done, copying, delivered, writeVars>>

\* case buf := <-c; select may choose it when done is closed as well.
SinkTakes(s) ==
    /\ sinkPc[s] = "select" /\ channel[s] # <<>>
    /\ copying' = [copying EXCEPT ![s] = Head(channel[s])]
    /\ channel' = [channel EXCEPT ![s] = <<>>]
    /\ sinkPc' = [sinkPc EXCEPT ![s] = "copy"]
    /\ UNCHANGED <<keys, done, delivered, writeVars>>

\* io.Copy returns: the writer has taken the whole buffer.
SinkCopied(s) ==
    /\ sinkPc[s] = "copy"
    /\ delivered' = [delivered EXCEPT ![s] = @ \o copying[s]]
    /\ copying' = [copying EXCEPT ![s] = <<>>]
    /\ sinkPc' = [sinkPc EXCEPT ![s] = "select"]
    /\ UNCHANGED <<keys, channel, done, writeVars>>

\* io.Copy fails: the writer has taken a part of it.
SinkFails(s) ==
    /\ sinkPc[s] = "copy"
    /\ \E n \in 0 .. Len(copying[s]) :
          delivered' = [delivered EXCEPT ![s] = @ \o SubSeq(copying[s], 1, n)]
    /\ copying' = [copying EXCEPT ![s] = <<>>]
    /\ cancel(s)
    /\ sinkPc' = [sinkPc EXCEPT ![s] = "returned"]
    /\ UNCHANGED <<channel, writeVars>>

-----------------------------------------------------------------------------
(* Write.                                                                  *)

BeginWrite(w, n) ==
    /\ writePc[w] = "idle" /\ written[w] + n <= MaxBytes
    /\ data' = [data EXCEPT ![w] = [i \in 1 .. n |-> <<w, written[w] + i>>]]
    /\ written' = [written EXCEPT ![w] = @ + n]
    /\ todo' = [todo EXCEPT ![w] = keys]
    /\ writePc' = [writePc EXCEPT ![w] = "range"]
    /\ UNCHANGED <<keys, channel, sinkVars, at, held>>

\* Faulty variants: the new bytes are dropped, or all of the old ones.
appendDropNew(buf, p) == IF Len(buf) + Len(p) > BufferSize THEN buf ELSE buf \o p
appendReset(buf, p) == IF Len(buf) + Len(p) > BufferSize THEN p ELSE buf \o p

\* Make room by dropping the oldest bytes, then append; buf.Next drops no more
\* than there is.
append(buf, p) ==
    LET n == Len(buf) + Len(p) - BufferSize
    IN  IF Len(buf) + Len(p) <= BufferSize THEN buf \o p
        ELSE SubSeq(buf, n + 1, Len(buf)) \o p

\* Faulty variant: the buffer the channel holds is left in it.
TakeNew(w, s) ==
    /\ writePc[w] = "range" /\ s \in todo[w]
    /\ held' = [held EXCEPT ![w] = append(<<>>, data[w])]
    /\ at' = [at EXCEPT ![w] = s]
    /\ todo' = [todo EXCEPT ![w] = @ \ {s}]
    /\ writePc' = [writePc EXCEPT ![w] = "send"]
    /\ UNCHANGED <<keys, channel, sinkVars, data, written>>

\* Range visits the channel of s: receive the buffer it holds, or make one.
\* The channel may have been deleted from the map since Range began.
Take(w, s) ==
    /\ writePc[w] = "range" /\ s \in todo[w]
    /\ held' = [held EXCEPT ![w] =
                   append(IF channel[s] = <<>> THEN <<>> ELSE Head(channel[s]), data[w])]
    /\ channel' = [channel EXCEPT ![s] = <<>>]
    /\ at' = [at EXCEPT ![w] = s]
    /\ todo' = [todo EXCEPT ![w] = @ \ {s}]
    /\ writePc' = [writePc EXCEPT ![w] = "send"]
    /\ UNCHANGED <<keys, sinkVars, data, written>>

\* c <- buf, which blocks while the channel is full.
Send(w) ==
    /\ writePc[w] = "send" /\ channel[at[w]] = <<>>
    /\ channel' = [channel EXCEPT ![at[w]] = <<held[w]>>]
    /\ held' = [held EXCEPT ![w] = <<>>]
    /\ writePc' = [writePc EXCEPT ![w] = "range"]
    /\ UNCHANGED <<keys, sinkVars, todo, at, data, written>>

\* Range has visited the channels that are still in the map; it may pass over
\* the ones that are not.
EndWrite(w) ==
    /\ writePc[w] = "range" /\ todo[w] \cap keys = {}
    /\ todo' = [todo EXCEPT ![w] = {}]
    /\ data' = [data EXCEPT ![w] = <<>>]
    /\ writePc' = [writePc EXCEPT ![w] = "idle"]
    /\ UNCHANGED <<keys, channel, sinkVars, at, held, written>>

-----------------------------------------------------------------------------
SinkGoroutine(s) == SinkReturns(s) \/ SinkTakes(s)
WriteSteps(w) == Send(w) \/ EndWrite(w) \/ \E s \in Sinks : Take(w, s)

Next ==
    \/ \E s \in Sinks :
          Tee(s) \/ CancelCalled(s) \/ SinkGoroutine(s) \/ SinkCopied(s) \/ SinkFails(s)
    \/ \E w \in Writers : WriteSteps(w) \/ \E n \in Sizes : BeginWrite(w, n)

Spec == Init /\ [][Next]_vars

\* The goroutines run; the sinks' own writers may block for ever.
Fairness ==
    /\ \A s \in Sinks : WF_vars(SinkGoroutine(s))
    /\ \A w \in Writers : WF_vars(WriteSteps(w))

FairSpec == Spec /\ Fairness

\* The writer that a sink forwards to keeps taking what it is given.
SinksKeepUp == \A s \in Sinks : WF_vars(SinkCopied(s) \/ SinkFails(s))

-----------------------------------------------------------------------------
(* Properties.                                                             *)

\* What a Write holds for s, in whatever order the writers will send it.
HeldFor(s, w) == IF writePc[w] = "send" /\ at[w] = s THEN held[w] ELSE <<>>
Buffered(s) == IF channel[s] = <<>> THEN <<>> ELSE Head(channel[s])

\* What is on its way to s, oldest first, when there is one writer.
Stream(s) ==
    LET w == CHOOSE v \in Writers : TRUE
    IN  delivered[s] \o copying[s] \o Buffered(s) \o HeldFor(s, w)

\* "writes are dropped if the writer wr cannot keep up with the write volume"
\* (Tee), and only then: a single writer's bytes reach each sink in order and at
\* most once, and where the stream to a sink has a gap, the bytes after it fill
\* a buffer.
DropsOnlyWhenFull ==
    \A s \in Sinks : \A i \in 1 .. Len(Stream(s)) - 1 :
        /\ Stream(s)[i + 1][2] > Stream(s)[i][2]
        /\ s \notin done /\ Stream(s)[i + 1][2] # Stream(s)[i][2] + 1
              => Len(Stream(s)) - i >= BufferSize

\* The bytes given to s or on their way to it.
BytesOf(q) == {q[i] : i \in 1 .. Len(q)}
EnRoute(s) ==
    BytesOf(delivered[s]) \cup BytesOf(copying[s]) \cup BytesOf(Buffered(s))
        \cup UNION {BytesOf(HeldFor(s, w)) : w \in Writers}

\* "forwarding stops after the return cancelation function is invoked" (Tee): a
\* byte passed to Write after that never comes near the sink.  One of a Write
\* that was in progress still may: Range can have loaded the channel already.
ForwardingStops ==
    \A s \in Sinks : \A w \in Writers : \A i \in 1 .. MaxBytes :
        [](s \in done /\ written[w] < i => [](<<w, i>> \notin EnRoute(s)))

\* "Write is asynchronous" (Write): it returns whatever its sinks do, blocked,
\* canceled or failed.
WriteReturns == \A w \in Writers : writePc[w] # "idle" ~> writePc[w] = "idle"

\* The end of the output is not left behind: if it is the oldest bytes that are
\* dropped, the last byte of a single writer is delivered by a sink that keeps
\* taking what it is given, unless the sink is canceled or another write follows.
LastByteDelivered ==
    SinksKeepUp => \A w \in Writers : \A s \in Sinks : \A i \in 1 .. MaxBytes :
        (writePc[w] = "send" /\ at[w] = s /\ written[w] = i)
            ~> (s \in done \/ written[w] > i \/ <<w, i>> \in BytesOf(delivered[s]))

=============================================================================

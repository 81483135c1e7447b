----------------------------- MODULE TeeProofs -----------------------------
(***************************************************************************)
(* Proofs about TeeWriter, for any buffer, sinks and writes.               *)
(***************************************************************************)
EXTENDS TeeWriter, TLAPS

\* The prover of the leaves that name none.
USE ZenonT(60)

Bytes == Writers \X Nat
Buffers == Seq(Bytes)
Channels == {<<>>} \cup {<<b>> : b \in Buffers}

TypeOK ==
    /\ keys \in SUBSET Sinks /\ done \in SUBSET Sinks
    /\ channel \in [Sinks -> Channels]
    /\ sinkPc \in [Sinks -> {"off", "select", "copy", "returned"}]
    /\ copying \in [Sinks -> Buffers] /\ delivered \in [Sinks -> Buffers]
    /\ writePc \in [Writers -> {"idle", "range", "send"}]
    /\ todo \in [Writers -> SUBSET Sinks]
    /\ at \in [Writers -> Sinks \cup {CHOOSE s \in Sinks : TRUE}]
    /\ held \in [Writers -> Buffers] /\ data \in [Writers -> Buffers]
    /\ written \in [Writers -> Nat]

\* A sink has nothing before Tee; after it, its channel is in the map until it
\* is canceled.  A buffer is copied only by a goroutine that copies, and Range
\* has sinks to visit, and a buffer for one of them, only in Write.
SinkInv(s) ==
    /\ sinkPc[s] = "off" =>
           /\ s \notin keys /\ s \notin done
           /\ channel[s] = <<>> /\ delivered[s] = <<>>
           /\ \A w \in Writers : s \notin todo[w] /\ ~(writePc[w] = "send" /\ at[w] = s)
    /\ sinkPc[s] # "off" => (s \in keys <=> s \notin done)
    /\ sinkPc[s] # "copy" => copying[s] = <<>>

\* The bytes that are being written are the last ones.
WriteInv(w) ==
    /\ writePc[w] = "idle" => todo[w] = {}
    /\ writePc[w] = "send" => at[w] \in Sinks
    /\ Len(data[w]) <= written[w]
    /\ \A i \in 1 .. Len(data[w]) : data[w][i] = <<w, (written[w] - Len(data[w])) + i>>

TeeInv ==
    /\ TypeOK
    /\ \A s \in Sinks : SinkInv(s)
    /\ \A w \in Writers : WriteInv(w)

-----------------------------------------------------------------------------
(* Buffers.                                                                *)

LEMMA Cat ==
    ASSUME NEW p \in Buffers, NEW q \in Buffers
    PROVE  /\ p \o q \in Buffers /\ Len(p \o q) = Len(p) + Len(q)
           /\ \A i \in 1 .. Len(p) : (p \o q)[i] = p[i]
           /\ \A i \in Len(p) + 1 .. Len(p) + Len(q) : (p \o q)[i] = q[i - Len(p)]
  BY SMTT(30) DEF Buffers

LEMMA Elements ==
    ASSUME NEW q \in Buffers
    PROVE  /\ Len(q) \in Nat /\ DOMAIN q = 1 .. Len(q)
           /\ \A i \in 1 .. Len(q) : q[i] \in Bytes /\ q[i][2] \in Nat
  BY SMTT(30) DEF Buffers, Bytes

LEMMA Empty == <<>> \in Buffers /\ Len(<<>>) = 0
  BY SMTT(30) DEF Buffers

\* What is left of q after its first k.
LEMMA Rest ==
    ASSUME NEW q \in Buffers, NEW k \in Nat
    PROVE  LET r == SubSeq(q, k + 1, Len(q))
           IN  /\ r \in Buffers
               /\ Len(r) = IF k <= Len(q) THEN Len(q) - k ELSE 0
               /\ \A i \in 1 .. Len(r) : r[i] = q[i + k]
<1>1. Len(q) \in Nat /\ DOMAIN q = 1 .. Len(q)
  BY Elements
<1>2. CASE k < Len(q)
  BY <1>1, <1>2, SMTT(30) DEF Buffers
<1>3. CASE k >= Len(q)
  <2>1. SubSeq(q, k + 1, Len(q)) = <<>>
    BY <1>1, <1>3, SMTT(30) DEF Buffers
  <2>2. k <= Len(q) => Len(q) - k = 0
    <3>1. Len(q) \in Nat
      BY <1>1
    <3>2. k >= Len(q)
      BY <1>3
    <3> QED
      BY <3>1, <3>2, SMTT(30)
  <2>3. Len(SubSeq(q, k + 1, Len(q))) = 0 /\ SubSeq(q, k + 1, Len(q)) \in Buffers
    BY <2>1, Empty
  <2>4. \A i \in 1 .. 0 : FALSE
    BY SMTT(30)
  <2> QED
    BY <2>2, <2>3, <2>4
<1> QED
  BY <1>1, <1>2, <1>3, SMTT(30)

\* The first n of q.
LEMMA First ==
    ASSUME NEW q \in Buffers, NEW n \in 0 .. Len(q)
    PROVE  /\ SubSeq(q, 1, n) \in Buffers /\ Len(SubSeq(q, 1, n)) = n
           /\ \A i \in 1 .. n : SubSeq(q, 1, n)[i] = q[i]
<1>1. Len(q) \in Nat
  BY Elements
<1>2. CASE n = 0
  BY <1>1, <1>2, SMTT(30) DEF Buffers
<1>3. CASE n # 0
  BY <1>1, <1>3, SMTT(30) DEF Buffers
<1> QED
  BY <1>2, <1>3

\* append drops the first k of buf; if any, what it returns fills a buffer.
LEMMA AppendDrops ==
    ASSUME NEW buf \in Buffers, NEW p \in Buffers
    PROVE  \E k \in 0 .. Len(buf) :
              /\ append(buf, p) \in Buffers
              /\ Len(append(buf, p)) = (Len(buf) - k) + Len(p)
              /\ k > 0 => Len(append(buf, p)) >= BufferSize
              /\ \A i \in 1 .. Len(buf) - k : append(buf, p)[i] = buf[i + k]
              /\ \A i \in (Len(buf) - k) + 1 .. (Len(buf) - k) + Len(p) :
                    append(buf, p)[i] = p[i - (Len(buf) - k)]
<1>1. Len(buf) \in Nat /\ Len(p) \in Nat /\ BufferSize \in Nat
  BY Elements, TeeAssumption
<1>2. CASE Len(buf) + Len(p) <= BufferSize
  <2>1. append(buf, p) = buf \o p
    BY <1>1, <1>2 DEF append
  <2>2. /\ buf \o p \in Buffers /\ Len(buf \o p) = Len(buf) + Len(p)
        /\ \A i \in 1 .. Len(buf) : (buf \o p)[i] = buf[i]
        /\ \A i \in Len(buf) + 1 .. Len(buf) + Len(p) : (buf \o p)[i] = p[i - Len(buf)]
    BY Cat
  <2>3. 0 \in 0 .. Len(buf) /\ Len(buf) - 0 = Len(buf) /\ \A i \in 1 .. Len(buf) : i + 0 = i
    BY <1>1, SMTT(30)
  <2> QED
    BY <2>1, <2>2, <2>3, SMTT(30)
<1>3. CASE ~(Len(buf) + Len(p) <= BufferSize)
  <2> DEFINE n == Len(buf) + Len(p) - BufferSize
             r == SubSeq(buf, n + 1, Len(buf))
             k == Len(buf) - Len(r)
  <2>1. append(buf, p) = r \o p
    BY <1>1, <1>3 DEF append
  <2>2. n \in Nat /\ n > 0
    BY <1>1, <1>3, SMTT(30)
  <2>3. /\ r \in Buffers /\ Len(r) = IF n <= Len(buf) THEN Len(buf) - n ELSE 0
        /\ \A i \in 1 .. Len(r) : r[i] = buf[i + n]
    BY <2>2, Rest
  <2>4. /\ r \o p \in Buffers /\ Len(r \o p) = Len(r) + Len(p)
        /\ \A i \in 1 .. Len(r) : (r \o p)[i] = r[i]
        /\ \A i \in Len(r) + 1 .. Len(r) + Len(p) : (r \o p)[i] = p[i - Len(r)]
    BY <2>3, Cat
  <2>5. k \in 0 .. Len(buf) /\ Len(buf) - k = Len(r) /\ Len(r) + Len(p) >= BufferSize
    BY <1>1, <1>3, <2>2, <2>3, SMTT(30)
  <2>6. \A i \in 1 .. Len(r) : r[i] = buf[i + k]
    <3>1. CASE n <= Len(buf)
      <4>1. k = n
        <5>1. Len(r) = Len(buf) - n
          BY <2>3, <3>1
        <5> HIDE DEF n, r
        <5> QED
          BY <1>1, <2>2, <5>1, SMTT(30)
      <4> QED
        BY <2>3, <4>1
    <3>2. CASE ~(n <= Len(buf))
      BY <1>1, <2>2, <2>3, <3>2, SMTT(30)
    <3> QED
      BY <3>1, <3>2
  <2> HIDE DEF n, r, k
  <2> QED
    BY <2>1, <2>4, <2>5, <2>6
<1> QED
  BY <1>2, <1>3

-----------------------------------------------------------------------------
(* The types, and where sinks and writes are.                              *)

\* The channel of s is empty or has the buffer Buffered(s).
LEMMA HasBuffer ==
    ASSUME TypeOK, NEW s \in Sinks
    PROVE  /\ Buffered(s) \in Buffers
           /\ channel[s] # <<>> => channel[s] = <<Buffered(s)>> /\ Head(channel[s]) = Buffered(s)
           /\ channel[s] = <<>> => Buffered(s) = <<>>
<1>1. channel[s] \in Channels
  BY DEF TypeOK
<1>2. CASE channel[s] = <<>>
  BY <1>2, Empty DEF Buffered
<1>3. CASE channel[s] # <<>>
  <2>1. PICK b \in Buffers : channel[s] = <<b>>
    BY <1>1, <1>3 DEF Channels
  <2> QED
    BY <1>3, <2>1, SMTT(30) DEF Buffered
<1> QED
  BY <1>2, <1>3

\* The bytes of a write.
LEMMA Written ==
    ASSUME NEW w \in Writers, NEW n \in Sizes, NEW k \in Nat
    PROVE  LET p == [i \in 1 .. n |-> <<w, k + i>>]
           IN  p \in Buffers /\ Len(p) = n /\ \A i \in 1 .. n : p[i] = <<w, k + i>>
<1>1. n \in Nat
  BY TeeAssumption
<1> QED
  BY <1>1, SMTT(30) DEF Buffers, Bytes

LEMMA Begun ==
    ASSUME TypeOK, NEW w \in Writers, NEW n \in Sizes, BeginWrite(w, n)
    PROVE  /\ n \in Nat /\ written'[w] = written[w] + n /\ Len(data'[w]) = n
           /\ \A i \in 1 .. n : data'[w][i] = <<w, written[w] + i>>
<1>1. n \in Nat /\ written[w] \in Nat
  BY TeeAssumption DEF TypeOK
<1>2. data'[w] = [i \in 1 .. n |-> <<w, written[w] + i>>] /\ written'[w] = written[w] + n
  BY DEF BeginWrite, TypeOK
<1> QED
  BY <1>1, <1>2, Written, SMTT(30)

LEMMA TypeStep == ASSUME TeeInv, [Next]_vars PROVE TypeOK'
<1>0. TypeOK /\ \A w \in Writers : WriteInv(w)
  BY DEF TeeInv
<1> DEFINE Sink == keys' \in SUBSET Sinks /\ done' \in SUBSET Sinks
           Pc == sinkPc' \in [Sinks -> {"off", "select", "copy", "returned"}]
<1>1. ASSUME NEW s \in Sinks, Tee(s) PROVE TypeOK'
  <2>1. todo' \in [Writers -> SUBSET Sinks]
    BY <1>0, <1>1, SMTT(30) DEF TypeOK, Tee
  <2>2. Sink /\ Pc
    BY <1>0, <1>1 DEF TypeOK, Tee
  <2> QED
    BY <1>0, <1>1, <2>1, <2>2 DEF TypeOK, Tee
<1>2. ASSUME NEW s \in Sinks, CancelCalled(s) PROVE TypeOK'
  BY <1>0, <1>2 DEF TypeOK, CancelCalled, cancel, writeVars
<1>3. ASSUME NEW s \in Sinks, SinkReturns(s) PROVE TypeOK'
  BY <1>0, <1>3 DEF TypeOK, SinkReturns, writeVars
<1>4. ASSUME NEW s \in Sinks, SinkTakes(s) PROVE TypeOK'
  <2>1. Head(channel[s]) \in Buffers /\ <<>> \in Channels
    BY <1>0, <1>4, HasBuffer DEF SinkTakes, Channels
  <2> QED
    BY <1>0, <1>4, <2>1 DEF TypeOK, SinkTakes, writeVars
<1>5. ASSUME NEW s \in Sinks, SinkCopied(s) PROVE TypeOK'
  <2>1. delivered[s] \o copying[s] \in Buffers /\ <<>> \in Buffers
    BY <1>0, Cat, Empty, SMTT(30) DEF TypeOK
  <2> QED
    BY <1>0, <1>5, <2>1 DEF TypeOK, SinkCopied, writeVars
<1>6. ASSUME NEW s \in Sinks, SinkFails(s) PROVE TypeOK'
  <2>1. PICK n \in 0 .. Len(copying[s]) :
           delivered' = [delivered EXCEPT ![s] = @ \o SubSeq(copying[s], 1, n)]
    BY <1>6 DEF SinkFails
  <2>2. delivered[s] \o SubSeq(copying[s], 1, n) \in Buffers /\ <<>> \in Buffers
    BY <1>0, First, Cat, Empty, SMTT(30) DEF TypeOK
  <2>3. delivered' \in [Sinks -> Buffers]
    BY <1>0, <2>1, <2>2 DEF TypeOK
  <2> QED
    BY <1>0, <1>6, <2>2, <2>3 DEF TypeOK, SinkFails, cancel, writeVars
<1>7. ASSUME NEW w \in Writers, NEW n \in Sizes, BeginWrite(w, n) PROVE TypeOK'
  <2>1. written[w] \in Nat /\ n \in Nat
    BY <1>0, TeeAssumption DEF TypeOK
  <2>2. [i \in 1 .. n |-> <<w, written[w] + i>>] \in Buffers
    BY <2>1, Written
  <2>3. data' \in [Writers -> Buffers]
    BY <1>0, <1>7, <2>2 DEF TypeOK, BeginWrite
  <2>4. written' \in [Writers -> Nat] /\ todo' \in [Writers -> SUBSET Sinks]
    BY <1>0, <1>7, <2>1, SMTT(30) DEF TypeOK, BeginWrite
  <2>5. writePc' \in [Writers -> {"idle", "range", "send"}]
    BY <1>0, <1>7 DEF TypeOK, BeginWrite
  <2> QED
    BY <1>0, <1>7, <2>3, <2>4, <2>5 DEF TypeOK, BeginWrite, sinkVars
<1>8. ASSUME NEW w \in Writers, NEW s \in Sinks, Take(w, s) PROVE TypeOK'
  <2>1. held' = [held EXCEPT ![w] = append(Buffered(s), data[w])]
    BY <1>8 DEF Take, Buffered
  <2>2. append(Buffered(s), data[w]) \in Buffers
    BY <1>0, HasBuffer, AppendDrops, SMTT(30) DEF TypeOK
  <2>3. held' \in [Writers -> Buffers]
    BY <1>0, <2>1, <2>2 DEF TypeOK
  <2>4. channel' \in [Sinks -> Channels]
    BY <1>0, <1>8 DEF TypeOK, Take, Channels
  <2>5. /\ at' \in [Writers -> Sinks \cup {CHOOSE t \in Sinks : TRUE}]
        /\ todo' \in [Writers -> SUBSET Sinks]
        /\ writePc' \in [Writers -> {"idle", "range", "send"}]
    BY <1>0, <1>8 DEF TypeOK, Take
  <2> QED
    BY <1>0, <1>8, <2>3, <2>4, <2>5 DEF TypeOK, Take, sinkVars
<1>9. ASSUME NEW w \in Writers, Send(w) PROVE TypeOK'
  <2>1. at[w] \in Sinks /\ <<held[w]>> \in Channels /\ <<>> \in Buffers
    BY <1>0, <1>9, Empty DEF TypeOK, WriteInv, Send, Channels
  <2>2. channel' \in [Sinks -> Channels]
    BY <1>0, <1>9, <2>1 DEF TypeOK, Send
  <2> QED
    BY <1>0, <1>9, <2>1, <2>2 DEF TypeOK, Send, sinkVars
<1>10. ASSUME NEW w \in Writers, EndWrite(w) PROVE TypeOK'
  BY <1>0, <1>10, Empty DEF TypeOK, EndWrite, sinkVars
<1>11. ASSUME UNCHANGED vars PROVE TypeOK'
  BY <1>0, <1>11 DEF TypeOK, vars, sinkVars, writeVars
<1> QED
  BY <1>1, <1>2, <1>3, <1>4, <1>5, <1>6, <1>7, <1>8, <1>9, <1>10, <1>11
     DEF Next, SinkGoroutine, WriteSteps

\* What the steps of sink s and of writer w leave alone.
LEMMA SinkStep == ASSUME TeeInv, [Next]_vars PROVE \A t \in Sinks : SinkInv(t)'
<1> SUFFICES ASSUME NEW t \in Sinks PROVE SinkInv(t)'
  OBVIOUS
<1>0. TypeOK /\ SinkInv(t) /\ \A w \in Writers : WriteInv(w)
  BY DEF TeeInv
<1>1. ASSUME NEW s \in Sinks, Tee(s) PROVE SinkInv(t)'
  <2>1. \A w \in Writers : s # t => (t \in todo'[w] <=> t \in todo[w])
    BY <1>0, <1>1, SMTT(30) DEF Tee, TypeOK
  <2>2. sinkPc'[s] = "select" /\ (s # t => sinkPc'[t] = sinkPc[t])
    BY <1>0, <1>1 DEF Tee, TypeOK
  <2>3. keys' = keys \cup {s} /\ UNCHANGED <<channel, done, copying, delivered, writePc, at>>
    BY <1>1 DEF Tee
  <2>4. CASE s = t
    BY <1>0, <1>1, <2>2, <2>3, <2>4 DEF SinkInv, Tee
  <2>5. CASE s # t
    BY <1>0, <2>1, <2>2, <2>3, <2>5 DEF SinkInv
  <2> QED
    BY <2>4, <2>5
<1>2. ASSUME NEW s \in Sinks, CancelCalled(s) PROVE SinkInv(t)'
  BY <1>0, <1>2 DEF SinkInv, CancelCalled, cancel, writeVars
<1>3. ASSUME NEW s \in Sinks, SinkReturns(s) PROVE SinkInv(t)'
  <2>1. sinkPc'[s] = "returned" /\ (s # t => sinkPc'[t] = sinkPc[t])
    BY <1>0, <1>3 DEF SinkReturns, TypeOK
  <2> QED
    BY <1>0, <1>3, <2>1 DEF SinkInv, SinkReturns, writeVars
<1>4. ASSUME NEW s \in Sinks, SinkTakes(s) PROVE SinkInv(t)'
  <2>1. /\ sinkPc'[s] = "copy"
        /\ s # t => sinkPc'[t] = sinkPc[t] /\ channel'[t] = channel[t] /\ copying'[t] = copying[t]
    BY <1>0, <1>4 DEF SinkTakes, TypeOK
  <2>2. sinkPc[s] = "select" /\ UNCHANGED <<keys, done, delivered, todo, writePc, at>>
    BY <1>4 DEF SinkTakes, writeVars
  <2> QED
    BY <1>0, <2>1, <2>2 DEF SinkInv
<1>5. ASSUME NEW s \in Sinks, SinkCopied(s) PROVE SinkInv(t)'
  <2>1. /\ sinkPc'[s] = "select" /\ copying'[s] = <<>>
        /\ s # t => sinkPc'[t] = sinkPc[t] /\ delivered'[t] = delivered[t] /\ copying'[t] = copying[t]
    BY <1>0, <1>5 DEF SinkCopied, TypeOK
  <2>2. sinkPc[s] = "copy" /\ UNCHANGED <<keys, channel, done, todo, writePc, at>>
    BY <1>5 DEF SinkCopied, writeVars
  <2> QED
    BY <1>0, <2>1, <2>2 DEF SinkInv
<1>6. ASSUME NEW s \in Sinks, SinkFails(s) PROVE SinkInv(t)'
  <2>1. /\ sinkPc'[s] = "returned" /\ copying'[s] = <<>>
        /\ s # t => sinkPc'[t] = sinkPc[t] /\ delivered'[t] = delivered[t] /\ copying'[t] = copying[t]
    BY <1>0, <1>6, SMTT(30) DEF SinkFails, TypeOK
  <2>2. /\ sinkPc[s] = "copy" /\ UNCHANGED <<channel, todo, writePc, at>>
        /\ keys' = keys \ {s} /\ done' = done \cup {s}
    BY <1>6 DEF SinkFails, cancel, writeVars
  <2> QED
    BY <1>0, <2>1, <2>2 DEF SinkInv
<1>7. ASSUME NEW w \in Writers, NEW n \in Sizes, BeginWrite(w, n) PROVE SinkInv(t)'
  <2>1. UNCHANGED <<keys, channel, done, sinkPc, copying, delivered, at>>
    BY <1>7 DEF BeginWrite, sinkVars
  <2>2. /\ writePc'[w] = "range" /\ todo'[w] = keys
        /\ \A v \in Writers \ {w} : writePc'[v] = writePc[v] /\ todo'[v] = todo[v]
    BY <1>0, <1>7 DEF BeginWrite, TypeOK
  <2> QED
    BY <1>0, <2>1, <2>2 DEF SinkInv
<1>8. ASSUME NEW w \in Writers, NEW s \in Sinks, Take(w, s) PROVE SinkInv(t)'
  <2>1. UNCHANGED <<keys, done, sinkPc, copying, delivered>> /\ s \in todo[w]
    BY <1>8 DEF Take, sinkVars
  <2>2. /\ at'[w] = s /\ todo'[w] = todo[w] \ {s} /\ (s # t => channel'[t] = channel[t])
        /\ channel'[s] = <<>>
        /\ \A v \in Writers \ {w} : writePc'[v] = writePc[v] /\ todo'[v] = todo[v] /\ at'[v] = at[v]
    BY <1>0, <1>8 DEF Take, TypeOK
  <2> QED
    BY <1>0, <2>1, <2>2, SMTT(30) DEF SinkInv
<1>9. ASSUME NEW w \in Writers, Send(w) PROVE SinkInv(t)'
  <2>1. UNCHANGED <<keys, done, sinkPc, copying, delivered, todo, at>> /\ writePc[w] = "send"
    BY <1>9 DEF Send, sinkVars
  <2>2. /\ at[w] # t => channel'[t] = channel[t]
        /\ writePc'[w] = "range" /\ \A v \in Writers \ {w} : writePc'[v] = writePc[v]
    BY <1>0, <1>9 DEF Send, TypeOK
  <2> QED
    BY <1>0, <2>1, <2>2 DEF SinkInv
<1>10. ASSUME NEW w \in Writers, EndWrite(w) PROVE SinkInv(t)'
  <2>1. UNCHANGED <<keys, channel, done, sinkPc, copying, delivered, at>>
    BY <1>10 DEF EndWrite, sinkVars
  <2>2. /\ writePc'[w] = "idle" /\ todo'[w] = {}
        /\ \A v \in Writers \ {w} : writePc'[v] = writePc[v] /\ todo'[v] = todo[v]
    BY <1>0, <1>10 DEF EndWrite, TypeOK
  <2> QED
    BY <1>0, <2>1, <2>2 DEF SinkInv
<1>11. ASSUME UNCHANGED vars PROVE SinkInv(t)'
  BY <1>0, <1>11 DEF SinkInv, vars, sinkVars, writeVars
<1> QED
  BY <1>1, <1>2, <1>3, <1>4, <1>5, <1>6, <1>7, <1>8, <1>9, <1>10, <1>11
     DEF Next, SinkGoroutine, WriteSteps

LEMMA WriteStep == ASSUME TeeInv, [Next]_vars PROVE \A v \in Writers : WriteInv(v)'
<1> SUFFICES ASSUME NEW v \in Writers PROVE WriteInv(v)'
  OBVIOUS
<1>0. TypeOK /\ WriteInv(v)
  BY DEF TeeInv
<1>1. ASSUME NEW s \in Sinks, Tee(s) PROVE WriteInv(v)'
  <2>1. writePc[v] = "idle" => todo'[v] = todo[v]
    BY <1>0, <1>1 DEF Tee, TypeOK
  <2> QED
    BY <1>0, <1>1, <2>1 DEF WriteInv, Tee
<1>2. CASE \E s \in Sinks :
             CancelCalled(s) \/ SinkReturns(s) \/ SinkTakes(s) \/ SinkCopied(s) \/ SinkFails(s)
  <2>1. UNCHANGED writeVars
    BY <1>2 DEF CancelCalled, SinkReturns, SinkTakes, SinkCopied, SinkFails
  <2> QED
    BY <1>0, <2>1 DEF WriteInv, writeVars
<1>3. ASSUME NEW w \in Writers, NEW n \in Sizes, BeginWrite(w, n) PROVE WriteInv(v)'
  <2>1. CASE v # w
    BY <1>0, <1>3, <2>1 DEF WriteInv, BeginWrite, TypeOK
  <2>2. CASE v = w
    <3>1. n \in Nat /\ written[w] \in Nat /\ written'[w] = written[w] + n
      BY <1>0, <1>3, Begun DEF TypeOK
    <3>2. writePc'[w] = "range"
      BY <1>0, <1>3 DEF BeginWrite, TypeOK
    <3>3. Len(data'[w]) = n /\ \A i \in 1 .. n : data'[w][i] = <<w, written[w] + i>>
      BY <1>0, <1>3, Begun
    <3>4. Len(data'[w]) <= written'[w] /\ written'[w] - Len(data'[w]) = written[w]
      BY <3>1, <3>3, SMTT(30)
    <3> QED
      BY <2>2, <3>2, <3>3, <3>4 DEF WriteInv
  <2> QED
    BY <2>1, <2>2
<1>4. ASSUME NEW w \in Writers, NEW s \in Sinks, Take(w, s) PROVE WriteInv(v)'
  <2>1. /\ writePc'[w] = "send" /\ at'[w] = s /\ UNCHANGED <<data, written>>
        /\ v # w => writePc'[v] = writePc[v] /\ at'[v] = at[v] /\ todo'[v] = todo[v]
    BY <1>0, <1>4 DEF Take, TypeOK
  <2> QED
    BY <1>0, <2>1 DEF WriteInv
<1>5. ASSUME NEW w \in Writers, Send(w) PROVE WriteInv(v)'
  <2>1. /\ writePc'[w] = "range" /\ UNCHANGED <<data, written, at, todo>>
        /\ v # w => writePc'[v] = writePc[v]
    BY <1>0, <1>5 DEF Send, TypeOK
  <2> QED
    BY <1>0, <2>1 DEF WriteInv
<1>6. ASSUME NEW w \in Writers, EndWrite(w) PROVE WriteInv(v)'
  <2>1. /\ writePc'[w] = "idle" /\ todo'[w] = {} /\ data'[w] = <<>> /\ UNCHANGED <<written, at>>
        /\ v # w => writePc'[v] = writePc[v] /\ todo'[v] = todo[v] /\ data'[v] = data[v]
    BY <1>0, <1>6 DEF EndWrite, TypeOK
  <2>2. CASE v = w
    <3>1. Len(data'[v]) = 0 /\ written'[v] \in Nat
      BY <1>0, <2>1, <2>2, Empty DEF TypeOK
    <3> QED
      BY <2>1, <2>2, <3>1, SMTT(30) DEF WriteInv
  <2>3. CASE v # w
    BY <1>0, <2>1, <2>3 DEF WriteInv
  <2> QED
    BY <2>2, <2>3
<1>7. CASE UNCHANGED vars
  BY <1>0, <1>7 DEF WriteInv, vars, writeVars
<1> QED
  BY <1>1, <1>2, <1>3, <1>4, <1>5, <1>6, <1>7 DEF Next, SinkGoroutine, WriteSteps

LEMMA TeeInvInit == Init => TeeInv
<1> SUFFICES ASSUME Init PROVE TeeInv
  OBVIOUS
<1>1. TypeOK
  BY Empty DEF Init, TypeOK, Channels
<1>2. \A s \in Sinks : SinkInv(s)
  BY DEF Init, SinkInv
<1>3. \A w \in Writers : WriteInv(w)
  <2> SUFFICES ASSUME NEW w \in Writers PROVE WriteInv(w)
    OBVIOUS
  <2>1. Len(data[w]) = 0 /\ written[w] = 0 /\ writePc[w] = "idle" /\ todo[w] = {}
    BY Empty DEF Init
  <2> QED
    BY <2>1, SMTT(30) DEF WriteInv
<1> QED
  BY <1>1, <1>2, <1>3 DEF TeeInv

LEMMA TeeInvHolds == Spec => []TeeInv
<1>1. TeeInv /\ [Next]_vars => TeeInv'
  BY TypeStep, SinkStep, WriteStep DEF TeeInv
<1> QED
  BY <1>1, TeeInvInit, PTL DEF Spec

-----------------------------------------------------------------------------
(* What is on its way to a sink.                                           *)

\* The bytes of the writes that have yet to visit s.
Coming(s) == UNION {BytesOf(data[w]) : w \in {v \in Writers : s \in todo[v]}}

LEMMA BytesOfCat ==
    ASSUME NEW p \in Buffers, NEW q \in Buffers
    PROVE  BytesOf(p \o q) \subseteq BytesOf(p) \cup BytesOf(q)
<1> SUFFICES ASSUME NEW i \in 1 .. Len(p \o q) PROVE (p \o q)[i] \in BytesOf(p) \cup BytesOf(q)
  BY DEF BytesOf
<1>1. Len(p) \in Nat /\ Len(q) \in Nat /\ Len(p \o q) = Len(p) + Len(q)
  BY Elements, Cat
<1>2. CASE i \in 1 .. Len(p)
  BY <1>2, Cat, SMTT(30) DEF BytesOf
<1>3. CASE i \in Len(p) + 1 .. Len(p) + Len(q)
  <2>1. (p \o q)[i] = q[i - Len(p)]
    BY <1>3, Cat
  <2>2. i - Len(p) \in 1 .. Len(q)
    BY <1>1, <1>3, SMTT(30)
  <2> QED
    BY <2>1, <2>2 DEF BytesOf
<1> QED
  BY <1>1, <1>2, <1>3, SMTT(30)

LEMMA BytesOfFirst ==
    ASSUME NEW q \in Buffers, NEW n \in 0 .. Len(q)
    PROVE  BytesOf(SubSeq(q, 1, n)) \subseteq BytesOf(q)
<1>1. Len(q) \in Nat
  BY Elements
<1> QED
  BY <1>1, First, SMTT(30) DEF BytesOf

LEMMA BytesOfAppend ==
    ASSUME NEW buf \in Buffers, NEW p \in Buffers
    PROVE  BytesOf(append(buf, p)) \subseteq BytesOf(buf) \cup BytesOf(p)
<1> DEFINE a == append(buf, p)
<1>1. PICK k \in 0 .. Len(buf) :
          /\ Len(a) = (Len(buf) - k) + Len(p)
          /\ \A i \in 1 .. Len(buf) - k : a[i] = buf[i + k]
          /\ \A i \in (Len(buf) - k) + 1 .. (Len(buf) - k) + Len(p) : a[i] = p[i - (Len(buf) - k)]
  BY AppendDrops
<1> HIDE DEF a
<1> SUFFICES ASSUME NEW i \in 1 .. Len(a) PROVE a[i] \in BytesOf(buf) \cup BytesOf(p)
  BY DEF BytesOf, a
<1>2. Len(buf) \in Nat /\ Len(p) \in Nat
  BY Elements
<1>3. CASE i \in 1 .. Len(buf) - k
  <2>1. i + k \in 1 .. Len(buf)
    BY <1>2, <1>3, SMTT(30)
  <2> QED
    BY <1>1, <1>3, <2>1 DEF BytesOf
<1>4. CASE i \in (Len(buf) - k) + 1 .. (Len(buf) - k) + Len(p)
  <2>1. i - (Len(buf) - k) \in 1 .. Len(p)
    BY <1>2, <1>4, SMTT(30)
  <2> QED
    BY <1>1, <1>4, <2>1 DEF BytesOf
<1> QED
  BY <1>1, <1>2, <1>3, <1>4, SMTT(30)

LEMMA BytesOfNone == BytesOf(<<>>) = {}
<1>1. Len(<<>>) = 0
  BY Empty
<1> QED
  BY <1>1, SMTT(30) DEF BytesOf

\* No step brings a byte to s but a Write that visits it.
LEMMA RouteStep ==
    ASSUME TeeInv, [Next]_vars, NEW t \in Sinks
    PROVE  EnRoute(t)' \subseteq EnRoute(t) \cup Coming(t)
<1> DEFINE R == EnRoute(t) \cup Coming(t)
<1>0. TypeOK /\ \A w \in Writers : WriteInv(w)
  BY DEF TeeInv
<1>a. /\ BytesOf(delivered[t]) \subseteq R /\ BytesOf(copying[t]) \subseteq R
      /\ BytesOf(Buffered(t)) \subseteq R /\ \A w \in Writers : BytesOf(HeldFor(t, w)) \subseteq R
  BY DEF EnRoute
<1>b. BytesOf(<<>>) \subseteq R
  BY BytesOfNone
<1>c. \A w \in Writers : t \in todo[w] => BytesOf(data[w]) \subseteq R
  BY DEF Coming
<1>d. /\ delivered[t] \in Buffers /\ copying[t] \in Buffers /\ Buffered(t) \in Buffers
      /\ \A w \in Writers : data[w] \in Buffers
  BY <1>0, HasBuffer DEF TypeOK
<1> HIDE DEF R
<1> SUFFICES /\ BytesOf(delivered'[t]) \subseteq R /\ BytesOf(copying'[t]) \subseteq R
             /\ BytesOf(Buffered(t)') \subseteq R
             /\ \A w \in Writers : BytesOf(HeldFor(t, w)') \subseteq R
  BY SMTT(30) DEF EnRoute, BytesOf, R
<1> DEFINE Goal == /\ BytesOf(delivered'[t]) \subseteq R /\ BytesOf(copying'[t]) \subseteq R
                   /\ BytesOf(Buffered(t)') \subseteq R
                   /\ \A w \in Writers : BytesOf(HeldFor(t, w)') \subseteq R
<1>1. ASSUME UNCHANGED <<channel, copying, delivered, writePc, at, held>> PROVE Goal
  BY <1>a, <1>1 DEF Buffered, HeldFor
<1>2. ASSUME NEW s \in Sinks, SinkTakes(s) PROVE Goal
  <2>1. \A w \in Writers : HeldFor(t, w)' = HeldFor(t, w)
    BY <1>2 DEF SinkTakes, writeVars, HeldFor
  <2>2. CASE s = t
    <3>1. copying'[t] = Buffered(t) /\ channel'[t] = <<>> /\ delivered' = delivered
      BY <1>0, <1>2, <2>2, HasBuffer DEF SinkTakes, TypeOK
    <3> QED
      BY <1>a, <1>b, <2>1, <3>1 DEF Buffered
  <2>3. CASE s # t
    <3>1. copying'[t] = copying[t] /\ channel'[t] = channel[t] /\ delivered' = delivered
      BY <1>0, <1>2, <2>3 DEF SinkTakes, TypeOK
    <3> QED
      BY <1>a, <2>1, <3>1 DEF Buffered
  <2> QED
    BY <2>2, <2>3
<1>3. ASSUME NEW s \in Sinks, SinkCopied(s) \/ SinkFails(s) PROVE Goal
  <2>1. UNCHANGED <<channel, writePc, at, held>>
    BY <1>3 DEF SinkCopied, SinkFails, writeVars
  <2>2. BytesOf(Buffered(t)') \subseteq R /\ \A w \in Writers : BytesOf(HeldFor(t, w)') \subseteq R
    BY <1>a, <2>1 DEF Buffered, HeldFor
  <2>3. copying'[t] \in {copying[t], <<>>}
    BY <1>0, <1>3, SMTT(30) DEF SinkCopied, SinkFails, TypeOK
  <2>4. BytesOf(delivered'[t]) \subseteq R
    <3>1. CASE s # t
      <4>1. delivered'[t] = delivered[t]
        BY <1>0, <1>3, <3>1, SMTT(30) DEF SinkCopied, SinkFails, TypeOK
      <4> QED
        BY <1>a, <4>1
    <3>2. CASE s = t /\ SinkCopied(s)
      <4>1. delivered'[t] = delivered[t] \o copying[t]
        BY <1>0, <3>2 DEF SinkCopied, TypeOK
      <4> QED
        BY <1>a, <1>d, <4>1, BytesOfCat
    <3>3. CASE s = t /\ SinkFails(s)
      <4>1. PICK n \in 0 .. Len(copying[t]) :
               delivered' = [delivered EXCEPT ![t] = @ \o SubSeq(copying[t], 1, n)]
        BY <3>3 DEF SinkFails
      <4>2. delivered'[t] = delivered[t] \o SubSeq(copying[t], 1, n)
        BY <1>0, <4>1 DEF TypeOK
      <4>3. SubSeq(copying[t], 1, n) \in Buffers /\ BytesOf(SubSeq(copying[t], 1, n)) \subseteq R
        BY <1>a, <1>d, First, BytesOfFirst
      <4> QED
        BY <1>a, <1>d, <4>2, <4>3, BytesOfCat, SMTT(30)
    <3> QED
      BY <1>3, <3>1, <3>2, <3>3
  <2> QED
    BY <1>a, <1>b, <2>2, <2>3, <2>4
<1>4. ASSUME NEW w \in Writers, NEW s \in Sinks, Take(w, s) PROVE Goal
  <2>1. UNCHANGED <<copying, delivered>> /\ s \in todo[w]
    BY <1>4 DEF Take, sinkVars
  <2>2. /\ at'[w] = s /\ writePc'[w] = "send" /\ held'[w] = append(Buffered(s), data[w])
        /\ \A v \in Writers \ {w} : writePc'[v] = writePc[v] /\ at'[v] = at[v] /\ held'[v] = held[v]
        /\ channel'[t] = channel[t] \/ channel'[t] = <<>>
    BY <1>0, <1>4 DEF Take, Buffered, TypeOK
  <2>3. BytesOf(Buffered(t)') \subseteq R
    BY <1>a, <1>b, <2>2 DEF Buffered
  <2>4. \A v \in Writers \ {w} : BytesOf(HeldFor(t, v)') \subseteq R
    BY <1>a, <2>2 DEF HeldFor
  <2>5. BytesOf(HeldFor(t, w)') \subseteq R
    <3>1. CASE s = t
      <4>1. HeldFor(t, w)' = append(Buffered(t), data[w])
        BY <2>2, <3>1 DEF HeldFor
      <4> QED
        BY <1>a, <1>c, <1>d, <2>1, <3>1, <4>1, BytesOfAppend
    <3>2. CASE s # t
      BY <1>b, <2>2, <3>2 DEF HeldFor
    <3> QED
      BY <3>1, <3>2
  <2> QED
    BY <1>a, <2>1, <2>3, <2>4, <2>5
<1>5. ASSUME NEW w \in Writers, Send(w) PROVE Goal
  <2>1. UNCHANGED <<copying, delivered, at>> /\ writePc[w] = "send" /\ at[w] \in Sinks
    BY <1>0, <1>5 DEF Send, sinkVars, WriteInv
  <2>2. /\ writePc'[w] = "range"
        /\ \A v \in Writers \ {w} : writePc'[v] = writePc[v] /\ held'[v] = held[v]
        /\ channel'[t] = IF t = at[w] THEN <<held[w]>> ELSE channel[t]
    BY <1>0, <1>5 DEF Send, TypeOK
  <2>3. \A v \in Writers : BytesOf(HeldFor(t, v)') \subseteq R
    BY <1>a, <1>b, <2>1, <2>2 DEF HeldFor
  <2>4. CASE t = at[w]
    <3>1. Buffered(t)' = HeldFor(t, w)
      BY <2>1, <2>2, <2>4, SMTT(30) DEF Buffered, HeldFor
    <3> QED
      BY <1>a, <2>1, <2>3, <3>1
  <2>5. CASE t # at[w]
    BY <1>a, <2>1, <2>2, <2>3, <2>5 DEF Buffered
  <2> QED
    BY <2>4, <2>5
<1>6. ASSUME NEW w \in Writers, EndWrite(w) \/ \E n \in Sizes : BeginWrite(w, n) PROVE Goal
  <2>1. UNCHANGED <<channel, copying, delivered, at, held>>
    BY <1>6 DEF EndWrite, BeginWrite, sinkVars
  <2>2. writePc'[w] # "send" /\ \A v \in Writers \ {w} : writePc'[v] = writePc[v]
    BY <1>0, <1>6, SMTT(30) DEF EndWrite, BeginWrite, TypeOK
  <2>3. \A v \in Writers : BytesOf(HeldFor(t, v)') \subseteq R
    BY <1>a, <1>b, <2>1, <2>2 DEF HeldFor
  <2> QED
    BY <1>a, <2>1, <2>3 DEF Buffered
<1>7. CASE UNCHANGED vars \/ \E s \in Sinks : Tee(s) \/ CancelCalled(s) \/ SinkReturns(s)
  <2>1. UNCHANGED <<channel, copying, delivered, writePc, at, held>>
    BY <1>7 DEF vars, sinkVars, writeVars, Tee, CancelCalled, SinkReturns
  <2> QED
    BY <1>1, <2>1
<1> QED
  BY <1>2, <1>3, <1>4, <1>5, <1>6, <1>7 DEF Next, SinkGoroutine, WriteSteps

\* Every byte that is on its way to a sink has been written.
RouteInv ==
    \A s \in Sinks, w \in Writers : \A i \in Nat : <<w, i>> \in EnRoute(s) => i <= written[w]

LEMMA ComingWritten ==
    ASSUME TeeInv, NEW s \in Sinks, NEW w \in Writers, NEW i \in Nat, <<w, i>> \in Coming(s)
    PROVE  i <= written[w]
<1>1. PICK v \in Writers : <<w, i>> \in BytesOf(data[v])
  BY DEF Coming
<1>2. PICK j \in 1 .. Len(data[v]) : <<w, i>> = data[v][j]
  BY <1>1 DEF BytesOf
<1>3. data[v][j] = <<v, (written[v] - Len(data[v])) + j>> /\ written[v] \in Nat /\ Len(data[v]) \in Nat
  BY Elements DEF TeeInv, TypeOK, WriteInv
<1>4. w = v /\ i = (written[v] - Len(data[v])) + j
  BY <1>2, <1>3, SMTT(30)
<1> QED
  BY <1>3, <1>4, SMTT(30)

LEMMA RouteInvStep == ASSUME TeeInv, RouteInv, [Next]_vars PROVE RouteInv'
<1> SUFFICES ASSUME NEW s \in Sinks, NEW w \in Writers, NEW i \in Nat, <<w, i>> \in EnRoute(s)'
             PROVE  i <= written'[w]
  BY DEF RouteInv
<1>1. i <= written[w]
  BY RouteStep, ComingWritten DEF RouteInv
<1>2. written[w] \in Nat /\ written'[w] \in Nat
  BY TypeStep DEF TeeInv, TypeOK
<1>3. written[w] <= written'[w]
  <2>1. ASSUME NEW v \in Writers, NEW n \in Sizes, BeginWrite(v, n) PROVE written[w] <= written'[w]
    <3>1. n \in Nat /\ written'[w] = IF v = w THEN written[w] + n ELSE written[w]
      BY <2>1, TeeAssumption DEF BeginWrite, TeeInv, TypeOK
    <3> QED
      BY <1>2, <3>1, SMTT(30)
  <2>2. ASSUME UNCHANGED written PROVE written[w] <= written'[w]
    BY <1>2, <2>2, SMTT(30)
  <2> QED
    BY <2>1, <2>2
       DEF Next, SinkGoroutine, WriteSteps, vars, writeVars, Tee, CancelCalled,
                      SinkReturns, SinkTakes, SinkCopied, SinkFails, Take, Send, EndWrite
<1> QED
  BY <1>1, <1>2, <1>3, SMTT(30)

LEMMA RouteInvHolds == Spec => []RouteInv
<1>1. Init => RouteInv
  <2> SUFFICES ASSUME Init, NEW s \in Sinks PROVE EnRoute(s) = {}
    BY DEF RouteInv
  <2>1. /\ delivered[s] = <<>> /\ copying[s] = <<>> /\ Buffered(s) = <<>>
        /\ \A w \in Writers : HeldFor(s, w) = <<>>
    BY DEF Init, Buffered, HeldFor
  <2> QED
    BY <2>1, BytesOfNone DEF EnRoute
<1> QED
  BY <1>1, RouteInvStep, TeeInvHolds, PTL DEF Spec

\* s is canceled, and b is neither on its way to s nor in a Write that will
\* visit s.
Barred(s, b) == s \in done /\ b \notin EnRoute(s) /\ b \notin Coming(s)

\* And so it remains: no Write that begins now visits s.
LEMMA BarredStep ==
    ASSUME TeeInv, [Next]_vars, NEW s \in Sinks, NEW b, Barred(s, b)
    PROVE  Barred(s, b)'
<1>0. TypeOK /\ SinkInv(s) /\ s \in done
  BY DEF TeeInv, Barred
<1>1. b \notin EnRoute(s)'
  BY RouteStep DEF Barred
<1>2. s \in done'
  BY <1>0 DEF Next, SinkGoroutine, WriteSteps, vars, sinkVars, Tee, CancelCalled, cancel,
              SinkReturns, SinkTakes, SinkCopied, SinkFails, BeginWrite, Take, Send, EndWrite
<1>3. \A v \in Writers : s \in todo'[v] => s \in todo[v] /\ data'[v] = data[v]
  <2>1. ASSUME NEW r \in Sinks, Tee(r) PROVE \A v \in Writers : s \in todo'[v] => s \in todo[v]
    <3>1. r # s
      BY <1>0, <2>1 DEF Tee, SinkInv
    <3> QED
      BY <1>0, <2>1, <3>1, SMTT(30) DEF Tee, TypeOK
  <2>2. ASSUME NEW w \in Writers, NEW n \in Sizes, BeginWrite(w, n)
        PROVE  \A v \in Writers : s \in todo'[v] => s \in todo[v] /\ data'[v] = data[v]
    <3>1. s \notin keys
      BY <1>0 DEF SinkInv
    <3> QED
      BY <1>0, <2>2, <3>1 DEF BeginWrite, TypeOK
  <2>3. ASSUME NEW w \in Writers, NEW r \in Sinks, Take(w, r)
        PROVE  \A v \in Writers : s \in todo'[v] => s \in todo[v]
    BY <1>0, <2>3 DEF Take, TypeOK
  <2>4. ASSUME NEW w \in Writers, EndWrite(w)
        PROVE  \A v \in Writers : s \in todo'[v] => s \in todo[v] /\ data'[v] = data[v]
    BY <1>0, <2>4 DEF EndWrite, TypeOK
  <2> QED
    BY <2>1, <2>2, <2>3, <2>4 DEF Next, SinkGoroutine, WriteSteps, vars, writeVars, Tee,
           CancelCalled, SinkReturns, SinkTakes, SinkCopied, SinkFails, Take, Send
<1>4. b \notin Coming(s)'
  <2>1. ASSUME NEW v \in Writers, s \in todo'[v] PROVE b \notin BytesOf(data'[v])
    BY <1>3, <2>1 DEF Barred, Coming
  <2> QED
    BY <2>1 DEF Coming, BytesOf
<1> QED
  BY <1>1, <1>2, <1>4 DEF Barred

\* "forwarding stops after the return cancelation function is invoked" (Tee),
\* with any number of concurrent Writes: a byte written after that never comes
\* near the sink.
THEOREM CanceledForwardsNoMore == Spec => ForwardingStops
<1> SUFFICES ASSUME NEW s \in Sinks, NEW w \in Writers, NEW i \in 1 .. MaxBytes
             PROVE  Spec => [](s \in done /\ written[w] < i => [](<<w, i>> \notin EnRoute(s)))
  BY DEF ForwardingStops
<1>1. TeeInv /\ RouteInv /\ s \in done /\ written[w] < i => Barred(s, <<w, i>>)
  <2> SUFFICES ASSUME TeeInv, RouteInv, s \in done, written[w] < i
               PROVE  <<w, i>> \notin EnRoute(s) /\ <<w, i>> \notin Coming(s)
    BY DEF Barred
  <2>1. i \in Nat /\ written[w] \in Nat /\ ~(i <= written[w])
    BY TeeAssumption, SMTT(30) DEF TeeInv, TypeOK
  <2> QED
    BY <2>1, ComingWritten DEF RouteInv
<1>2. TeeInv /\ [Next]_vars /\ Barred(s, <<w, i>>) => Barred(s, <<w, i>>)'
  BY BarredStep
<1>3. Barred(s, <<w, i>>) => <<w, i>> \notin EnRoute(s)
  BY DEF Barred
<1> QED
  BY <1>1, <1>2, <1>3, TeeInvHolds, RouteInvHolds, PTL DEF Spec

-----------------------------------------------------------------------------
(* What a single writer's stream to a sink is like.                        *)

Rising(q, b) ==
    \A i \in 1 .. Len(q) :
        q[i][2] <= b /\ \A j \in 1 .. Len(q) : i < j => q[i][2] < q[j][2]

\* The byte b + 1 comes after q.
Follows(q, b, i) == IF i < Len(q) THEN q[i + 1][2] ELSE b + 1

\* After a gap, also one before b + 1, there is a full buffer.
Tight(q, b) ==
    \A i \in 1 .. Len(q) : Follows(q, b, i) # q[i][2] + 1 => Len(q) - i >= BufferSize

\* r is q without the k after the first m, and with n more: b + 1, ..., b + n.
Moved(q, r, m, k, b, n) ==
    /\ Len(r) = (Len(q) - k) + n
    /\ \A i \in 1 .. m : r[i] = q[i]
    /\ \A i \in m + 1 .. Len(q) - k : r[i] = q[i + k]
    /\ \A i \in (Len(q) - k) + 1 .. (Len(q) - k) + n : r[i][2] = b + (i - (Len(q) - k))

LEMMA MovedRising ==
    ASSUME NEW q \in Buffers, NEW r \in Buffers, NEW b \in Nat, NEW n \in Nat,
           NEW m \in 0 .. Len(q), NEW k \in 0 .. Len(q) - m,
           Moved(q, r, m, k, b, n), Rising(q, b)
    PROVE  Rising(r, b + n)
<1> DEFINE from(i) == IF i <= m THEN i ELSE i + k
           N == Len(q) - k
<1>0. Len(q) \in Nat /\ N \in Nat /\ Len(r) = N + n
  BY Elements, SMTT(30) DEF Moved
<1>1. \A i \in 1 .. N : from(i) \in 1 .. Len(q) /\ r[i] = q[from(i)]
  <2> SUFFICES ASSUME NEW i \in 1 .. N PROVE from(i) \in 1 .. Len(q) /\ r[i] = q[from(i)]
    OBVIOUS
  <2>1. CASE i <= m
    BY <1>0, <2>1, SMTT(30) DEF Moved
  <2>2. CASE i > m
    BY <1>0, <2>2, SMTT(30) DEF Moved
  <2> QED
    BY <1>0, <2>1, <2>2, SMTT(30)
<1>2. \A i \in 1 .. N, j \in 1 .. N : i < j => from(i) < from(j)
  BY <1>0, SMTT(30)
<1>3. \A i \in N + 1 .. N + n : r[i][2] = b + (i - N)
  BY DEF Moved
<1>4. \A i \in 1 .. Len(q) : q[i][2] \in Nat
  BY Elements
<1> HIDE DEF from, N
<1> SUFFICES ASSUME NEW i \in 1 .. N + n
             PROVE  r[i][2] <= b + n /\ \A j \in 1 .. N + n : i < j => r[i][2] < r[j][2]
  BY <1>0 DEF Rising
<1>5. CASE i \in 1 .. N
  <2>1. r[i][2] \in Nat /\ r[i][2] <= b
    BY <1>1, <1>4, <1>5 DEF Rising
  <2>2. ASSUME NEW j \in 1 .. N + n, i < j PROVE r[i][2] < r[j][2]
    <3>1. CASE j \in 1 .. N
      BY <1>1, <1>2, <1>5, <2>2, <3>1 DEF Rising
    <3>2. CASE j \in N + 1 .. N + n
      BY <1>0, <1>3, <2>1, <3>2, SMTT(30)
    <3> QED
      BY <1>0, <3>1, <3>2, SMTT(30)
  <2> QED
    BY <2>1, <2>2, SMTT(30)
<1>6. CASE i \in N + 1 .. N + n
  <2>1. r[i][2] = b + (i - N)
    BY <1>3, <1>6
  <2>2. ASSUME NEW j \in 1 .. N + n, i < j PROVE r[i][2] < r[j][2]
    <3>1. j \in N + 1 .. N + n
      BY <1>0, <1>6, <2>2, SMTT(30)
    <3>2. r[j][2] = b + (j - N)
      BY <1>3, <3>1
    <3> QED
      BY <1>0, <1>6, <2>1, <2>2, <3>1, <3>2, SMTT(30)
  <2>3. r[i][2] <= b + n
    BY <1>0, <1>6, <2>1, SMTT(30)
  <2> QED
    BY <2>2, <2>3
<1> QED
  BY <1>0, <1>5, <1>6, SMTT(30)

LEMMA MovedTight ==
    ASSUME NEW q \in Buffers, NEW r \in Buffers, NEW b \in Nat, NEW n \in Nat,
           NEW m \in 0 .. Len(q), NEW k \in 0 .. Len(q) - m,
           Moved(q, r, m, k, b, n), Tight(q, b), k > 0 => Len(r) - m >= BufferSize
    PROVE  Tight(r, b + n)
<1> DEFINE N == Len(q) - k
<1>0. Len(q) \in Nat /\ N \in Nat /\ Len(r) = N + n /\ m \in 0 .. N /\ BufferSize \in Nat
  BY Elements, TeeAssumption, SMTT(30) DEF Moved
<1>1. /\ \A i \in 1 .. m : r[i] = q[i]
      /\ \A i \in m + 1 .. N : r[i] = q[i + k]
      /\ \A i \in N + 1 .. N + n : r[i][2] = b + (i - N)
  BY DEF Moved
<1>2. Len(q) = N + k
  BY <1>0, SMTT(30)
<1>4. \A i \in 1 .. Len(q) : q[i][2] \in Nat
  BY Elements
<1> HIDE DEF N
<1> SUFFICES ASSUME NEW i \in 1 .. N + n, Follows(r, b + n, i) # r[i][2] + 1
             PROVE  (N + n) - i >= BufferSize
  BY <1>0 DEF Tight
<1>5. CASE i > N
  <2>1. CASE i < N + n
    BY <1>0, <1>1, <1>5, <2>1, SMTT(30) DEF Follows
  <2>2. CASE i = N + n
    BY <1>0, <1>1, <1>5, <2>2, SMTT(30) DEF Follows
  <2> QED
    BY <1>0, <2>1, <2>2, SMTT(30)
<1>6. CASE i > m /\ i <= N
  <2>0. i \in m + 1 .. N
    BY <1>0, <1>6, SMTT(30)
  <2>1. i + k \in 1 .. Len(q) /\ r[i] = q[i + k] /\ Len(q) - (i + k) = N - i
    <3>1. i + k \in 1 .. N + k /\ (N + k) - (i + k) = N - i
      BY <1>0, <1>6, SMTT(30)
    <3> QED
      BY <1>1, <1>2, <2>0, <3>1
  <2>2. Follows(r, b + n, i) = Follows(q, b, i + k)
    <3>1. CASE i < N
      <4>1. r[i + 1] = q[(i + 1) + k] /\ (i + 1) + k = (i + k) + 1 /\ i + k < Len(q) /\ i < Len(r)
        <5>1. i + 1 \in m + 1 .. N /\ (i + 1) + k = (i + k) + 1 /\ i + k < N + k /\ i < N + n
          BY <1>0, <2>0, <3>1, SMTT(30)
        <5> QED
          BY <1>0, <1>1, <1>2, <5>1
      <4> QED
        BY <4>1 DEF Follows
    <3>2. CASE i = N
      <4>1. ~(i + k < Len(q))
        BY <1>0, <3>2, SMTT(30) DEF N
      <4>2. CASE n = 0
        BY <1>0, <3>2, <4>1, <4>2, SMTT(30) DEF Follows
      <4>3. CASE n > 0
        <5>1. i < Len(r) /\ r[i + 1][2] = b + 1
          BY <1>0, <1>1, <3>2, <4>3, SMTT(30)
        <5> QED
          BY <4>1, <5>1 DEF Follows
      <4> QED
        BY <4>2, <4>3, SMTT(30)
    <3> QED
      BY <1>0, <1>6, <3>1, <3>2, SMTT(30)
  <2>3. Len(q) - (i + k) >= BufferSize
    BY <2>1, <2>2 DEF Tight
  <2> QED
    BY <1>0, <1>6, <2>1, <2>3, SMTT(30)
<1>7. CASE i <= m
  <2>1. CASE k > 0
    BY <1>0, <1>7, <2>1, SMTT(30)
  <2>2. CASE k = 0
    <3>1. N = Len(q) /\ r[i] = q[i] /\ i \in 1 .. Len(q)
      BY <1>0, <1>1, <1>7, <2>2, SMTT(30) DEF N
    <3>2. Follows(r, b + n, i) = Follows(q, b, i)
      <4>1. CASE i < N
        <5>1. r[i + 1] = q[i + 1]
          <6>1. CASE i + 1 <= m
            BY <1>0, <1>1, <1>7, <6>1, SMTT(30)
          <6>2. CASE i + 1 > m
            <7>1. i + 1 \in m + 1 .. N /\ (i + 1) + k = i + 1
              BY <1>0, <2>2, <4>1, <6>2, SMTT(30)
            <7> QED
              BY <1>1, <7>1, SMTT(30)
          <6> QED
            BY <1>0, <6>1, <6>2, SMTT(30)
        <5> QED
          BY <1>0, <3>1, <4>1, <5>1, SMTT(30) DEF Follows
      <4>2. CASE i = N /\ n = 0
        BY <1>0, <3>1, <4>2, SMTT(30) DEF Follows
      <4>3. CASE i = N /\ n > 0
        <5>1. i < Len(r) /\ r[i + 1][2] = b + 1
          BY <1>0, <1>1, <4>3, SMTT(30)
        <5> QED
          BY <3>1, <4>3, <5>1, SMTT(30) DEF Follows
      <4> QED
        BY <1>0, <1>7, <4>1, <4>2, <4>3, SMTT(30)
    <3>3. Len(q) - i >= BufferSize
      BY <3>1, <3>2 DEF Tight
    <3> QED
      BY <1>0, <3>1, <3>3, SMTT(30)
  <2> QED
    BY <2>1, <2>2, SMTT(30)
<1> QED
  BY <1>0, <1>5, <1>6, <1>7, SMTT(30)

LEMMA CatNone == ASSUME NEW q \in Buffers PROVE q \o <<>> = q /\ <<>> \o q = q
  BY SMTT(30) DEF Buffers

LEMMA CatThree ==
    ASSUME NEW p \in Buffers, NEW q \in Buffers, NEW r \in Buffers
    PROVE  (p \o q) \o r = p \o (q \o r)
  BY SMTT(30) DEF Buffers

\* Bytes after p make way for others.
LEMMA AppendMoves ==
    ASSUME NEW p \in Buffers, NEW buf \in Buffers, NEW d \in Buffers, NEW b \in Nat,
           \A i \in 1 .. Len(d) : d[i][2] = b + i
    PROVE  \E k \in 0 .. Len(p \o buf) - Len(p) :
              /\ Moved(p \o buf, p \o append(buf, d), Len(p), k, b, Len(d))
              /\ k > 0 => Len(p \o append(buf, d)) - Len(p) >= BufferSize
<1> DEFINE a == append(buf, d)
           q == p \o buf
           r == p \o a
<1>1. PICK k \in 0 .. Len(buf) :
          /\ a \in Buffers /\ Len(a) = (Len(buf) - k) + Len(d) /\ (k > 0 => Len(a) >= BufferSize)
          /\ \A i \in 1 .. Len(buf) - k : a[i] = buf[i + k]
          /\ \A i \in (Len(buf) - k) + 1 .. (Len(buf) - k) + Len(d) : a[i] = d[i - (Len(buf) - k)]
  BY AppendDrops
<1> HIDE DEF a
<1>2. Len(p) \in Nat /\ Len(buf) \in Nat /\ Len(d) \in Nat /\ BufferSize \in Nat
  BY Elements, TeeAssumption
<1>3. /\ Len(q) = Len(p) + Len(buf) /\ Len(r) = Len(p) + Len(a)
      /\ \A i \in 1 .. Len(p) : q[i] = p[i] /\ r[i] = p[i]
      /\ \A i \in Len(p) + 1 .. Len(p) + Len(buf) : q[i] = buf[i - Len(p)]
      /\ \A i \in Len(p) + 1 .. Len(p) + Len(a) : r[i] = a[i - Len(p)]
  BY <1>1, Cat
<1> HIDE DEF q, r
<1>4. \A i \in Len(p) + 1 .. Len(q) - k : r[i] = q[i + k]
  <2> SUFFICES ASSUME NEW i \in Len(p) + 1 .. Len(q) - k PROVE r[i] = q[i + k]
    OBVIOUS
  <2>1. i - Len(p) \in 1 .. Len(buf) - k /\ i \in Len(p) + 1 .. Len(p) + Len(a)
    BY <1>1, <1>2, <1>3, SMTT(30)
  <2>2. i + k \in Len(p) + 1 .. Len(p) + Len(buf) /\ (i + k) - Len(p) = (i - Len(p)) + k
    BY <1>1, <1>2, <1>3, SMTT(30)
  <2> QED
    BY <1>1, <1>3, <2>1, <2>2, SMTT(30)
<1>5. \A i \in (Len(q) - k) + 1 .. (Len(q) - k) + Len(d) : r[i][2] = b + (i - (Len(q) - k))
  <2> SUFFICES ASSUME NEW i \in (Len(q) - k) + 1 .. (Len(q) - k) + Len(d)
               PROVE  r[i][2] = b + (i - (Len(q) - k))
    OBVIOUS
  <2>1. /\ i - Len(p) \in (Len(buf) - k) + 1 .. (Len(buf) - k) + Len(d)
        /\ i \in Len(p) + 1 .. Len(p) + Len(a)
        /\ i - (Len(q) - k) \in 1 .. Len(d)
        /\ (i - Len(p)) - (Len(buf) - k) = i - (Len(q) - k)
    BY <1>1, <1>2, <1>3, SMTT(30)
  <2>2. r[i] = d[i - (Len(q) - k)]
    BY <1>1, <1>3, <2>1
  <2> QED
    BY <2>1, <2>2
<1>6. /\ k \in 0 .. Len(q) - Len(p) /\ Len(r) = (Len(q) - k) + Len(d)
      /\ k > 0 => Len(r) - Len(p) >= BufferSize
  BY <1>1, <1>2, <1>3, SMTT(30)
<1>7. Moved(q, r, Len(p), k, b, Len(d))
  BY <1>3, <1>4, <1>5, <1>6 DEF Moved
<1> QED
  BY <1>6, <1>7 DEF q, r, a

\* A part c of the front is cut to its first n.
LEMMA CutMoves ==
    ASSUME NEW d \in Buffers, NEW c \in Buffers, NEW t \in Buffers, NEW n \in 0 .. Len(c),
           NEW b \in Nat
    PROVE  LET q == (d \o c) \o t
               r == (d \o SubSeq(c, 1, n)) \o t
           IN  \E m \in 0 .. Len(q) : \E k \in 0 .. Len(q) - m : Moved(q, r, m, k, b, 0)
<1> DEFINE e == SubSeq(c, 1, n)
           x == d \o c
           y == d \o e
           q == x \o t
           r == y \o t
           k == Len(c) - n
<1>1. Len(d) \in Nat /\ Len(c) \in Nat /\ Len(t) \in Nat
  BY Elements
<1>2. e \in Buffers /\ Len(e) = n /\ \A i \in 1 .. n : e[i] = c[i]
  BY First
<1> HIDE DEF e
<1>3. /\ x \in Buffers /\ Len(x) = Len(d) + Len(c)
      /\ \A i \in 1 .. Len(d) : x[i] = d[i]
      /\ \A i \in Len(d) + 1 .. Len(d) + Len(c) : x[i] = c[i - Len(d)]
  BY Cat
<1>4. /\ y \in Buffers /\ Len(y) = Len(d) + n
      /\ \A i \in 1 .. Len(d) : y[i] = d[i]
      /\ \A i \in Len(d) + 1 .. Len(d) + n : y[i] = e[i - Len(d)]
  BY <1>2, Cat
<1> HIDE DEF x, y
<1>5. \A i \in 1 .. Len(y) : i \in 1 .. Len(x) /\ y[i] = x[i]
  <2> SUFFICES ASSUME NEW i \in 1 .. Len(y) PROVE i \in 1 .. Len(x) /\ y[i] = x[i]
    OBVIOUS
  <2>1. CASE i <= Len(d)
    BY <1>1, <1>3, <1>4, <2>1, SMTT(30)
  <2>2. CASE i > Len(d)
    <3>1. /\ i \in Len(d) + 1 .. Len(d) + n /\ i \in Len(d) + 1 .. Len(d) + Len(c)
          /\ i - Len(d) \in 1 .. n
      BY <1>1, <1>4, <2>2, SMTT(30)
    <3> QED
      BY <1>1, <1>2, <1>3, <1>4, <3>1, SMTT(30)
  <2> QED
    BY <1>1, <1>4, <2>1, <2>2, SMTT(30)
<1>6. /\ Len(q) = Len(x) + Len(t)
      /\ \A i \in 1 .. Len(x) : q[i] = x[i]
      /\ \A i \in Len(x) + 1 .. Len(x) + Len(t) : q[i] = t[i - Len(x)]
  BY <1>3, Cat
<1>7. /\ Len(r) = Len(y) + Len(t)
      /\ \A i \in 1 .. Len(y) : r[i] = y[i]
      /\ \A i \in Len(y) + 1 .. Len(y) + Len(t) : r[i] = t[i - Len(y)]
  BY <1>4, Cat
<1> HIDE DEF q, r
<1>8. /\ Len(y) \in 0 .. Len(q) /\ k \in 0 .. Len(q) - Len(y)
      /\ Len(r) = (Len(q) - k) + 0 /\ Len(x) = Len(y) + k
  BY <1>1, <1>3, <1>4, <1>6, <1>7, SMTT(30)
<1>9. \A i \in Len(y) + 1 .. Len(q) - k : r[i] = q[i + k]
  <2> SUFFICES ASSUME NEW i \in Len(y) + 1 .. Len(q) - k PROVE r[i] = q[i + k]
    OBVIOUS
  <2>1. /\ i \in Len(y) + 1 .. Len(y) + Len(t) /\ i + k \in Len(x) + 1 .. Len(x) + Len(t)
        /\ i - Len(y) = (i + k) - Len(x)
    BY <1>1, <1>3, <1>4, <1>6, SMTT(30)
  <2> QED
    BY <1>6, <1>7, <2>1, SMTT(30)
<1>10. \A i \in (Len(q) - k) + 1 .. (Len(q) - k) + 0 : r[i][2] = b + (i - (Len(q) - k))
  BY <1>1, <1>3, <1>6, SMTT(30)
<1>11. Moved(q, r, Len(y), k, b, 0)
  BY <1>5, <1>6, <1>7, <1>8, <1>9, <1>10 DEF Moved
<1> HIDE DEF k
<1>12. \E m \in 0 .. Len(q) : \E j \in 0 .. Len(q) - m : Moved(q, r, m, j, b, 0)
  BY <1>8, <1>11
<1> QED
  BY <1>12 DEF q, r, x, y, e

-----------------------------------------------------------------------------
(* The stream of a single writer.                                          *)

Flow(s, w) == delivered[s] \o copying[s] \o Buffered(s) \o HeldFor(s, w)

\* The bytes of w that s has been visited with, or passed over.
Seen(s, w) == IF s \in todo[w] THEN written[w] - Len(data[w]) ELSE written[w]

FlowInv(s, w) ==
    /\ Rising(Flow(s, w), Seen(s, w))
    /\ s \notin done => Tight(Flow(s, w), Seen(s, w))

LEMMA FlowType ==
    ASSUME TeeInv, NEW s \in Sinks, NEW w \in Writers
    PROVE  /\ delivered[s] \in Buffers /\ copying[s] \in Buffers /\ Buffered(s) \in Buffers
           /\ HeldFor(s, w) \in Buffers /\ delivered[s] \o copying[s] \in Buffers
           /\ Flow(s, w) \in Buffers /\ Seen(s, w) \in Nat /\ Seen(s, w) <= written[w]
<1>1. /\ delivered[s] \in Buffers /\ copying[s] \in Buffers /\ Buffered(s) \in Buffers
      /\ HeldFor(s, w) \in Buffers
  BY Empty, HasBuffer DEF TeeInv, TypeOK, HeldFor
<1>2. delivered[s] \o copying[s] \in Buffers
  BY <1>1, Cat, SMTT(30)
<1>3. delivered[s] \o copying[s] \o Buffered(s) \in Buffers
  BY <1>1, <1>2, Cat, SMTT(30)
<1>4. Flow(s, w) \in Buffers
  BY <1>1, <1>3, Cat, SMTT(30) DEF Flow
<1>5. written[w] \in Nat /\ Len(data[w]) \in Nat /\ Len(data[w]) <= written[w]
  BY Elements, SMTT(30) DEF TeeInv, TypeOK, WriteInv
<1>6. Seen(s, w) \in Nat /\ Seen(s, w) <= written[w]
  BY <1>5, SMTT(30) DEF Seen
<1> QED
  BY <1>1, <1>2, <1>4, <1>6, SMTT(30)

\* More may have been passed over of a sink that is canceled or has no byte.
LEMMA FlowSame ==
    ASSUME TeeInv, TypeOK', NEW s \in Sinks, NEW w \in Writers, FlowInv(s, w),
           Flow(s, w)' = Flow(s, w), done \subseteq done',
           \/ Seen(s, w)' = Seen(s, w)
           \/ Seen(s, w)' = written'[w] /\ written[w] <= written'[w]
              /\ (s \in done' \/ Flow(s, w) = <<>>)
    PROVE  FlowInv(s, w)'
<1> DEFINE q == Flow(s, w)
<1>1. q \in Buffers /\ Len(q) \in Nat /\ \A i \in 1 .. Len(q) : q[i][2] \in Nat
  BY FlowType, Elements
<1>2. Seen(s, w) \in Nat /\ Seen(s, w) <= written[w] /\ written[w] \in Nat /\ written'[w] \in Nat
  BY FlowType, SMTT(30) DEF TeeInv, TypeOK
<1>3. Rising(q, Seen(s, w)) /\ (s \notin done => Tight(q, Seen(s, w)))
  BY DEF FlowInv
<1> HIDE DEF q
<1>4. Rising(q, Seen(s, w)')
  <2>1. Seen(s, w)' \in Nat /\ Seen(s, w) <= Seen(s, w)'
    BY <1>2, SMTT(30)
  <2> QED
    BY <1>1, <1>2, <1>3, <2>1, SMTT(30) DEF Rising
<1>5. s \notin done' => Tight(q, Seen(s, w)')
  <2>1. ASSUME q = <<>> PROVE Tight(q, Seen(s, w)')
    <3>1. Len(q) = 0
      BY <2>1, Empty, SMTT(30)
    <3> QED
      BY <3>1, SMTT(30) DEF Tight
  <2> QED
    BY <1>3, <2>1, SMTT(30) DEF q
<1> QED
  BY <1>4, <1>5, SMTT(30) DEF FlowInv, Rising, Tight, Follows, q

\* Nothing is on its way to a sink before Tee.
LEMMA FlowNone ==
    ASSUME TeeInv, NEW s \in Sinks, NEW w \in Writers, sinkPc[s] = "off"
    PROVE  Flow(s, w) = <<>>
<1>1. /\ delivered[s] = <<>> /\ copying[s] = <<>> /\ channel[s] = <<>>
      /\ HeldFor(s, w) = <<>>
  BY SMTT(30) DEF TeeInv, SinkInv, HeldFor
<1>2. <<>> \o <<>> = <<>>
  BY Empty, CatNone
<1> QED
  BY <1>1, <1>2, SMTT(30) DEF Flow, Buffered

\* The steps that leave the bytes on their way to s as they are.
LEMMA FlowKept ==
    ASSUME TeeInv, TypeOK', NEW s \in Sinks, NEW w \in Writers, FlowInv(s, w),
           UNCHANGED <<delivered, copying, channel, held>>, done \subseteq done',
           HeldFor(s, w)' = HeldFor(s, w),
           \/ Seen(s, w)' = Seen(s, w)
           \/ Seen(s, w)' = written'[w] /\ written[w] <= written'[w]
              /\ (s \in done' \/ Flow(s, w) = <<>>)
    PROVE  FlowInv(s, w)'
<1>1. Flow(s, w)' = Flow(s, w)
  BY DEF Flow, Buffered
<1> QED
  BY <1>1, FlowSame, SMTT(30)

\* A sink takes, or has copied, what its channel had.
LEMMA FlowSink ==
    ASSUME TeeInv, TypeOK', NEW s \in Sinks, NEW w \in Writers, FlowInv(s, w),
           NEW t \in Sinks, SinkTakes(t) \/ SinkCopied(t)
    PROVE  FlowInv(s, w)'
<1>0. TypeOK /\ SinkInv(s)
  BY DEF TeeInv
<1>1. UNCHANGED <<done, writePc, at, held, todo, data, written>>
  BY DEF SinkTakes, SinkCopied, writeVars
<1>2. HeldFor(s, w)' = HeldFor(s, w) /\ Seen(s, w)' = Seen(s, w)
  BY <1>1 DEF HeldFor, Seen
<1>3. delivered[s] \in Buffers /\ copying[s] \in Buffers /\ Buffered(s) \in Buffers
      /\ delivered[s] \o copying[s] \in Buffers
  BY FlowType
<1>4. Flow(s, w)' = Flow(s, w)
  <2>1. CASE t # s
    <3>1. delivered'[s] = delivered[s] /\ copying'[s] = copying[s] /\ channel'[s] = channel[s]
      BY <1>0, <2>1, SMTT(30) DEF SinkTakes, SinkCopied, TypeOK
    <3> QED
      BY <1>2, <3>1, SMTT(30) DEF Flow, Buffered
  <2>2. CASE t = s /\ SinkTakes(t)
    <3>1. /\ copying[s] = <<>> /\ delivered' = delivered /\ copying'[s] = Buffered(s)
          /\ channel'[s] = <<>>
      BY <1>0, <2>2, HasBuffer DEF SinkTakes, SinkInv, TypeOK
    <3>2. Buffered(s)' = <<>>
      BY <3>1 DEF Buffered
    <3>3. delivered[s] \o Buffered(s) \in Buffers
      BY <1>3, Cat
    <3>4. /\ (delivered[s] \o copying[s]) \o Buffered(s) = delivered[s] \o Buffered(s)
          /\ (delivered'[s] \o copying'[s]) \o Buffered(s)' = delivered[s] \o Buffered(s)
      BY <1>3, <3>1, <3>2, <3>3, CatNone
    <3> QED
      BY <1>2, <3>4 DEF Flow
  <2>3. CASE t = s /\ SinkCopied(t)
    <3>1. /\ copying'[s] = <<>> /\ delivered'[s] = delivered[s] \o copying[s]
          /\ channel' = channel
      BY <1>0, <2>3, SMTT(30) DEF SinkCopied, TypeOK
    <3>2. delivered'[s] \o copying'[s] = delivered[s] \o copying[s]
      BY <1>3, <3>1, CatNone, SMTT(30)
    <3>3. Buffered(s)' = Buffered(s)
      BY <3>1, SMTT(30) DEF Buffered
    <3> QED
      BY <1>2, <3>2, <3>3 DEF Flow
  <2> QED
    BY <2>1, <2>2, <2>3, SMTT(30)
<1> QED
  BY <1>1, <1>2, <1>4, FlowSame, SMTT(30)

\* A copy that fails loses a part of a buffer, and its sink is canceled.
LEMMA FlowFails ==
    ASSUME TeeInv, TypeOK', NEW s \in Sinks, NEW w \in Writers, FlowInv(s, w),
           NEW t \in Sinks, SinkFails(t)
    PROVE  FlowInv(s, w)'
<1>0. TypeOK /\ SinkInv(s)
  BY DEF TeeInv
<1>1. UNCHANGED <<channel, writePc, at, held, todo, data, written>> /\ done' = done \cup {t}
  BY DEF SinkFails, cancel, writeVars
<1>2. HeldFor(s, w)' = HeldFor(s, w) /\ Seen(s, w)' = Seen(s, w) /\ Buffered(s)' = Buffered(s)
  BY <1>1 DEF HeldFor, Seen, Buffered
<1>3. CASE t # s
  <2>1. delivered'[s] = delivered[s] /\ copying'[s] = copying[s]
    BY <1>0, <1>3, SMTT(30) DEF SinkFails, TypeOK
  <2>2. Flow(s, w)' = Flow(s, w)
    BY <1>2, <2>1 DEF Flow
  <2> QED
    BY <1>1, <1>2, <2>2, FlowSame, SMTT(30)
<1>4. CASE t = s
  <2> DEFINE d == delivered[s]
             c == copying[s]
             u == Buffered(s) \o HeldFor(s, w)
             b == Seen(s, w)
  <2>1. PICK n \in 0 .. Len(c) : delivered' = [delivered EXCEPT ![s] = @ \o SubSeq(c, 1, n)]
    BY <1>4 DEF SinkFails
  <2>2. delivered'[s] = d \o SubSeq(c, 1, n) /\ copying'[s] = <<>>
    BY <1>0, <1>4, <2>1 DEF SinkFails, TypeOK
  <2>3. /\ d \in Buffers /\ c \in Buffers /\ Buffered(s) \in Buffers
        /\ HeldFor(s, w) \in Buffers /\ d \o c \in Buffers /\ b \in Nat /\ Flow(s, w) \in Buffers
    BY FlowType
  <2>4. SubSeq(c, 1, n) \in Buffers /\ d \o SubSeq(c, 1, n) \in Buffers /\ u \in Buffers
    BY <2>3, First, Cat
  <2>5. Flow(s, w) = (d \o c) \o u
    BY <2>3, CatThree DEF Flow
  <2>6. Flow(s, w)' = (d \o SubSeq(c, 1, n)) \o u
    <3>1. delivered'[s] \o copying'[s] = d \o SubSeq(c, 1, n)
      BY <2>2, <2>4, CatNone
    <3>2. Flow(s, w)' = ((d \o SubSeq(c, 1, n)) \o Buffered(s)) \o HeldFor(s, w)
      BY <1>2, <3>1 DEF Flow
    <3> DEFINE e == d \o SubSeq(c, 1, n)
    <3>3. e \in Buffers /\ Flow(s, w)' = (e \o Buffered(s)) \o HeldFor(s, w)
      BY <2>4, <3>2, SMTT(30)
    <3> HIDE DEF e
    <3>4. Flow(s, w)' = e \o u
      BY <2>3, <3>3, CatThree
    <3> QED
      BY <3>4 DEF e
  <2>7. (d \o SubSeq(c, 1, n)) \o u \in Buffers
    BY <2>4, Cat
  <2> HIDE DEF d, c, u, b
  <2> DEFINE q == (d \o c) \o u
             r == (d \o SubSeq(c, 1, n)) \o u
  <2>8. \E m \in 0 .. Len(q) : \E k \in 0 .. Len(q) - m : Moved(q, r, m, k, b, 0)
    BY <2>3, <2>4, CutMoves
  <2>9. q \in Buffers /\ Rising(q, b) /\ r \in Buffers /\ b + 0 = b
    BY <2>3, <2>5, <2>7, SMTT(30) DEF FlowInv, b
  <2> HIDE DEF q, r
  <2>10. Rising(r, b)
    <3>1. PICK m \in 0 .. Len(q) : \E k \in 0 .. Len(q) - m : Moved(q, r, m, k, b, 0)
      BY <2>8
    <3>2. PICK k \in 0 .. Len(q) - m : Moved(q, r, m, k, b, 0)
      BY <3>1
    <3>3. Rising(r, b + 0)
      BY <2>3, <2>9, <3>2, MovedRising
    <3> QED
      BY <2>9, <3>3
  <2>11. Rising(Flow(s, w)', Seen(s, w)')
    BY <1>2, <2>6, <2>10 DEF r, b
  <2>12. s \in done'
    BY <1>1, <1>4
  <2> QED
    BY <2>11, <2>12 DEF FlowInv, Rising
<1> QED
  BY <1>3, <1>4, SMTT(30)

\* A Write visits a sink: the oldest bytes of its buffer make way for the new.
LEMMA FlowTake ==
    ASSUME TeeInv, TypeOK', NEW s \in Sinks, NEW w \in Writers, FlowInv(s, w),
           NEW t \in Sinks, Take(w, t)
    PROVE  FlowInv(s, w)'
<1>0. TypeOK /\ WriteInv(w)
  BY DEF TeeInv
<1>1. /\ UNCHANGED <<done, copying, delivered, data, written>> /\ t \in todo[w]
      /\ todo'[w] = todo[w] \ {t} /\ at'[w] = t /\ writePc'[w] = "send" /\ writePc[w] = "range"
      /\ channel'[t] = <<>> /\ (t # s => channel'[s] = channel[s])
      /\ held'[w] = append(Buffered(t), data[w])
  BY <1>0, SMTT(30) DEF Take, sinkVars, TypeOK, Buffered
<1>2. HeldFor(s, w) = <<>>
  BY <1>1 DEF HeldFor
<1>3. CASE t # s
  <2>1. HeldFor(s, w)' = <<>> /\ Seen(s, w)' = Seen(s, w) /\ Buffered(s)' = Buffered(s)
    BY <1>1, <1>3 DEF HeldFor, Seen, Buffered
  <2>2. Flow(s, w)' = Flow(s, w)
    BY <1>1, <1>2, <2>1 DEF Flow
  <2> QED
    BY <1>1, <2>1, <2>2, FlowSame
<1>4. CASE t = s
  <2> DEFINE p == delivered[s] \o copying[s]
             buf == Buffered(s)
             d == data[w]
             b == Seen(s, w)
  <2>1. /\ p \in Buffers /\ buf \in Buffers /\ d \in Buffers /\ b \in Nat
        /\ Len(d) \in Nat /\ written[w] \in Nat
    BY <1>0, FlowType, Elements DEF TypeOK
  <2>2. b = written[w] - Len(d) /\ Seen(s, w)' = written[w]
    BY <1>1, <1>4 DEF Seen
  <2>3. Seen(s, w)' = b + Len(d)
    BY <2>1, <2>2, SMTT(30)
  <2>4. \A i \in 1 .. Len(d) : d[i][2] = b + i
    BY <1>0, <2>2, SMTT(30) DEF WriteInv
  <2>5. append(buf, d) \in Buffers
    BY <2>1, AppendDrops
  <2>6. Flow(s, w) = p \o buf /\ p \o buf \in Buffers
    <3>1. p \o buf \in Buffers
      BY <2>1, Cat, SMTT(30)
    <3> QED
      BY <1>2, <3>1, CatNone DEF Flow
  <2>7. Flow(s, w)' = p \o append(buf, d) /\ p \o append(buf, d) \in Buffers
    <3>1. HeldFor(s, w)' = append(buf, d) /\ Buffered(s)' = <<>>
      BY <1>1, <1>4, SMTT(30) DEF HeldFor, Buffered
    <3>2. p \o <<>> = p
      BY <2>1, CatNone, SMTT(30)
    <3>3. Flow(s, w)' = p \o append(buf, d)
      BY <1>1, <3>1, <3>2, SMTT(30) DEF Flow
    <3> QED
      BY <2>1, <2>5, <3>3, Cat
  <2>8. Rising(p \o buf, b) /\ (s \notin done => Tight(p \o buf, b))
    BY <2>6, SMTT(30) DEF FlowInv
  <2> HIDE DEF p, buf, d, b
  <2> DEFINE q == p \o buf
             r == p \o append(buf, d)
  <2>9. PICK k \in 0 .. Len(q) - Len(p) :
           Moved(q, r, Len(p), k, b, Len(d)) /\ (k > 0 => Len(r) - Len(p) >= BufferSize)
    BY <2>1, <2>4, AppendMoves
  <2>10. q \in Buffers /\ r \in Buffers /\ Rising(q, b) /\ (s \notin done => Tight(q, b))
    BY <2>6, <2>7, <2>8, SMTT(30)
  <2>11. Len(p) \in 0 .. Len(q)
    <3>1. Len(q) = Len(p) + Len(buf) /\ Len(p) \in Nat /\ Len(buf) \in Nat
      BY <2>1, Cat, Elements, SMTT(30)
    <3> HIDE DEF q
    <3> QED
      BY <3>1, SMTT(30)
  <2> HIDE DEF q, r
  <2>12. Rising(r, b + Len(d))
    BY <2>1, <2>9, <2>10, <2>11, MovedRising, SMTT(30)
  <2>13. s \notin done => Tight(r, b + Len(d))
    BY <2>1, <2>9, <2>10, <2>11, MovedTight
  <2>14. Flow(s, w)' = r /\ done' = done
    BY <1>1, <2>7, SMTT(30) DEF r
  <2> QED
    BY <2>3, <2>12, <2>13, <2>14 DEF FlowInv, Rising, Tight, Follows
<1> QED
  BY <1>3, <1>4

\* And puts the buffer in its channel.
LEMMA FlowSend ==
    ASSUME TeeInv, TypeOK', NEW s \in Sinks, NEW w \in Writers, FlowInv(s, w), Send(w)
    PROVE  FlowInv(s, w)'
<1>0. TypeOK /\ WriteInv(w)
  BY DEF TeeInv
<1>1. /\ UNCHANGED <<done, copying, delivered, todo, data, written, at>> /\ at[w] \in Sinks
      /\ writePc[w] = "send" /\ writePc'[w] = "range" /\ channel[at[w]] = <<>>
      /\ channel'[s] = IF at[w] = s THEN <<held[w]>> ELSE channel[s]
  BY <1>0, SMTT(30) DEF Send, sinkVars, TypeOK, WriteInv
<1>2. HeldFor(s, w)' = <<>> /\ Seen(s, w)' = Seen(s, w)
  BY <1>1 DEF HeldFor, Seen
<1>3. CASE at[w] # s
  <2>1. HeldFor(s, w) = <<>> /\ Buffered(s)' = Buffered(s)
    BY <1>1, <1>3 DEF HeldFor, Buffered
  <2>2. Flow(s, w)' = Flow(s, w)
    BY <1>1, <1>2, <2>1 DEF Flow
  <2> QED
    BY <1>1, <1>2, <2>2, FlowSame
<1>4. CASE at[w] = s
  <2> DEFINE p == delivered[s] \o copying[s]
  <2>1. p \in Buffers /\ held[w] \in Buffers
    BY <1>0, FlowType, SMTT(30) DEF TypeOK
  <2>2. p \o held[w] \in Buffers
    BY <2>1, Cat
  <2>3. HeldFor(s, w) = held[w] /\ Buffered(s) = <<>> /\ Buffered(s)' = held[w]
    BY <1>1, <1>4, SMTT(30) DEF HeldFor, Buffered
  <2>4. Flow(s, w) = p \o held[w]
    BY <2>1, <2>3, CatNone, SMTT(30) DEF Flow
  <2>5. Flow(s, w)' = p \o held[w]
    <3>1. Flow(s, w)' = (p \o held[w]) \o <<>>
      BY <1>1, <1>2, <2>3, SMTT(30) DEF Flow
    <3> QED
      BY <2>2, <3>1, CatNone
  <2> QED
    BY <1>1, <1>2, <2>4, <2>5, FlowSame
<1> QED
  BY <1>3, <1>4

\* The steps that only change which Writes will visit s.
LEMMA FlowVisits ==
    ASSUME TeeInv, TypeOK', NEW s \in Sinks, NEW w \in Writers, FlowInv(s, w),
           \/ \E t \in Sinks : Tee(t) \/ CancelCalled(t) \/ SinkReturns(t)
           \/ EndWrite(w)
           \/ \E n \in Sizes : BeginWrite(w, n)
           \/ UNCHANGED vars
    PROVE  FlowInv(s, w)'
<1>0. TypeOK /\ SinkInv(s) /\ WriteInv(w)
  BY DEF TeeInv
<1>1. UNCHANGED <<delivered, copying, channel, held, at>> /\ done \subseteq done'
  BY DEF Tee, CancelCalled, cancel, SinkReturns, EndWrite, BeginWrite, vars, sinkVars, writeVars
<1>2. HeldFor(s, w)' = HeldFor(s, w)
  <2>1. CASE writePc'[w] = writePc[w]
    BY <1>1, <2>1 DEF HeldFor
  <2>2. CASE EndWrite(w) \/ \E n \in Sizes : BeginWrite(w, n)
    <3>1. writePc[w] # "send" /\ writePc'[w] # "send"
      BY <1>0, <2>2, SMTT(30) DEF EndWrite, BeginWrite, TypeOK
    <3> QED
      BY <3>1 DEF HeldFor
  <2> QED
    BY <2>1, <2>2, SMTT(30) DEF Tee, CancelCalled, SinkReturns, vars, writeVars
<1>3. written[w] \in Nat /\ Len(data[w]) \in Nat
  BY <1>0, Elements DEF TypeOK
<1>4. s \notin keys => s \in done' \/ Flow(s, w) = <<>>
  BY <1>0, <1>1, FlowNone DEF SinkInv
<1>5. ASSUME NEW t \in Sinks, Tee(t) PROVE FlowInv(s, w)'
  <2>1. CASE t = s
    <3>1. Flow(s, w) = <<>> /\ Flow(s, w)' = Flow(s, w)
      BY <1>1, <1>2, <1>5, <2>1, FlowNone DEF Tee, Flow, Buffered
    <3>2. Len(Flow(s, w)') = 0
      BY <3>1, Empty
    <3>3. Rising(Flow(s, w)', Seen(s, w)') /\ Tight(Flow(s, w)', Seen(s, w)')
      BY <3>2, SMTT(30) DEF Rising, Tight
    <3> QED
      BY <3>3 DEF FlowInv, Rising, Tight, Follows
  <2>2. CASE t # s
    <3>1. (s \in todo'[w] <=> s \in todo[w]) /\ UNCHANGED <<data, written>>
      BY <1>0, <1>5, <2>2, SMTT(30) DEF Tee, TypeOK
    <3>2. Seen(s, w)' = Seen(s, w)
      BY <3>1 DEF Seen
    <3> QED
      BY <1>1, <1>2, <3>2, FlowKept, SMTT(30)
  <2> QED
    BY <2>1, <2>2, SMTT(30)
<1>6. CASE UNCHANGED <<todo, data, written>>
  <2>1. Seen(s, w)' = Seen(s, w)
    BY <1>6 DEF Seen
  <2> QED
    BY <1>1, <1>2, <2>1, FlowKept
<1>7. CASE EndWrite(w)
  <2>1. todo'[w] = {} /\ written' = written /\ todo[w] \cap keys = {}
    BY <1>0, <1>7, SMTT(30) DEF EndWrite, TypeOK
  <2>2. Seen(s, w)' = written'[w] /\ written[w] <= written'[w]
    <3>1. Seen(s, w)' = written'[w]
      BY <2>1 DEF Seen
    <3>2. written[w] <= written'[w]
      BY <1>3, <2>1, SMTT(30)
    <3> QED
      BY <3>1, <3>2
  <2>3. CASE s \in todo[w]
    BY <1>1, <1>2, <1>4, <2>1, <2>2, <2>3, FlowKept
  <2>4. CASE s \notin todo[w]
    <3>1. Seen(s, w)' = Seen(s, w)
      BY <2>1, <2>2, <2>4 DEF Seen
    <3> QED
      BY <1>1, <1>2, <3>1, FlowKept
  <2> QED
    BY <2>3, <2>4
<1>8. ASSUME NEW n \in Sizes, BeginWrite(w, n) PROVE FlowInv(s, w)'
  <2>1. n \in Nat /\ written'[w] = written[w] + n /\ Len(data'[w]) = n
    BY <1>0, <1>8, Begun, SMTT(30)
  <2>2. todo'[w] = keys /\ todo[w] = {}
    BY <1>0, <1>8, SMTT(30) DEF BeginWrite, TypeOK, WriteInv
  <2>4. Seen(s, w) = written[w]
    BY <2>2 DEF Seen
  <2>5. CASE s \in keys
    <3>1. Seen(s, w)' = (written[w] + n) - n
      BY <2>1, <2>2, <2>5 DEF Seen
    <3>2. (written[w] + n) - n = written[w]
      BY <1>3, <2>1, SMTT(30)
    <3>3. Seen(s, w)' = Seen(s, w)
      BY <2>4, <3>1, <3>2
    <3> QED
      BY <1>1, <1>2, <3>3, FlowKept, SMTT(30)
  <2>6. CASE s \notin keys
    <3>1. Seen(s, w)' = written'[w] /\ written[w] <= written'[w]
      <4>1. Seen(s, w)' = written'[w]
        BY <2>2, <2>6 DEF Seen
      <4>2. written[w] <= written'[w]
        BY <1>3, <2>1, SMTT(30)
      <4> QED
        BY <4>1, <4>2
    <3> QED
      BY <1>1, <1>2, <1>4, <2>6, <3>1, FlowKept
  <2> QED
    BY <2>5, <2>6
<1> QED
  BY <1>5, <1>6, <1>7, <1>8, SMTT(30) DEF CancelCalled, SinkReturns, vars, writeVars

LEMMA FlowStep ==
    ASSUME NEW w \in Writers, Writers = {w}, TeeInv, [Next]_vars,
           \A s \in Sinks : FlowInv(s, w)
    PROVE  \A s \in Sinks : FlowInv(s, w)'
<1> SUFFICES ASSUME NEW s \in Sinks PROVE FlowInv(s, w)'
  OBVIOUS
<1>0. TypeOK' /\ FlowInv(s, w)
  BY TypeStep
<1>1. CASE \E t \in Sinks : SinkTakes(t) \/ SinkCopied(t)
  BY <1>0, <1>1, FlowSink
<1>2. CASE \E t \in Sinks : SinkFails(t)
  BY <1>0, <1>2, FlowFails
<1>3. CASE \E t \in Sinks : Take(w, t)
  BY <1>0, <1>3, FlowTake, SMTT(30)
<1>4. CASE Send(w)
  BY <1>0, <1>4, FlowSend, SMTT(30)
<1>5. CASE \/ \E t \in Sinks : Tee(t) \/ CancelCalled(t) \/ SinkReturns(t)
           \/ EndWrite(w)
           \/ \E n \in Sizes : BeginWrite(w, n)
           \/ UNCHANGED vars
  BY <1>0, <1>5, FlowVisits, SMTT(30)
<1> QED
  BY <1>1, <1>2, <1>3, <1>4, <1>5, SMTT(30) DEF Next, SinkGoroutine, WriteSteps

\* "writes are dropped if the writer wr cannot keep up with the write volume"
\* (Tee), and only then, for any number of sinks, canceled or failing at any
\* time, and any buffer: the bytes of a single writer reach each sink in order
\* and at most once, and a full buffer follows every gap.
THEOREM BytesDroppedWhenFull ==
    ASSUME NEW w \in Writers, Writers = {w}
    PROVE  Spec => []DropsOnlyWhenFull
<1> DEFINE Inv == \A s \in Sinks : FlowInv(s, w)
<1>1. Init => Inv
  <2> SUFFICES ASSUME Init, NEW s \in Sinks PROVE FlowInv(s, w)
    OBVIOUS
  <2>1. TeeInv /\ sinkPc[s] = "off"
    BY TeeInvInit DEF Init
  <2>2. Len(Flow(s, w)) = 0
    BY <2>1, FlowNone, Empty, SMTT(30)
  <2> QED
    BY <2>2, SMTT(30) DEF FlowInv, Rising, Tight
<1>2. TeeInv /\ Inv /\ [Next]_vars => Inv'
  BY FlowStep
<1>3. TeeInv /\ Inv => DropsOnlyWhenFull
  <2> SUFFICES ASSUME TeeInv, Inv, NEW s \in Sinks, NEW i \in 1 .. Len(Stream(s)) - 1
               PROVE  /\ Stream(s)[i + 1][2] > Stream(s)[i][2]
                      /\ s \notin done /\ Stream(s)[i + 1][2] # Stream(s)[i][2] + 1
                            => Len(Stream(s)) - i >= BufferSize
    BY DEF DropsOnlyWhenFull
  <2> DEFINE q == Flow(s, w)
             b == Seen(s, w)
  <2>1. Stream(s) = q
    <3>1. (CHOOSE v \in Writers : TRUE) = w
      OBVIOUS
    <3> QED
      BY <3>1 DEF Stream, Flow
  <2>2. q \in Buffers /\ Len(q) \in Nat /\ \A j \in 1 .. Len(q) : q[j][2] \in Nat
    BY FlowType, Elements
  <2>3. Rising(q, b) /\ (s \notin done => Tight(q, b))
    BY DEF FlowInv
  <2> HIDE DEF q, b
  <2>4. i \in 1 .. Len(q) /\ i + 1 \in 1 .. Len(q) /\ i < Len(q) /\ i < i + 1
    BY <2>1, <2>2, SMTT(30)
  <2>5. q[i][2] < q[i + 1][2]
    BY <2>3, <2>4 DEF Rising
  <2>6. s \notin done /\ q[i + 1][2] # q[i][2] + 1 => Len(q) - i >= BufferSize
    BY <2>3, <2>4 DEF Tight, Follows
  <2> QED
    BY <2>1, <2>2, <2>4, <2>5, <2>6
<1> QED
  BY <1>1, <1>2, <1>3, TeeInvHolds, PTL DEF Spec

=============================================================================

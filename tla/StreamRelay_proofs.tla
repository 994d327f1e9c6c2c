------------------------- MODULE StreamRelay_proofs -------------------------
(***************************************************************************)
(* Proofs about StreamRelay for answers of any length, at any pace of      *)
(* upstream, goroutine, proxy and client.                                  *)
(***************************************************************************)
EXTENDS StreamRelay, TLAPS

\* The response's headers have been passed on.
Started == proxy \notin {"call", "failed"}

\* Before that nothing has happened; afterwards there is a goroutine exactly for
\* a stream.
StartInv ==
  /\ ~Started => /\ relay = "none" /\ sent = <<>> /\ next = 0
                 /\ pipe = <<>> /\ buffer = <<>> /\ received = <<>>
  /\ relay # "none" => streaming
  /\ Started /\ streaming => relay # "none"

\* A line scanned and not yet read from the pipe.
Pending == IF relay = "write" \/ pipe # <<>> THEN 1 ELSE 0

\* What line i should be to the client.
Expected(i) == [line |-> sent[i], padded |-> streaming /\ sent[i] = "delta"]

\* The client has every line that was scanned, or read by the copy, except the
\* pending one and the one in the copy's buffer; a client that has left has a part
\* of them.
CountInv ==
  /\ Len(received) + Len(buffer) + Pending <= next
  /\ ~gone => Len(received) + Len(buffer) + Pending = next
  /\ pipe # <<>> => pipe = <<Expected(next)>>
  /\ ~gone /\ buffer # <<>> => buffer = <<Expected(Len(received) + 1)>>

\* Nothing is left for the scanner to return.
Exhausted ==
  \/ next = Len(sent) /\ fate # "open"
  \/ next < Len(sent) /\ sent[next + 1] = "long"

\* For a client that stays, the goroutine ends when the body is exhausted, and the
\* copy when the goroutine has closed the pipe.
EndInv ==
  /\ ~gone /\ relay \in {"close", "closeBody", "ended"} => Exhausted
  /\ ~gone /\ streaming /\ ReaderClosed => WriterClosed /\ proxy = "complete"
  /\ ~streaming /\ proxy = "complete" => next = Len(sent) /\ fate = "eof"
  /\ ~gone /\ ~streaming /\ proxy = "aborted" => fate = "failed"

RelayInv == RelayTypeOK /\ StartInv /\ CountInv /\ LinesInOrder /\ EndInv

-----------------------------------------------------------------------------
\* The invariant holds before the upstream is called.
LEMMA InitRelayInv == RelayInit => RelayInv
<1> SUFFICES ASSUME RelayInit PROVE RelayInv
  OBVIOUS
<1> USE DEF RelayInit
<1>0. <<>> \in Seq(Kinds) /\ <<>> \in Seq(Delivery) /\ Len(<<>>) = 0
  OBVIOUS
<1>1. RelayTypeOK
  <2>1. sent \in Seq(Kinds) /\ Len(sent) = 0 /\ 0 <= MaxLines
    BY <1>0, MaxLinesAssumption
  <2>2. next \in 0..Len(sent)
    BY <2>1
  <2>3. /\ pipe \in Seq(Delivery) /\ Len(pipe) <= 1
        /\ buffer \in Seq(Delivery) /\ Len(buffer) <= 1 /\ received \in Seq(Delivery)
    BY <1>0
  <2> QED BY <2>1, <2>2, <2>3 DEF RelayTypeOK, ProxyStates, RelayStates
<1>2. StartInv /\ EndInv
  BY DEF StartInv, Started, EndInv, ReaderClosed, WriterClosed
<1>3. CountInv /\ LinesInOrder
  BY DEF CountInv, Pending, LinesInOrder
<1> QED BY <1>1, <1>2, <1>3 DEF RelayInv

\* What a line becomes on its way.
LEMMA Padding ==
  ASSUME RelayTypeOK, NEW i \in 1..Len(sent)
  PROVE  /\ Expected(i) \in Delivery
         /\ streaming => addPaddingToStreamChunk(sent[i]) = Expected(i)
         /\ ~streaming => [line |-> sent[i], padded |-> FALSE] = Expected(i)
         /\ Expected(i).line = sent[i]
         /\ Expected(i).padded <=> (streaming /\ sent[i] = "delta")
<1>1. sent[i] \in Kinds
  BY DEF RelayTypeOK
<1> QED BY <1>1 DEF addPaddingToStreamChunk, Expected, Delivery, RelayTypeOK

\* The upstream's next line disturbs nothing that was counted on its lines so far.
LEMMA SentGrows ==
  ASSUME RelayInv, NEW k \in Kinds, sent' = Append(sent, k), fate = "open",
         Len(sent) < MaxLines, Started,
         UNCHANGED <<streaming, client, proxy, relay, next, pipe, buffer, received>>,
         fate' \in {"open", "failed"}
  PROVE  RelayInv'
<1> USE DEF RelayInv, client
<1>1. /\ sent \in Seq(Kinds) /\ sent' \in Seq(Kinds) /\ Len(sent') = Len(sent) + 1
      /\ \A i \in 1..Len(sent) : sent'[i] = sent[i]
      /\ Len(sent) \in Nat
  BY DEF RelayTypeOK
<1>2. /\ next \in 0..Len(sent) /\ received \in Seq(Delivery) /\ Len(received) \in Nat
      /\ buffer \in Seq(Delivery) /\ Len(buffer) \in Nat
  BY DEF RelayTypeOK
<1>3. RelayTypeOK'
  BY <1>1, <1>2, MaxLinesAssumption DEF RelayTypeOK
<1>4. StartInv'
  BY DEF StartInv, Started
<1>5. Len(received) <= next
  BY <1>2 DEF CountInv, Pending
<1>6. /\ pipe # <<>> => next \in 1..Len(sent)
      /\ ~gone /\ buffer # <<>> => Len(received) + 1 \in 1..Len(sent)
  <2>1. buffer # <<>> => Len(buffer) >= 1
    BY <1>2
  <2> QED BY <1>1, <1>2, <2>1 DEF CountInv, Pending
<1>7. CountInv'
  <2>1. \A i \in 1..Len(sent) : Expected(i)' = Expected(i)
    BY <1>1 DEF Expected
  <2>2. pipe' # <<>> => pipe' = <<Expected(next)'>>
    BY <1>6, <2>1 DEF CountInv
  <2>3. ~gone' /\ buffer' # <<>> => buffer' = <<Expected(Len(received) + 1)'>>
    BY <1>6, <2>1 DEF CountInv
  <2> QED BY <2>2, <2>3 DEF CountInv, Pending, Expected
<1>8. LinesInOrder'
  BY <1>1, <1>2, <1>5 DEF LinesInOrder
<1>9. EndInv'
  BY <1>1, <1>2 DEF EndInv, Exhausted, ReaderClosed, WriterClosed
<1> QED BY <1>3, <1>4, <1>7, <1>8, <1>9

\* Every step of goroutine, proxy, upstream and client preserves it.
LEMMA NextRelayInv == RelayInv /\ [RelayNext]_relayVars => RelayInv'
<1> SUFFICES ASSUME RelayInv, [RelayNext]_relayVars PROVE RelayInv'
  OBVIOUS
<1> USE DEF RelayInv, client
<1>0. /\ sent \in Seq(Kinds) /\ Len(sent) \in Nat /\ next \in 0..Len(sent)
      /\ received \in Seq(Delivery) /\ Len(received) \in Nat
      /\ pipe \in Seq(Delivery)
      /\ buffer \in Seq(Delivery) /\ Len(buffer) \in Nat /\ Len(buffer) <= 1
      /\ buffer # <<>> <=> Len(buffer) = 1
  <2>1. buffer \in Seq(Delivery) /\ Len(buffer) \in Nat /\ Len(buffer) <= 1
    BY DEF RelayTypeOK
  <2>2. buffer = <<>> <=> Len(buffer) = 0
    BY <2>1
  <2>3. \A n \in Nat : n <= 1 => (n # 0 <=> n = 1)
    OBVIOUS
  <2>4. buffer # <<>> <=> Len(buffer) = 1
    BY ONLY <2>1, <2>2, <2>3, Zenon
  <2>5. /\ sent \in Seq(Kinds) /\ Len(sent) \in Nat /\ next \in 0..Len(sent)
        /\ received \in Seq(Delivery) /\ Len(received) \in Nat
        /\ pipe \in Seq(Delivery)
    BY DEF RelayTypeOK
  <2> QED BY <2>1, <2>4, <2>5
<1>1. CASE SendLine
  BY <1>1, SentGrows DEF SendLine, Started, Kinds
<1>2. CASE EndBody
  <2>1. CASE sent' = sent
    BY <1>0, <1>2, <2>1 DEF EndBody, RelayTypeOK, StartInv, Started, CountInv, Pending, Expected,
      LinesInOrder, EndInv, Exhausted, ReaderClosed, WriterClosed
  <2>2. CASE sent' = Append(sent, "torn") /\ Len(sent) < MaxLines /\ fate' = "failed"
    BY <1>2, <2>2, SentGrows DEF EndBody, Started, Kinds
  <2> QED BY <1>2, <2>1, <2>2 DEF EndBody
<1>3. CASE RoundTrip
  BY <1>0, <1>3 DEF RoundTrip, RelayTypeOK, ProxyStates, RelayStates, StartInv, Started, CountInv,
      Pending, Expected, LinesInOrder, EndInv, ReaderClosed, WriterClosed
<1>4. CASE Scan
  <2>1. RelayTypeOK'
    BY <1>0, <1>4 DEF Scan, RelayTypeOK, RelayStates
  <2>2. StartInv' /\ LinesInOrder'
    BY <1>4 DEF Scan, StartInv, Started, LinesInOrder
  <2>3. CountInv'
    BY <1>0, <1>4 DEF Scan, RelayTypeOK, StartInv, CountInv, Pending, Expected
  <2>4. EndInv'
    BY <1>0, <1>4 DEF Scan, StartInv, EndInv, Exhausted, Cancelled, ReaderClosed, WriterClosed
  <2> QED BY <2>1, <2>2, <2>3, <2>4
<1>5. CASE Write
  <2>1. /\ streaming /\ pipe = <<>> /\ next \in 1..Len(sent)
    BY <1>0, <1>5 DEF Write, RelayTypeOK, StartInv, CountInv, Pending
  <2>2. /\ pipe' = <<Expected(next)>>
        /\ pipe' \in Seq(Delivery) /\ Len(pipe') = 1 /\ pipe' # <<>>
    BY <1>5, <2>1, Padding DEF Write
  <2>3. RelayTypeOK'
    BY <1>5, <2>2 DEF Write, RelayTypeOK, RelayStates
  <2>4. StartInv' /\ LinesInOrder' /\ EndInv'
    BY <1>5 DEF Write, StartInv, Started, LinesInOrder, EndInv, ReaderClosed, WriterClosed
  <2>5. CountInv'
    BY <1>0, <1>5, <2>1, <2>2 DEF Write, CountInv, Pending, Expected
  <2> QED BY <2>3, <2>4, <2>5
<1>6. CASE Written
  <2>1. RelayTypeOK'
    BY <1>6 DEF Written, RelayTypeOK, RelayStates
  <2>2. StartInv' /\ LinesInOrder' /\ EndInv'
    BY <1>6 DEF Written, StartInv, Started, LinesInOrder, EndInv, ReaderClosed, WriterClosed
  <2>3. CountInv'
    BY <1>0, <1>6 DEF Written, RelayTypeOK, StartInv, CountInv, Pending, Expected, EndInv, WriterClosed
  <2> QED BY <2>1, <2>2, <2>3
<1>7. CASE Close \/ CloseBody
  <2>1. RelayTypeOK'
    BY <1>7 DEF Close, CloseBody, RelayTypeOK, RelayStates
  <2>2. StartInv' /\ CountInv' /\ LinesInOrder' /\ EndInv'
    BY <1>7 DEF Close, CloseBody, StartInv, Started, CountInv, Pending, Expected, LinesInOrder, EndInv,
      Exhausted, ReaderClosed, WriterClosed
  <2> QED BY <2>1, <2>2
<1>8. CASE ReadPipe
  <2>1. /\ streaming /\ proxy = "copy" /\ buffer = <<>> /\ pipe # <<>> /\ relay = "wait"
        /\ pipe' = <<>> /\ buffer' = <<Expected(next)>>
        /\ UNCHANGED <<streaming, sent, fate, client, proxy, relay, next, received>>
    BY <1>8 DEF ReadPipe, RelayTypeOK, CountInv
  <2>2. /\ next \in 1..Len(sent) /\ Len(received) + 1 <= next
        /\ ~gone => next = Len(received) + 1
    BY <1>0, <2>1 DEF CountInv, Pending
  <2>3. buffer' \in Seq(Delivery) /\ Len(buffer') = 1 /\ buffer' # <<>>
    BY <2>1, <2>2, Padding
  <2>4. RelayTypeOK'
    BY <2>1, <2>3 DEF RelayTypeOK
  <2>5. StartInv' /\ LinesInOrder' /\ EndInv'
    BY <2>1 DEF StartInv, Started, LinesInOrder, EndInv, Exhausted, ReaderClosed, WriterClosed
  <2>6. CountInv'
    BY <1>0, <2>1, <2>2, <2>3 DEF CountInv, Pending, Expected
  <2> QED BY <2>4, <2>5, <2>6
<1>9. CASE ReadEOF
  BY <1>0, <1>9 DEF ReadEOF, RelayTypeOK, ProxyStates, StartInv, Started, CountInv, Pending,
    Expected, LinesInOrder, EndInv, Exhausted, ReaderClosed, WriterClosed
<1>10. CASE ReadBody
  <2>1. /\ ~streaming /\ proxy = "copy" /\ buffer = <<>> /\ relay = "none" /\ pipe = <<>>
        /\ UNCHANGED <<streaming, sent, fate, client, relay, pipe, received>>
    BY <1>10 DEF ReadBody, StartInv, RelayTypeOK
  <2>2. CASE next < Len(sent) /\ next' = next + 1 /\ proxy' = proxy
             /\ buffer' = <<[line |-> sent[next + 1], padded |-> FALSE]>>
    <3>1. next + 1 \in 1..Len(sent)
      BY <1>0, <2>2
    <3>2. /\ buffer' = <<Expected(next + 1)>>
          /\ buffer' \in Seq(Delivery) /\ Len(buffer') = 1 /\ buffer' # <<>>
      <4>1. /\ Expected(next + 1) \in Delivery
            /\ [line |-> sent[next + 1], padded |-> FALSE] = Expected(next + 1)
        BY <2>1, <3>1, Padding
      <4>2. buffer' = <<Expected(next + 1)>>
        BY <2>2, <4>1
      <4> QED BY <4>1, <4>2
    <3>3. RelayTypeOK'
      BY <1>0, <2>1, <2>2, <3>1, <3>2 DEF RelayTypeOK
    <3>4. StartInv' /\ LinesInOrder' /\ EndInv'
      BY <2>1, <2>2 DEF StartInv, Started, LinesInOrder, EndInv, ReaderClosed
    <3>5. CountInv'
      <4>1. ~gone => Len(received) = next
        BY <1>0, <2>1 DEF CountInv, Pending
      <4>2. ~gone' => buffer' = <<Expected(Len(received) + 1)>>
        BY <2>1, <3>2, <4>1
      <4>3. ~gone' => buffer' = <<Expected(Len(received) + 1)'>>
        BY <2>1, <4>2 DEF Expected
      <4> QED BY <1>0, <2>1, <2>2, <3>2, <4>1, <4>3 DEF CountInv, Pending
    <3> QED BY <3>3, <3>4, <3>5
  <2>3. CASE UNCHANGED <<next, buffer>>
             /\ \/ next = Len(sent) /\ fate = "eof" /\ proxy' = "complete"
                \/ (gone \/ fate = "failed") /\ proxy' = "aborted"
    BY <2>1, <2>3 DEF RelayTypeOK, ProxyStates, StartInv, Started, CountInv, Pending,
      Expected, LinesInOrder, EndInv, ReaderClosed
  <2> QED BY <1>10, <2>2, <2>3 DEF ReadBody
<1>11. CASE WriteClient
  <2>1. /\ proxy = "copy" /\ Len(buffer) = 1 /\ buffer # <<>> /\ buffer' = <<>>
        /\ UNCHANGED <<streaming, sent, fate, client, relay, next, pipe>>
    BY <1>0, <1>11 DEF WriteClient
  <2>2. CASE gone
    <3>1. proxy' \in {"copy", "aborted"} /\ received' = received
      BY <1>11, <2>2 DEF WriteClient
    <3> QED BY <1>0, <2>1, <2>2, <3>1 DEF RelayTypeOK, ProxyStates, StartInv, Started, CountInv,
          Pending, Expected, LinesInOrder, EndInv
  <2>3. CASE ~gone
    <3>1. received' = received \o buffer /\ proxy' = proxy
      BY <1>11, <2>3 DEF WriteClient
    <3> DEFINE n == Len(received) + 1
    <3>2. n \in 1..Len(sent) /\ n + Pending = next /\ buffer = <<Expected(n)>>
      BY <1>0, <2>1, <2>3 DEF CountInv, Pending
    <3>3. /\ Expected(n) \in Delivery /\ Expected(n).line = sent[n]
          /\ Expected(n).padded <=> (streaming /\ sent[n] = "delta")
      BY <3>2, Padding
    <3>4. /\ received' \in Seq(Delivery) /\ Len(received') = n
          /\ received'[n] = Expected(n)
          /\ \A i \in 1..Len(received) : received'[i] = received[i]
      BY <1>0, <3>1, <3>2, <3>3
    <3>5. RelayTypeOK'
      BY <2>1, <3>1, <3>4 DEF RelayTypeOK
    <3>6. StartInv' /\ EndInv'
      BY <2>1, <3>1 DEF StartInv, Started, EndInv, Exhausted, ReaderClosed, WriterClosed
    <3>7. CountInv'
      BY <1>0, <2>1, <3>2, <3>4 DEF CountInv, Pending, Expected
    <3>8. LinesInOrder'
      <4> SUFFICES ASSUME NEW i \in 1..Len(received')
                   PROVE /\ received'[i].line = sent[i]
                         /\ received'[i].padded <=> (streaming /\ sent[i] = "delta")
        BY <1>0, <2>1, <3>2, <3>4 DEF LinesInOrder
      <4>1. CASE i = n
        BY <3>3, <3>4, <4>1
      <4>2. CASE i # n
        <5>1. i \in 1..Len(received)
          BY <1>0, <3>4, <4>2
        <5> QED BY <3>4, <5>1 DEF LinesInOrder
      <4> QED BY <4>1, <4>2
    <3> QED BY <3>5, <3>6, <3>7, <3>8
  <2> QED BY <2>2, <2>3
<1>12. CASE Client
  <2>1. RelayTypeOK'
    BY <1>12 DEF Client, ClientStalls, ClientResumes, ClientLeaves, RelayTypeOK
  <2>2. StartInv' /\ LinesInOrder'
    BY <1>12 DEF Client, ClientStalls, ClientResumes, ClientLeaves, StartInv, Started,
      LinesInOrder
  <2>3. CountInv'
    BY <1>12 DEF Client, ClientStalls, ClientResumes, ClientLeaves, CountInv, Pending, Expected
  <2>4. EndInv'
    BY <1>12 DEF Client, ClientStalls, ClientResumes, ClientLeaves, EndInv, Exhausted,
      ReaderClosed, WriterClosed
  <2> QED BY <2>1, <2>2, <2>3, <2>4
<1>13. CASE UNCHANGED relayVars
  BY <1>13 DEF relayVars, RelayTypeOK, StartInv, Started, CountInv, Pending, Expected,
    LinesInOrder, EndInv, Exhausted, ReaderClosed, WriterClosed
<1> QED
  BY <1>1, <1>2, <1>3, <1>4, <1>5, <1>6, <1>7, <1>8, <1>9, <1>10, <1>11, <1>12, <1>13
  DEF RelayNext, Goroutine, Proxy, Upstream

\* The invariant holds throughout.
THEOREM RelayInductive == RelaySpec => []RelayInv
  BY InitRelayInv, NextRelayInv, PTL DEF RelaySpec

\* The types, and that the pipe holds a line only while its writer waits.
THEOREM RelayTypeCorrect == RelaySpec => []RelayTypeOK
<1>1. RelayInv => RelayTypeOK
  BY DEF RelayInv
<1> QED BY RelayInductive, <1>1, PTL

\* The client gets the upstream's lines in order, none missing and none twice,
\* however long the answer is.
THEOREM InOrder == RelaySpec => []LinesInOrder
<1>1. RelayInv => LinesInOrder
  BY DEF RelayInv
<1> QED BY RelayInductive, <1>1, PTL

\* A response that looks complete to a client that stayed is complete, but for an
\* upstream that failed and a line too long; a stream never looks aborted.
THEOREM Complete == RelaySpec => []CompleteMeansAll
<1>1. RelayInv => CompleteMeansAll
  <2> SUFFICES ASSUME RelayInv, ~gone PROVE CompleteMeansAll
    BY DEF CompleteMeansAll
  <2> USE DEF RelayInv
  <2>1. ASSUME streaming, ReaderClosed
        PROVE  proxy = "complete" /\ Len(received) = next /\ Exhausted
    <3>1. WriterClosed /\ proxy = "complete"
      BY <2>1 DEF EndInv
    <3>2. pipe = <<>> /\ buffer = <<>> /\ Len(received) \in Nat
      BY <3>1 DEF WriterClosed, RelayTypeOK
    <3> QED BY <2>1, <3>1, <3>2 DEF EndInv, WriterClosed, CountInv, Pending
  <2>2. ASSUME ~streaming
        PROVE  /\ proxy = "complete" => Len(received) = Len(sent) /\ fate = "eof"
               /\ proxy = "aborted" => fate = "failed"
    <3>1. proxy = "complete" => pipe = <<>> /\ buffer = <<>> /\ relay = "none"
      BY <2>2 DEF RelayTypeOK, StartInv
    <3> QED BY <2>2, <3>1 DEF RelayTypeOK, CountInv, Pending, EndInv
  <2> QED BY <2>1, <2>2 DEF CompleteMeansAll, Exhausted, ReaderClosed, RelayTypeOK
<1> QED BY RelayInductive, <1>1, PTL

=============================================================================

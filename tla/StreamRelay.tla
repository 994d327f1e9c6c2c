---------------------------- MODULE StreamRelay ----------------------------
(***************************************************************************)
(* streamTransport.RoundTrip (openai_proxy.go) from the upstream request   *)
(* on: one chat completion, with or without "stream": true.  For a stream, *)
(* a goroutine scans the upstream's body line by line, pads the deltas and *)
(* writes to a pipe that httputil.ReverseProxy copies to the client.       *)
(* Without "stream" the proxy copies the upstream's body itself.           *)
(*                                                                         *)
(* A line of the body is known by its kind.  The upstream may break off in *)
(* the middle of a line, and the client may leave, or stay and stop        *)
(* reading, at any time.                                                   *)
(***************************************************************************)
EXTENDS Naturals, Sequences

CONSTANT MaxLines        \* bound: lines of the upstream's answer

ASSUME MaxLinesAssumption == MaxLines \in Nat

\* "data: " lines with a delta, without one, or that are no JSON object; the
\* end mark; any other line; a line the scanner's 64 KiB buffer cannot hold.
Whole == {"delta", "plain", "bad", "done", "other", "long"}

\* What is left of a line when the upstream breaks off within it.
Kinds == Whole \cup {"torn"}

VARIABLES
  streaming,   \* cr.Stream
  sent,        \* the upstream's body so far, as lines
  fate,        \* of the upstream's body: "open", "eof" or "failed"
  gone,        \* the client has closed its connection
  stalled,     \* the client stays and does not read, and the socket's buffers are full
  proxy,       \* where ReverseProxy.ServeHTTP is
  relay,       \* where the goroutine is
  next,        \* lines scanned, or without the goroutine copied, so far
  pipe,        \* what pw.Write is offering: at most one line
  buffer,      \* what the copy has read and not yet written: at most one line
  received     \* what the client got

client    == <<gone, stalled>>
relayVars == <<streaming, sent, fate, client, proxy, relay, next, pipe, buffer,
               received>>

ProxyStates == {"call", "copy", "complete", "aborted", "failed"}
RelayStates == {"none", "scan", "write", "wait", "close", "closeBody", "ended"}

\* ReverseProxy closes resp.Body, here the pipe's reader, when it is done.
ReaderClosed == proxy \in {"complete", "aborted"}
WriterClosed == relay \in {"closeBody", "ended"}

\* The request's context, on which reading the upstream's body depends.
Cancelled == gone \/ ReaderClosed

RelayInit ==
  /\ streaming \in BOOLEAN
  /\ sent = <<>> /\ fate = "open"
  /\ gone = FALSE /\ stalled = FALSE
  /\ proxy = "call"
  /\ relay = "none"
  /\ next = 0
  /\ pipe = <<>> /\ buffer = <<>>
  /\ received = <<>>

-----------------------------------------------------------------------------
\* The upstream.  Its body comes after its headers.

SendLine ==
  /\ proxy \notin {"call", "failed"} /\ fate = "open"
  /\ Len(sent) < MaxLines
  /\ \E k \in Whole : sent' = Append(sent, k)
  /\ UNCHANGED <<streaming, fate, client, proxy, relay, next, pipe, buffer,
                 received>>

EndBody ==
  /\ proxy \notin {"call", "failed"} /\ fate = "open"
  /\ \/ fate' = "eof" /\ UNCHANGED sent
     \/ /\ fate' = "failed"
        /\ \/ UNCHANGED sent
           \/ Len(sent) < MaxLines /\ sent' = Append(sent, "torn")
  /\ UNCHANGED <<streaming, client, proxy, relay, next, pipe, buffer,
                 received>>

-----------------------------------------------------------------------------
\* t.base.RoundTrip(req), then the start of the goroutine.
RoundTrip ==
  /\ proxy = "call"
  /\ \/ proxy' = "failed" /\ UNCHANGED relay
     \/ /\ proxy' = "copy"
        /\ relay' = IF streaming THEN "scan" ELSE "none"
  /\ UNCHANGED <<streaming, sent, fate, client, next, pipe, buffer, received>>

\* A faulty variant: the loop ends at the end mark.
Scan_StopsAtDone ==
  /\ relay = "scan" /\ next < Len(sent)
  /\ IF sent[next + 1] # "done"
       THEN relay' = "write" /\ next' = next + 1
       ELSE relay' = "close" /\ UNCHANGED next
  /\ UNCHANGED <<streaming, sent, fate, client, proxy, pipe, buffer, received>>

\* scanner.Scan(): the next line, the last one also when the body breaks off
\* within it; no more after the end, after an error, or at a line too long.
Scan ==
  /\ relay = "scan"
  /\ \/ /\ next < Len(sent) /\ sent[next + 1] # "long"
        /\ relay' = "write" /\ next' = next + 1
     \/ /\ next < Len(sent) /\ sent[next + 1] = "long"
        /\ relay' = "close" /\ UNCHANGED next
     \/ /\ next = Len(sent) /\ fate # "open"
        /\ relay' = "close" /\ UNCHANGED next
     \/ /\ Cancelled
        /\ relay' = "close" /\ UNCHANGED next
  /\ UNCHANGED <<streaming, sent, fate, client, proxy, pipe, buffer, received>>

\* A delta is written with its padding; every other line as it is, one that
\* fails to parse included.  The random number for the padding cannot fail: since
\* Go 1.24 crypto/rand.Reader ends the program rather than return an error.
addPaddingToStreamChunk(k) == [line |-> k, padded |-> k = "delta"]

\* A faulty variant: continue without writing the line that failed to parse.
Write_SkipsBadChunk ==
  /\ relay = "write"
  /\ IF sent[next] = "bad"
       THEN relay' = "scan" /\ UNCHANGED pipe
       ELSE pipe' = <<addPaddingToStreamChunk(sent[next])>> /\ relay' = "wait"
  /\ UNCHANGED <<streaming, sent, fate, client, proxy, next, buffer, received>>

\* pw.Write begins.
Write ==
  /\ relay = "write"
  /\ pipe' = <<addPaddingToStreamChunk(sent[next])>>
  /\ relay' = "wait"
  /\ UNCHANGED <<streaming, sent, fate, client, proxy, next, buffer, received>>

\* A faulty variant: a writer that does not wait for its reader.
Written_Early ==
  /\ relay = "wait"
  /\ relay' = "scan"
  /\ UNCHANGED <<streaming, sent, fate, client, proxy, next, pipe, buffer, received>>

\* A faulty variant: an unbuffered channel in place of the pipe, on which a
\* writer waits for ever once its reader is gone.
Written_NeedsReader ==
  /\ relay = "wait" /\ pipe = <<>>
  /\ relay' = "scan"
  /\ UNCHANGED <<streaming, sent, fate, client, proxy, next, pipe, buffer, received>>

\* pw.Write returns: what was offered is read, or there is no reader any more
\* (io.ErrClosedPipe, which the goroutine ignores).
Written ==
  /\ relay = "wait"
  /\ pipe = <<>> \/ ReaderClosed
  /\ pipe' = <<>>
  /\ relay' = "scan"
  /\ UNCHANGED <<streaming, sent, fate, client, proxy, next, buffer, received>>

\* defer pw.Close(): the reader sees the end of the body, not an error.
Close ==
  /\ relay = "close"
  /\ relay' = "closeBody"
  /\ UNCHANGED <<streaming, sent, fate, client, proxy, next, pipe, buffer, received>>

\* defer originalBody.Close()
CloseBody ==
  /\ relay = "closeBody"
  /\ relay' = "ended"
  /\ UNCHANGED <<streaming, sent, fate, client, proxy, next, pipe, buffer, received>>

-----------------------------------------------------------------------------
\* ReverseProxy's copy to the client: it reads into its buffer and writes that out.
ReadPipe ==
  /\ proxy = "copy" /\ streaming /\ buffer = <<>> /\ pipe # <<>>
  /\ buffer' = pipe
  /\ pipe' = <<>>
  /\ UNCHANGED <<streaming, sent, fate, client, proxy, relay, next, received>>

ReadEOF ==
  /\ proxy = "copy" /\ streaming /\ buffer = <<>> /\ WriterClosed /\ pipe = <<>>
  /\ proxy' = "complete"
  /\ UNCHANGED <<streaming, sent, fate, client, relay, next, pipe, buffer, received>>

\* Without "stream" resp.Body is the upstream's, and so are its errors.
ReadBody ==
  /\ proxy = "copy" /\ ~streaming /\ buffer = <<>>
  /\ \/ /\ next < Len(sent)
        /\ next' = next + 1
        /\ buffer' = <<[line |-> sent[next + 1], padded |-> FALSE]>>
        /\ UNCHANGED proxy
     \/ /\ next = Len(sent) /\ fate = "eof"
        /\ proxy' = "complete" /\ UNCHANGED <<next, buffer>>
     \/ /\ gone \/ (next = Len(sent) /\ fate = "failed")
        /\ proxy' = "aborted" /\ UNCHANGED <<next, buffer>>
  /\ UNCHANGED <<streaming, sent, fate, client, relay, pipe, received>>

\* The write has no deadline, and blocks while the client stays and does not read.
\* To a client that has left it may still seem to succeed; when it fails, the copy
\* is aborted.
WriteClient ==
  /\ proxy = "copy" /\ buffer # <<>>
  /\ \/ ~gone /\ ~stalled /\ received' = received \o buffer /\ UNCHANGED proxy
     \/ gone /\ proxy' \in {"copy", "aborted"} /\ UNCHANGED received
  /\ buffer' = <<>>
  /\ UNCHANGED <<streaming, sent, fate, client, relay, next, pipe>>

-----------------------------------------------------------------------------
\* The client (external).

ClientStalls ==
  /\ ~gone /\ ~stalled /\ proxy = "copy"
  /\ stalled' = TRUE
  /\ UNCHANGED <<streaming, sent, fate, gone, proxy, relay, next, pipe, buffer,
                 received>>

ClientResumes ==
  /\ stalled
  /\ stalled' = FALSE
  /\ UNCHANGED <<streaming, sent, fate, gone, proxy, relay, next, pipe, buffer,
                 received>>

ClientLeaves ==
  /\ ~gone /\ proxy \in {"call", "copy"}
  /\ gone' = TRUE
  /\ stalled' = FALSE
  /\ UNCHANGED <<streaming, sent, fate, proxy, relay, next, pipe, buffer, received>>

-----------------------------------------------------------------------------
Goroutine == Scan \/ Write \/ Written \/ Close \/ CloseBody
Proxy     == RoundTrip \/ ReadPipe \/ ReadEOF \/ ReadBody \/ WriteClient
Upstream  == SendLine \/ EndBody
Client    == ClientStalls \/ ClientResumes \/ ClientLeaves

RelayNext == Goroutine \/ Proxy \/ Upstream \/ Client

RelaySpec == RelayInit /\ [][RelayNext]_relayVars

\* The Go scheduler runs the goroutine and the handler, and a read of the
\* upstream's body returns once the body has ended or the context is cancelled.
\* Nothing is assumed about the client: it may stall, and never resume or leave.
FairRelaySpec ==
  RelaySpec /\ WF_relayVars(Goroutine) /\ WF_relayVars(Proxy)

-----------------------------------------------------------------------------
Delivery == [line : Kinds, padded : BOOLEAN]

\* Types; the pipe holds one line at most, and only while pw.Write is waiting, and
\* so does the copy's buffer, only while the copy goes on.
RelayTypeOK ==
  /\ streaming \in BOOLEAN /\ gone \in BOOLEAN /\ stalled \in BOOLEAN
  /\ sent \in Seq(Kinds) /\ Len(sent) <= MaxLines
  /\ fate \in {"open", "eof", "failed"}
  /\ proxy \in ProxyStates /\ relay \in RelayStates
  /\ next \in 0..Len(sent)
  /\ pipe \in Seq(Delivery) /\ Len(pipe) <= 1
  /\ (pipe # <<>>) => (relay = "wait")
  /\ buffer \in Seq(Delivery) /\ Len(buffer) <= 1
  /\ (buffer # <<>>) => (proxy = "copy")
  /\ received \in Seq(Delivery)

\* Whatever the pace of upstream, goroutine, proxy and client, the client has received
\* the upstream's lines in order, none missing and none twice: deltas of a
\* stream padded, every other line as the upstream sent it.
LinesInOrder ==
  /\ Len(received) <= Len(sent)
  /\ \A i \in 1..Len(received) :
       /\ received[i].line = sent[i]
       /\ received[i].padded <=> (streaming /\ sent[i] = "delta")

\* A client that stayed and sees a complete response has everything up to the
\* end of the body.  Without "stream" that end was a proper one.  A stream is
\* cut short in two cases only, the upstream's failure and a line beyond the
\* scanner's buffer, and then the client is not told: pw.Close() reports no
\* error, so a staying client never sees a stream aborted.
CompleteMeansAll ==
  ~gone =>
    /\ (proxy = "complete") =>
         \/ Len(received) = Len(sent) /\ fate = "eof"
         \/ /\ streaming
            /\ \/ Len(received) = Len(sent) /\ fate = "failed"
               \/ /\ Len(received) < Len(sent)
                  /\ sent[Len(received) + 1] = "long"
    /\ (proxy = "aborted") => (~streaming /\ fate = "failed")

\* When the upstream's body has ended, or the client has left or been served,
\* the goroutine ends and closes the body, and the copy ends: nothing stays
\* blocked on the pipe, though the error of pw.Write is ignored.  One thing holds
\* them up, a client that stays and does not read, for the server has no
\* WriteTimeout.
RelayEnds ==
  (proxy \notin {"call", "failed"} /\ (fate # "open" \/ Cancelled))
    ~> ((relay \in {"none", "ended"} /\ ReaderClosed) \/ stalled)

=============================================================================

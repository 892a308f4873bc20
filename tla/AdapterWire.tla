----------------------------- MODULE AdapterWire -----------------------------
(***************************************************************************)
(* The pipes between a host and an adapter child: frames written and read, *)
(* the child's stderr drained into the log, and the close that ends the    *)
(* child. The core owns its child and drains with a task; the gateway's    *)
(* child is owned by its factory and drained by a daemon thread.           *)
(*                                                                         *)
(* Sources: plugins/comms_stdio_transport.py, plugins/comms_seq_codec.py,  *)
(* gateway/adapter_stdio_transport.py, security/child_stderr.py.           *)
(*                                                                         *)
(* A byte of stderr is "x" or the newline "n"; a line is known by its      *)
(* length. A line of stdout is known by what the decoder makes of it.      *)
(***************************************************************************)
EXTENDS Naturals, Sequences, SequencesExt

CONSTANTS Senders,     \* concurrent calls of send
          MaxBytes,    \* bytes the child writes to stderr in a behaviour
          PipeSize,    \* what the stderr pipe holds
          MaxLine,     \* _MAX_LINE_BYTES of the drain
          MaxFrames    \* lines the child writes to stdout

VARIABLES host,        \* who hosts the child: "core" or "gateway"
          child,       \* "none", "alive" or "dead"
          closing,     \* how far close is
          handle,      \* the transport's pump: "none", "held", or "lost" to a close that was cancelled
          pump,        \* "none", "reading", "eof" or "stopped"
          pipe,        \* bytes in the stderr pipe
          lines,       \* lengths of the lines the child has ended
          part,        \* bytes it has written since
          asm,         \* the assembler: bytes held, discarding
          logged,      \* lines handed on: length, and whether it was cut
          gaveUp,      \* the grace of the drain ran out
          sender,      \* every sender: "new", "locked", "sent" or "failed"
          nextSeq,     \* _send_seq
          stdin,       \* numbers written to the child
          stdout,      \* kinds of the lines the child has written
          frames,      \* lines written so far
          got          \* what the last read returned

awvars == <<host, child, closing, handle, pump, pipe, lines, part, asm, logged,
            gaveUp, sender, nextSeq, stdin, stdout, frames, got>>

Stderr == <<pump, pipe, lines, part, asm, logged, gaveUp>>
Frames == <<sender, nextSeq, stdin, stdout, frames, got>>

Init ==
  /\ host \in {"core", "gateway"}
  /\ child = "none" /\ closing = "open" /\ handle = "none"
  /\ pump = "none" /\ pipe = <<>> /\ lines = <<>> /\ part = 0
  /\ asm = [held |-> 0, discarding |-> FALSE]
  /\ logged = <<>> /\ gaveUp = FALSE
  /\ sender = [s \in Senders |-> "new"]
  /\ nextSeq = 0 /\ stdin = <<>>
  /\ stdout = <<>> /\ frames = 0 /\ got = "nothing"

start == pump = "none" /\ pump' = "reading"

\* The child, with the drain started on its stderr at once.
spawn ==
  /\ child = "none"
  /\ child' = "alive" /\ start /\ handle' = IF host = "core" THEN "held" ELSE "none"
  /\ UNCHANGED <<host, closing, pipe, lines, part, asm, logged, gaveUp, Frames>>

(***************************************************************************)
(* The child.                                                              *)
(***************************************************************************)
Total == FoldSeq(LAMBDA n, sum : n + 1 + sum, part, lines)

\* A full pipe stops the child until the drain has read from it.
ChildWarns(b) ==
  /\ child = "alive" /\ Len(pipe) < PipeSize /\ Total < MaxBytes
  /\ pipe' = Append(pipe, b)
  /\ IF b = "n" THEN lines' = Append(lines, part) /\ part' = 0
     ELSE part' = part + 1 /\ UNCHANGED lines
  /\ UNCHANGED <<host, child, closing, handle, pump, asm, logged, gaveUp, Frames>>

ChildWrites(kind) ==
  /\ child = "alive" /\ frames < MaxFrames
  /\ stdout' = Append(stdout, kind) /\ frames' = frames + 1
  /\ UNCHANGED <<host, child, closing, handle, Stderr, sender, nextSeq, stdin, got>>

ChildDies ==
  /\ child = "alive"
  /\ child' = "dead"
  /\ UNCHANGED <<host, closing, handle, Stderr, Frames>>

(***************************************************************************)
(* The drain of stderr.                                                    *)
(***************************************************************************)
Least(a, b) == IF a < b THEN a ELSE b

Cut(n) == [len |-> Least(n, MaxLine), cut |-> n > MaxLine]

\* Variant: the rest of a line that was cut is taken for a line.
RECURSIVE FeedForgetting(_, _, _, _)
FeedForgetting(held, discarding, chunk, out) ==
  LET at == SelectInSeq(chunk, LAMBDA b : b = "n")
  IN  IF at > 0
      THEN FeedForgetting(0, FALSE, SubSeq(chunk, at + 1, Len(chunk)),
                          Append(out, Cut(held + at - 1)))
      ELSE LET n == held + Len(chunk)
           IN  IF n > MaxLine
               THEN [held |-> 0, discarding |-> TRUE, out |-> Append(out, Cut(n))]
               ELSE [held |-> n, discarding |-> discarding, out |-> out]

\* The lines ended in this chunk; then, past the cap, the head of one that is not.
RECURSIVE feed(_, _, _, _)
feed(held, discarding, chunk, out) ==
  LET at == SelectInSeq(chunk, LAMBDA b : b = "n")
  IN  IF at > 0
      THEN feed(0, FALSE, SubSeq(chunk, at + 1, Len(chunk)),
                IF discarding THEN out ELSE Append(out, Cut(held + at - 1)))
      ELSE LET n == held + Len(chunk)
           IN  IF n > MaxLine
               THEN [held |-> 0, discarding |-> TRUE, out |-> Append(out, Cut(n))]
               ELSE [held |-> n, discarding |-> discarding, out |-> out]

\* A refusal row of the launcher, or the text of the line, goes to the host's log.
_consume(out) == logged' = logged \o out

\* A read returns some of what the pipe holds.
_pump_stream ==
  /\ pump = "reading" /\ pipe # <<>>
  /\ \E k \in 1..Len(pipe) :
       LET fed == feed(asm.held, asm.discarding, SubSeq(pipe, 1, k), <<>>)
       IN  /\ pipe' = SubSeq(pipe, k + 1, Len(pipe))
           /\ asm' = [held |-> fed.held, discarding |-> fed.discarding]
           /\ _consume(fed.out)
  /\ UNCHANGED <<host, child, closing, handle, pump, lines, part, gaveUp, Frames>>

\* End of file: what was held is a line, unless it is the rest of one that was cut.
flush ==
  /\ pump = "reading" /\ pipe = <<>> /\ child = "dead"
  /\ pump' = "eof"
  /\ _consume(IF asm.discarding \/ asm.held = 0 THEN <<>> ELSE <<Cut(asm.held)>>)
  /\ asm' = [held |-> 0, discarding |-> FALSE]
  /\ UNCHANGED <<host, child, closing, handle, pipe, lines, part, gaveUp, Frames>>

(***************************************************************************)
(* Frames.                                                                 *)
(***************************************************************************)
\* The lock is held from the numbering to the end of the drain.
AcquireSend(s) ==
  /\ host = "core" /\ sender[s] = "new" /\ child # "none"
  /\ \A o \in Senders : sender[o] # "locked"
  /\ sender' = [sender EXCEPT ![s] = "locked"]
  /\ UNCHANGED <<host, child, closing, handle, Stderr, nextSeq, stdin, stdout, frames, got>>

encode_seq_frame == stdin' = Append(stdin, nextSeq) /\ nextSeq' = nextSeq + 1

\* Too large for a unit: refused before it has a number. A broken pipe is raised.
send(s) ==
  /\ sender[s] = "locked"
  /\ \/ /\ encode_seq_frame
        /\ sender' = [sender EXCEPT ![s] = IF child = "alive" THEN "sent" ELSE "failed"]
     \/ UNCHANGED <<stdin, nextSeq>> /\ sender' = [sender EXCEPT ![s] = "failed"]
  /\ UNCHANGED <<host, child, closing, handle, Stderr, stdout, frames, got>>

\* The gateway's frames have no number; any failure of the pipe is a protocol error.
GatewaySend(s) ==
  /\ host = "gateway" /\ sender[s] = "new" /\ child # "none"
  /\ sender' = [sender EXCEPT ![s] = IF child = "alive" /\ closing = "open" THEN "sent"
                                     ELSE "failed"]
  /\ UNCHANGED <<host, child, closing, handle, Stderr, nextSeq, stdin, stdout, frames, got>>

\* A header that does not parse, or whose length is not the payload's, is an error.
decode_seq_frame(kind) == kind # "bad_header"

\* A line past the bound, not JSON, or not an object is an error.
Decoded(kind) ==
  IF kind = "object" /\ (host = "core" => decode_seq_frame(kind)) THEN "frame"
  ELSE "protocol_error"

\* An error ends the reader: nothing is read after it.
read_frame ==
  /\ child # "none" /\ got \notin {"eof", "protocol_error"}
  /\ \/ /\ stdout # <<>> /\ closing # "closed"
        /\ got' = Decoded(Head(stdout)) /\ stdout' = Tail(stdout)
     \/ /\ stdout = <<>> /\ child = "dead"
        /\ got' = "eof" /\ UNCHANGED stdout
     \/ /\ host = "gateway" /\ closing = "closed"
        /\ got' = "protocol_error" /\ UNCHANGED stdout
  /\ UNCHANGED <<host, child, closing, handle, Stderr, sender, nextSeq, stdin, frames>>

(***************************************************************************)
(* Closing. The child leaves on end of file, on SIGTERM or on SIGKILL.     *)
(***************************************************************************)
close ==
  /\ host = "core" /\ child # "none" /\ closing = "open"
  /\ closing' = IF child = "dead" THEN "settle" ELSE "eof"
  /\ UNCHANGED <<host, child, handle, Stderr, Frames>>

\* The child is gone, or the wait for it has timed out and the next signal is sent.
Escalate ==
  /\ closing \in {"eof", "term", "kill"}
  /\ \/ child = "dead" /\ closing' = "settle" /\ UNCHANGED child
     \/ /\ closing # "kill" /\ UNCHANGED child
        /\ closing' = IF closing = "eof" THEN "term" ELSE "kill"
     \/ closing = "kill" /\ child' \in {"dead", child} /\ closing' = "settle"
  /\ UNCHANGED <<host, handle, Stderr, Frames>>

\* Cancelled while it waits: the next close no longer holds the drain.
CloseCancelled ==
  /\ closing \in {"eof", "term", "kill"}
  /\ closing' = "open" /\ handle' = "lost"
  /\ UNCHANGED <<host, child, Stderr, Frames>>

drained == pump # "reading" /\ UNCHANGED <<pump, gaveUp>>

aclose == pump = "reading" /\ pump' = "stopped" /\ gaveUp' = TRUE

\* The drain ends by itself, or is cut when the grace has run out.
_close_stderr_pump ==
  /\ closing = "settle"
  /\ IF handle = "lost" THEN UNCHANGED <<pump, gaveUp>> ELSE drained \/ aclose
  /\ closing' = "closed"
  /\ UNCHANGED <<host, child, handle, pipe, lines, part, asm, logged, Frames>>

\* The gateway closes its ends of stdin and stdout; the factory reaps the child.
GatewayClose ==
  /\ host = "gateway" /\ child # "none" /\ closing = "open"
  /\ closing' = "closed"
  /\ UNCHANGED <<host, child, handle, Stderr, Frames>>

Next ==
  \/ spawn \/ ChildDies
  \/ \E b \in {"x", "n"} : ChildWarns(b)
  \/ \E kind \in {"object", "bad_header", "bad_body"} : ChildWrites(kind)
  \/ _pump_stream \/ flush
  \/ \E s \in Senders : AcquireSend(s) \/ send(s) \/ GatewaySend(s)
  \/ read_frame
  \/ close \/ Escalate \/ CloseCancelled \/ _close_stderr_pump \/ GatewayClose

Spec == Init /\ [][Next]_awvars

-------------------------------------------------------------------------------
Whole == SelectSeq(logged, LAMBDA l : ~l.cut)
WithinCap == SelectSeq(lines, LAMBDA n : n <= MaxLine)
Lengths(ls) == [i \in 1..Len(ls) |-> ls[i].len]

\* However the child's stderr is cut into reads, a line handed on as whole is a line the child
\* wrote, in its order; once the drain has reached the end none within the cap is missing.
WholeLinesAreLines ==
  LET all == WithinCap \o (IF part \in 1..MaxLine THEN <<part>> ELSE <<>>)
  IN  IF pump = "eof" THEN Lengths(Whole) = all
      ELSE IsPrefix(Lengths(Whole), WithinCap)

\* What a child wrote before it was ended is in the log when close returns, unless the drain
\* outlived its grace or an earlier close was cancelled, and then the drain still runs.
DyingWordsKept ==
  /\ pump = "stopped" => gaveUp
  /\ (host = "core" /\ closing = "closed") => (pump = "eof" \/ gaveUp \/ handle = "lost")

\* The numbers the child receives are consecutive, with two sends at once and one refused.
NumbersConsecutive == \A i \in 1..Len(stdin) : stdin[i] = i - 1
===============================================================================

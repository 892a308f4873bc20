----------------------------- MODULE Quarantine -----------------------------
(***************************************************************************)
(* Structured extraction of untrusted bodies by the one quarantine child.  *)
(*                                                                         *)
(* The host spawns the child, hands it the provider key and waits for its  *)
(* boot frames.  Each extraction then stages a body under a handle, passes *)
(* the pre hooks, takes the transport's lock, drains the staged body,      *)
(* brokers a fixed number of connected sockets into the child's control    *)
(* channel, writes the ingest and extract frames and reads one reply       *)
(* frame.  The child serves its stdin in order; every attempt at the       *)
(* provider takes the next brokered socket, and what is left is swept      *)
(* before the reply is written.                                            *)
(*                                                                         *)
(* The reply carries no request id.  Reads of the child's stdout run on    *)
(* threads of the loop's executor, which others use too: a read given up   *)
(* by its caller (the frame timeout, the action deadline) leaves its       *)
(* thread on the pipe, or is withdrawn when no thread has taken it yet.    *)
(* What is left takes the bytes it was sent for and ends; the caller that  *)
(* meets the middle of a body takes four of its bytes for a length.        *)
(***************************************************************************)
EXTENDS Integers, SequencesExt

CONSTANTS Handles,            \* extractions
          Discarding,         \* those whose caller discards the staged body when it fails
          Nothing,
          Retries,            \* EXTRACTION_MAX_RETRIES
          SocketCount         \* BROKER_SOCKET_COUNT

VARIABLES spawn,      \* "none", "launched", "keyed", "hello", "up", "failed"
          alive,      \* the child process: "no", "running", "exited"
          staged,     \* QuarantineStagingMap
          hpc,        \* where each extraction stands on the host
          holder,     \* who holds _dispatch_lock
          brokered,   \* sockets sent for the extraction that holds the lock
          stdin,      \* requests the child has not read
          stdout,     \* header and body of replies, in order; "torn" is the rest of a body
          readers,    \* reads of stdout; the first has the stream, the others wait for it
          fds,        \* the child's SCM_RIGHTS queue
          job,        \* what the child works on: request, attempts made
          answer,     \* what each extraction returned
          used,       \* ghost: <<request served, extraction whose socket served it>>
          auditRows   \* quarantine.extract rows, per extraction

hostVars  == <<staged, hpc, holder, brokered, answer, auditRows>>
childVars == <<stdin, stdout, readers, fds, job, used>>
qvars     == <<spawn, alive, hostVars, childVars>>

NoJob == [req |-> Nothing, attempts |-> 0]

Init ==
  /\ spawn = "none" /\ alive = "no"
  /\ staged = {} /\ hpc = [h \in Handles |-> "new"] /\ holder = Nothing /\ brokered = 0
  /\ stdin = <<>> /\ stdout = <<>> /\ readers = <<>> /\ fds = <<>> /\ job = NoJob
  /\ answer = [h \in Handles |-> Nothing] /\ used = {}
  /\ auditRows = [h \in Handles |-> "none"]

------------------------------------------------------------------------------
(* The launcher runs with fds 3 and 4 in place, or Popen raises; the       *)
(* parent's own descriptors are put back either way.                       *)
Popen ==
  \/ spawn' = "launched" /\ alive' = "running"
  \/ spawn' = "failed" /\ UNCHANGED alive

(* A misconfigured spawn is refused before anything runs; then Popen, the  *)
(* key over fd 3, hello, ready.  Any failure after Popen terminates and    *)
(* reaps the child before it is raised.                                    *)
spawn_quarantine_child_io ==
  /\ spawn = "none"
  /\ Popen \/ (spawn' = "failed" /\ UNCHANGED alive)
  /\ UNCHANGED <<hostVars, childVars>>

deliver_provider_key_via_fd3 ==
  /\ spawn = "launched" /\ spawn' = "keyed"
  /\ UNCHANGED <<alive, hostVars, childVars>>

_await_boot_handshake ==
  /\ spawn \in {"keyed", "hello"} /\ alive = "running"
  /\ spawn' = IF spawn = "keyed" THEN "hello" ELSE "up"
  /\ UNCHANGED <<alive, hostVars, childVars>>

(* The launcher refused, the key pipe broke, or a boot frame never came:   *)
(* the child is asked to stop, killed after the grace, and waited for.     *)
_terminate_and_reap ==
  /\ spawn \in {"launched", "keyed", "hello"}
  /\ spawn' = "failed" /\ alive' = "no"
  /\ UNCHANGED <<hostVars, childVars>>

(* The child ends on its own (an unknown method, a framing error, OOM):    *)
(* its queued sockets and unread requests go with it.                      *)
ChildDies ==
  /\ alive = "running" /\ alive' = "exited"
  /\ stdin' = <<>> /\ fds' = <<>> /\ job' = NoJob
  /\ UNCHANGED <<spawn, hostVars, stdout, readers, used>>

------------------------------------------------------------------------------
(* The host side of one extraction.                                        *)
Goto(h, pc) == hpc' = [hpc EXCEPT ![h] = pc]
Ends(h, pc) == /\ Goto(h, pc)
               /\ staged' = IF h \in Discarding THEN staged \ {h} ELSE staged

drain(h) == staged' = staged \ {h}

(* The rows of an extraction.  A cancelled dispatch writes none, and a row *)
(* that cannot be written raises as well.                                  *)
Row(h, kind) == [auditRows EXCEPT ![h] = kind]
_emit_extract_audit(h, result) == auditRows' = Row(h, result)
_emit_transport_failed_audit(h) == auditRows' \in {auditRows, Row(h, "transport_failed")}
_emit_protocol_violation_audit(h) == auditRows' \in {auditRows, Row(h, "protocol_violation")}

(* T3BodyRecorder stages the body; the extract pre chain may refuse.       *)
T3BodyRecorder(h) ==
  /\ spawn = "up" /\ hpc[h] = "new" /\ Goto(h, "pre")
  /\ staged' = staged \cup {h}
  /\ UNCHANGED <<spawn, alive, holder, brokered, answer, auditRows, childVars>>

extract_pre(h) ==
  /\ hpc[h] = "pre"
  /\ \/ Goto(h, "waiting") /\ UNCHANGED staged
     \/ Ends(h, "failed")
  /\ UNCHANGED <<spawn, alive, holder, brokered, answer, auditRows, childVars>>

(* The lock, then the single-use drain of the staged body.                 *)
_dispatch_locked(h) ==
  /\ hpc[h] = "waiting" /\ holder = Nothing /\ h \in staged
  /\ holder' = h /\ Goto(h, "preamble") /\ brokered' = 0
  /\ drain(h)
  /\ UNCHANGED <<spawn, alive, answer, auditRows, childVars>>

_send_one(h) == fds' = Append(fds, h)

(* One socket at a time into the control channel; a send to a dead child   *)
(* fails.                                                                  *)
broker_connected_sockets(h) ==
  /\ hpc[h] = "preamble" /\ brokered < SocketCount /\ alive = "running"
  /\ brokered' = brokered + 1 /\ _send_one(h)
  /\ UNCHANGED <<spawn, alive, staged, hpc, holder, answer, auditRows,
                 stdin, stdout, readers, job, used>>

Unlock == holder' = Nothing /\ brokered' = 0

(* The child is killed, and its end of the control channel goes with it.   *)
abort ==
  /\ alive' = (IF alive = "running" THEN "exited" ELSE alive)
  /\ stdin' = <<>> /\ fds' = <<>> /\ job' = NoJob

(* aclose within the deadline; past it, cancelled or failed, abort: the    *)
(* child is gone either way.                                               *)
_revoke_child_capability == abort

_refuse_broker(h) ==
  /\ Goto(h, "post") /\ answer' = [answer EXCEPT ![h] = "refused"]
  /\ UNCHANGED <<staged, auditRows>>

(* A preamble that fails after a socket reached the child (a partial send, *)
(* the deadline, an unwritable row, a cancellation) revokes by tearing the *)
(* child down; before the first send it need not.  Broker failures become  *)
(* a typed refusal, the others are raised.                                 *)
_run_broker_preamble_fails(h) ==
  /\ hpc[h] = "preamble"
  /\ \/ _refuse_broker(h)
     \/ Ends(h, "failed") /\ _emit_transport_failed_audit(h) /\ UNCHANGED answer
  /\ Unlock
  /\ \/ _revoke_child_capability
     \/ brokered = 0 /\ UNCHANGED <<alive, stdin, fds, job>>
  /\ UNCHANGED <<spawn, stdout, readers, used>>

(* Both frames are written with no await between; then the read begins.    *)
write_frames(h) ==
  /\ hpc[h] = "preamble" /\ brokered = SocketCount /\ alive = "running"
  /\ stdin' = Append(stdin, h)
  /\ Goto(h, "header") /\ readers' = Append(readers, [owner |-> h, want |-> "header"])
  /\ UNCHANGED <<spawn, alive, staged, holder, brokered, answer, auditRows,
                 stdout, fds, job, used>>

------------------------------------------------------------------------------
(* The threads on the child's stdout.  A header read takes four bytes, of  *)
(* a header or of a body, which is longer than all of them take; a body    *)
(* read takes its length, past the end of a torn one into the next header. *)
(* Four bytes of a body are a length beyond any reply.                     *)
Enough(r) ==
  /\ stdout # <<>>
  /\ r.want = "body" /\ Head(stdout).part = "torn" => Len(stdout) > 1

Taken(r) ==
  CASE r.want = "header" /\ Head(stdout).part # "header" ->
         <<[Head(stdout) EXCEPT !.part = "torn"]>> \o Tail(stdout)
    [] r.want = "body" /\ Head(stdout).part = "torn" -> Tail(Tail(stdout))
    [] OTHER -> Tail(stdout)

(* The caller submits the body read; nobody does for a caller that is gone.*)
Submits(r) ==
  IF r.owner = Nothing \/ r.want # "header" THEN <<>>
  ELSE <<[r EXCEPT !.want = IF Head(stdout).part = "header" THEN "body" ELSE "all"]>>

(* The next to have the stream is any of the waiting.                      *)
Lines(rs) == {rs} \cup {<<rs[i]>> \o RemoveAt(rs, i) : i \in DOMAIN rs}

read_frame ==
  /\ readers # <<>> /\ Enough(Head(readers))
  /\ LET r == Head(readers)
     IN  /\ stdout' = Taken(r)
         /\ IF r.want = "all" THEN UNCHANGED readers
            ELSE readers' \in Lines(Tail(readers) \o Submits(r))
         /\ IF r.want = "body" /\ r.owner # Nothing
            THEN /\ answer' = [answer EXCEPT ![r.owner] =
                      IF Head(stdout).part = "body" THEN Head(stdout).req ELSE "garbled"]
                 /\ Goto(r.owner, "post") /\ Unlock
            ELSE UNCHANGED <<answer, hpc, holder, brokered>>
  /\ UNCHANGED <<spawn, alive, staged, auditRows, stdin, fds, job, used>>

(* read_frame's timeout or a cancellation: the transport_failed row, the   *)
(* lock released; the thread stays, or the read is withdrawn before any    *)
(* thread took it.                                                         *)
ReadGivenUp(h) ==
  /\ hpc[h] = "header"
  /\ Ends(h, "failed") /\ Unlock
  /\ _emit_transport_failed_audit(h)
  /\ LET orphan(r) == IF r.owner = h THEN [r EXCEPT !.owner = Nothing] ELSE r
     IN  \/ readers' = [i \in DOMAIN readers |-> orphan(readers[i])]
         \/ readers' = SelectSeq(readers, LAMBDA r : r.owner # h)
  /\ UNCHANGED <<spawn, alive, answer, stdin, stdout, fds, job, used>>

(* The child is gone: a read meets end of file where the bytes run out.    *)
ReadMeetsEof(h) ==
  /\ hpc[h] = "header" /\ alive # "running" /\ ~Enough(Head(readers))
  /\ Ends(h, "failed") /\ Unlock
  /\ _emit_transport_failed_audit(h)
  /\ readers' = <<>> /\ stdout' = <<>>
  /\ UNCHANGED <<spawn, alive, answer, stdin, fds, job, used>>

(* The payload is checked, the post chain runs, the row is written, and    *)
(* only then is the result returned.                                       *)
extract_post(h) ==
  /\ hpc[h] = "post"
  /\ \/ /\ answer[h] # "garbled" /\ Goto(h, "done") /\ UNCHANGED <<answer, staged>>
        /\ _emit_extract_audit(h, "extract")
     \/ /\ Ends(h, "failed") /\ answer' = [answer EXCEPT ![h] = Nothing]
        /\ _emit_protocol_violation_audit(h) \/ _emit_extract_audit(h, "post_stage_refused")
  /\ UNCHANGED <<spawn, alive, holder, brokered, childVars>>

------------------------------------------------------------------------------
(* The child.                                                              *)
_run_mcp_server ==
  /\ alive = "running" /\ spawn = "up" /\ job = NoJob /\ stdin # <<>>
  /\ job' = [req |-> Head(stdin), attempts |-> 0] /\ stdin' = Tail(stdin)
  /\ UNCHANGED <<spawn, alive, hostVars, stdout, readers, fds, used>>

(* Variant: what the attempts did not use stays queued.                    *)
LeftoversStay == UNCHANGED fds

drain_leftovers == fds' = <<>>

(* The sweep, then the reply frame.                                        *)
handle_extract ==
  /\ drain_leftovers /\ job' = NoJob
  /\ stdout' = stdout \o <<[req |-> job.req, part |-> "header"],
                           [req |-> job.req, part |-> "body"]>>

(* The next socket is this attempt's.                                      *)
bind == fds # <<>> /\ used' = used \cup {<<job.req, Head(fds)>>}

(* A malformed answer is retried, with the next socket.                    *)
_validate_response ==
  /\ job.attempts < Retries
  /\ fds' = Tail(fds) /\ job' = [job EXCEPT !.attempts = @ + 1]
  /\ UNCHANGED stdout

(* The provider's answer, or its unavailability or the deadline, which are *)
(* refusals and as much this request's answer as data is; so is an attempt *)
(* that finds no socket.                                                   *)
dispatch_extraction ==
  /\ job # NoJob
  /\ \/ bind /\ (_validate_response \/ handle_extract)
     \/ handle_extract /\ UNCHANGED used
  /\ UNCHANGED <<spawn, alive, hostVars, stdin, readers>>

HostStep(h) ==
  \/ T3BodyRecorder(h) \/ extract_pre(h) \/ _dispatch_locked(h)
  \/ broker_connected_sockets(h) \/ _run_broker_preamble_fails(h) \/ write_frames(h)
  \/ ReadGivenUp(h) \/ ReadMeetsEof(h) \/ extract_post(h)
Next ==
  \/ spawn_quarantine_child_io \/ deliver_provider_key_via_fd3
  \/ _await_boot_handshake \/ _terminate_and_reap \/ ChildDies
  \/ \E h \in Handles : HostStep(h)
  \/ read_frame \/ _run_mcp_server \/ dispatch_extraction

Spec == Init /\ [][Next]_qvars

------------------------------------------------------------------------------
(* No capability outlives its extraction: a socket in the child's queue is *)
(* of the extraction being brokered or of a request the child has yet to   *)
(* answer, whatever reads were given up, preambles failed half way or      *)
(* replies came late.  The sweep before a reply and the revocation of a    *)
(* preamble that fails after a send see to it.                             *)
SocketsArePending ==
  \A i \in DOMAIN fds : fds[i] \in {holder, job.req} \cup ToSet(stdin)

(* No extraction is answered with another body's result, even after reads  *)
(* were given up and their answers came late.  (It is: when a read is      *)
(* withdrawn before a thread took it, the next extraction reads the reply  *)
(* it was to read.)                                                        *)
AnswersNotCrossed ==
  \A h \in Handles : answer[h] \in {h, "refused", "garbled", Nothing}

(* A request is only ever served over the sockets brokered, and recorded,  *)
(* for it.  (It is not: after two reads in a row were given up, the sweep  *)
(* of the first request takes the second's sockets, and the second is then *)
(* served over the third's.)                                               *)
SocketServesItsExtraction == \A u \in used : u[1] = u[2]

(* A boot that fails leaves no child process running.                      *)
SpawnLeavesNothing == spawn = "failed" => alive # "running"

(* A body staged by a caller that discards does not outlive its extraction.*)
NothingStaysStaged ==
  \A h \in Discarding : hpc[h] \in {"done", "failed"} => h \notin staged
==============================================================================

--------------------------- MODULE OperatorProposals ---------------------------
(***************************************************************************)
(* Changes an operator asks for and a reviewer decides: the commands       *)
(* `plugin grant`, `plugin revoke`, `web allowlist add` and `remove`,      *)
(* `config set` of a high-blast key and `supervisor reset`, the branch     *)
(* each one pushes to state.git, the reviewer's merge of it into main, and *)
(* the commands that report on all this.  Commands run in processes of     *)
(* their own, and one may be killed between any two of its steps.          *)
(*                                                                         *)
(* Sources: cli/_state_git.py, cli/supervisor.py, cli/plugin.py,           *)
(* cli/web.py, cli/config.py, cli/_validators.py,                          *)
(* state/proposal_payloads.py, security/capability_gate/proposals.py.      *)
(*                                                                         *)
(* A tree is a function from paths to the proposal that last wrote them.   *)
(* Sessions are those of module Identity, the dispatch loop that of module *)
(* ProposalDispatch and the grants' projection that of module              *)
(* CapabilityGate; here they are the answers they give.                    *)
(***************************************************************************)
EXTENDS Naturals, FiniteSets

CONSTANTS Procs,      \* command-line processes
          Ids,        \* proposal ids, secrets.token_hex(8)
          Nobody

VARIABLES proc,       \* the command every process runs
          shown,      \* what a command told its operator last
          rows,       \* records written: their event and their proposal
          branches,   \* proposal branches of state.git: id -> kind, route, path, base
          main,       \* the tree of main
          merged,     \* proposals the reviewer has merged
          ledger      \* processed_proposals: id -> result

pvars == <<proc, shown, rows, branches, main, merged, ledger>>

Kinds == {"policy-grant", "policy-revoke", "web-allowlist-add", "web-allowlist-remove",
          "config", "breaker-reset"}
Idle == [pc |-> "idle", kind |-> "none", route |-> "cli", id |-> Nobody, base |-> <<>>]
Root == <<"proposal.json", Nobody>>

Init ==
  /\ proc = [p \in Procs |-> Idle]
  /\ shown = "nothing"
  /\ rows = {}
  /\ branches = <<>> /\ main = <<>>
  /\ merged = {}
  /\ ledger = <<>>

Repository == <<branches, main, merged, ledger>>

Record(e, i) == rows' = rows \cup {[event |-> e, id |-> i]}
Goto(p, s) == proc' = [proc EXCEPT ![p].pc = s]
Tells(what) == shown' = what

\* The process ends, with what it prints last.
Exit(p, what) == proc' = [proc EXCEPT ![p] = Idle] /\ Tells(what)

(***************************************************************************)
(* The commands up to the proposal.                                        *)
(***************************************************************************)
\* The validators of typer's arguments stop a command before its body.
ArgumentsRefused(p) == Tells("usage") /\ UNCHANGED proc

Starts(p, kind, s) ==
  /\ proc[p] = Idle
  /\ \/ proc' = [proc EXCEPT ![p] = [Idle EXCEPT !.pc = s, !.kind = kind]] /\ UNCHANGED shown
     \/ ArgumentsRefused(p)
  /\ UNCHANGED <<rows, Repository>>

_queue_grant_proposal(p) == Starts(p, "policy-grant", "resolve")

\* `grant status` says pending of every id, and `grant list` has no rows to show.
_do_grant_status(p) ==
  /\ proc[p] = Idle
  /\ Tells("pending")
  /\ UNCHANGED <<proc, rows, Repository>>

_do_grant_list(p) ==
  /\ proc[p] = Idle
  /\ Tells("no rows")
  /\ UNCHANGED <<proc, rows, Repository>>

\* The word after `grant` is a plugin or one of the two reports.
grant(p) == _queue_grant_proposal(p) \/ _do_grant_status(p) \/ _do_grant_list(p)

revoke(p) == Starts(p, "policy-revoke", "resolve")

config_set(p) == Starts(p, "config", "resolve")

\* The allowlist commands name no operator.
allowlist_add(p) == Starts(p, "web-allowlist-add", "payload")

allowlist_remove(p) == Starts(p, "web-allowlist-remove", "payload")

\* Without --confirm the usage is all that comes of it.
supervisor_reset(p) == Starts(p, "breaker-reset", "resolve")

\* Sixteen reasons to refuse the session, each with its words.
_refusal_for(p) == Exit(p, "session refused")

_emit_breaker_reset_refused_audit == Record("refused", Nobody)

\* Only a reset records the refusal here.
_resolve_operator_session_or_refuse(p) ==
  /\ proc[p].pc = "resolve"
  /\ IF proc[p].kind = "breaker-reset" THEN _emit_breaker_reset_refused_audit
     ELSE UNCHANGED rows
  /\ _refusal_for(p)
  /\ UNCHANGED Repository

resolve_operator_user_id_or_refuse(p) ==
  /\ proc[p].pc = "resolve"
  /\ Goto(p, IF proc[p].kind = "breaker-reset" THEN "attempt" ELSE "payload")
  /\ UNCHANGED <<shown, rows, Repository>>

_emit_breaker_reset_attempt_audit(p) ==
  /\ proc[p].pc = "attempt"
  /\ Record("attempted", Nobody)
  /\ Goto(p, "payload")
  /\ UNCHANGED <<shown, Repository>>

\* A payload that pydantic refuses ends the command with its traceback.
PayloadInvalid(p) ==
  /\ proc[p].pc = "payload"
  /\ Exit(p, "traceback")
  /\ UNCHANGED <<rows, Repository>>

(***************************************************************************)
(* queue_proposal_or_exit.                                                 *)
(***************************************************************************)
Fresh(i) ==
  /\ i \notin DOMAIN branches /\ \A p \in Procs : proc[p].id # i
  /\ \A r \in rows : r.id # i

\* The id is drawn and the request recorded before state.git is touched.
_emit_requested_audit_row(p) ==
  \E i \in Ids :
    /\ proc[p].pc = "payload" /\ Fresh(i)
    /\ Record("requested", i)
    /\ proc' = [proc EXCEPT ![p].pc = "clone", ![p].id = i]
    /\ UNCHANGED <<shown, Repository>>

\* Variant: every kind is one proposal.json at the root.
OneFile(kind, i) == Root

\* A grant and a reset have a file of their own; every other kind shares one.
_on_disk_files_for(kind, i) ==
  CASE kind = "policy-grant" -> <<"policies/grants", i>>
    [] kind = "breaker-reset" -> <<"policies/breaker-resets", i>>
    [] OTHER -> Root

StateGitErrorKind == {"path_missing", "git_missing", "push_rejected"}

\* Any git command may fail, in one of three ways the operator is told of.
_run(p) ==
  /\ proc[p].pc \in {"clone", "push"}
  /\ \E kind \in StateGitErrorKind : Exit(p, kind)
  /\ UNCHANGED <<rows, Repository>>

create_proposal_from_payload(p) ==
  /\ proc[p].pc = "clone"
  /\ proc' = [proc EXCEPT ![p].pc = "push", ![p].base = main]
  /\ UNCHANGED <<shown, rows, Repository>>

\* The clone's branch, with the files of the proposal, appears in state.git at once.
_write_branch(p) ==
  LET r == proc[p]
  IN  /\ r.pc = "push"
      /\ branches' = [i \in DOMAIN branches \cup {r.id} |->
           IF i = r.id THEN [kind |-> r.kind, route |-> r.route, base |-> r.base,
                             path |-> _on_disk_files_for(r.kind, r.id)]
           ELSE branches[i]]
      /\ Goto(p, IF r.route = "gate" THEN "row" ELSE "report")
      /\ UNCHANGED <<shown, rows, main, merged, ledger>>

queue_proposal_or_exit(p) ==
  /\ proc[p].pc = "report"
  /\ Exit(p, "pending")
  /\ UNCHANGED <<rows, Repository>>

\* The gate's own route to a grant pushes first, and records when that has worked.
create_proposal_branch(p) ==
  \E i \in Ids :
    /\ proc[p] = Idle /\ Fresh(i)
    /\ proc' = [proc EXCEPT ![p] =
         [Idle EXCEPT !.pc = "clone", !.kind = "policy-grant", !.route = "gate", !.id = i]]
    /\ UNCHANGED <<shown, rows, Repository>>

AppendsRow(p) ==
  /\ proc[p].pc = "row"
  /\ Record("requested", proc[p].id)
  /\ Exit(p, "pending")
  /\ UNCHANGED Repository

Killed(p) ==
  /\ proc[p] # Idle
  /\ Exit(p, "nothing")
  /\ UNCHANGED <<rows, Repository>>

(***************************************************************************)
(* The commands that report.                                               *)
(***************************************************************************)
\* Every result but `applied` counts as failed.
_recent_dispatch_counts ==
  [applied |-> Cardinality({i \in DOMAIN ledger : ledger[i] = "applied"}),
   failed |-> Cardinality({i \in DOMAIN ledger :
                ledger[i] \in {"failed_handler", "failed_parse", "failed_unknown_type"}})]

\* The tables, or the server, may not be there.
Unreadable == {"schema not initialised", "postgres unavailable"}

Reading(p, answer) ==
  /\ proc[p] = Idle
  /\ \E what \in Unreadable \cup {answer} : Tells(what)
  /\ UNCHANGED <<proc, rows, Repository>>

supervisor_status(p) ==
  Reading(p, IF _recent_dispatch_counts.failed > 0 THEN "failures" ELSE "status")

\* A duration that does not parse is refused before the ledger is read.
_parse_duration(p) ==
  /\ proc[p] = Idle
  /\ ArgumentsRefused(p)
  /\ UNCHANGED <<rows, Repository>>

supervisor_proposals(p) ==
  _parse_duration(p) \/ Reading(p, IF ledger = <<>> THEN "no rows" ELSE "proposals")

(***************************************************************************)
(* The reviewer, and the dispatch loop's answer.                           *)
(***************************************************************************)
Content(tree, path) == IF path \in DOMAIN tree THEN tree[path] ELSE Nobody

\* A merge that conflicts (the path changed since the branch was cut) is not made.
Merge(i) ==
  LET b == branches[i]
  IN  /\ i \notin merged
      /\ Content(main, b.path) = Content(b.base, b.path)
      /\ main' = [x \in DOMAIN main \cup {b.path} |-> IF x = b.path THEN i ELSE main[x]]
      /\ merged' = merged \cup {i}
      /\ UNCHANGED <<proc, shown, rows, branches, ledger>>

Dispatched(i) ==
  /\ i \in merged \ DOMAIN ledger
  /\ branches[i].kind = "breaker-reset"
  /\ \E result \in {"applied", "failed_handler"} :
       ledger' = [x \in DOMAIN ledger \cup {i} |-> IF x = i THEN result ELSE ledger[x]]
  /\ UNCHANGED <<proc, shown, rows, branches, main, merged>>

Command(p) ==
  \/ grant(p) \/ revoke(p) \/ config_set(p)
  \/ allowlist_add(p) \/ allowlist_remove(p) \/ supervisor_reset(p)
  \/ create_proposal_branch(p)

Step(p) ==
  \/ _resolve_operator_session_or_refuse(p) \/ resolve_operator_user_id_or_refuse(p)
  \/ _emit_breaker_reset_attempt_audit(p) \/ PayloadInvalid(p)
  \/ _emit_requested_audit_row(p) \/ create_proposal_from_payload(p)
  \/ _run(p) \/ _write_branch(p) \/ queue_proposal_or_exit(p) \/ AppendsRow(p) \/ Killed(p)

Report(p) == supervisor_status(p) \/ supervisor_proposals(p)

Next ==
  \/ \E p \in Procs : Command(p) \/ Step(p) \/ Report(p)
  \/ \E i \in DOMAIN branches : Merge(i) \/ Dispatched(i)

Spec == Init /\ [][Next]_pvars

-------------------------------------------------------------------------------
\* A branch a command pushed has its request on record, and a reset's also the attempt that
\* came before it, although the command may fail in git or be killed at every step.
BranchIsRecorded ==
  \A i \in DOMAIN branches : branches[i].route = "cli" =>
    /\ [event |-> "requested", id |-> i] \in rows
    /\ branches[i].kind = "breaker-reset" => [event |-> "attempted", id |-> Nobody] \in rows

\* What a reviewer has approved stays on main for the gate's rebuild and the dispatch loop
\* to find: no later merge, whatever tree its branch was cut from, displaces a grant or a
\* reset.
ApprovedStays ==
  \A i \in merged : branches[i].kind \in {"policy-grant", "breaker-reset"} =>
    Content(main, branches[i].path) = i

\* What a process that writes a branch has behind it.
Writing == {"clone", "push"}
Requested(i) == [event |-> "requested", id |-> i] \in rows
Attempted == [event |-> "attempted", id |-> Nobody] \in rows

Ready(p) ==
  /\ DOMAIN proc[p] = {"pc", "kind", "route", "id", "base"}
  /\ proc[p].pc \in Writing => proc[p].id \notin DOMAIN branches
  /\ proc[p].pc \in Writing /\ proc[p].route = "cli" => Requested(proc[p].id)
  /\ proc[p].pc \in Writing \cup {"payload"} /\ proc[p].kind = "breaker-reset" => Attempted

\* A process about to push has an id that no branch and no other such process has, its
\* request on record unless it goes the gate's way, and for a reset its attempt; a branch
\* has the path of its kind.
BranchInv ==
  /\ DOMAIN proc = Procs
  /\ \A p \in Procs : Ready(p)
  /\ \A p, q \in Procs : proc[p].pc \in Writing /\ proc[q].pc \in Writing
                            /\ proc[p].id = proc[q].id => p = q
  /\ \A i \in DOMAIN branches : branches[i].path = _on_disk_files_for(branches[i].kind, i)
  /\ merged \subseteq DOMAIN branches
  /\ ApprovedStays /\ BranchIsRecorded
===============================================================================

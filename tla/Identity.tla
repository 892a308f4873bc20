------------------------------- MODULE Identity -------------------------------
(***************************************************************************)
(* The identity store: users, platform bindings and operator sessions in   *)
(* Postgres, the `alfred user ...`, `login`, `logout` commands and the     *)
(* commands that resolve the operator session (each a process of its own), *)
(* and the resolver of the daemon with its versioned cache, which another  *)
(* process invalidates through NOTIFY.                                     *)
(*                                                                         *)
(* Sources: identity/resolver.py, identity/version_counter.py,             *)
(* identity/cli.py, identity/_resolver.py, identity/operator_session.py,   *)
(* cli/operator_session.py.                                                *)
(*                                                                         *)
(* One platform.  A mutator reads and checks in its transaction, and what  *)
(* it writes becomes visible, with its NOTIFY, at the commit; two          *)
(* transactions do not see each other's writes before.  A refused command  *)
(* changes nothing and is not a step.  The daemon calls `resolve` on its   *)
(* event loop, where nothing interleaves with it.                          *)
(***************************************************************************)
EXTENDS Naturals, FiniteSets

CONSTANTS Users, Ids,      \* users, and their names on the platform
          Clis,            \* command-line processes
          Tokens,          \* session tokens a login can draw
          Ttl,             \* _DEFAULT_CACHE_TTL_S
          MaxCommands,     \* bound: commands started
          Nobody           \* None

ASSUME IdentityAssumption == Nobody \notin Tokens

VARIABLES accounts,   \* table users: authorization and deleted_at
          bindings,   \* table platform_identities
          sessions,   \* table operator_sessions
          tokenFile,  \* the operator's session file
          cmd,        \* what every command-line process is doing
          commands,   \* commands started
          version,    \* the daemon's IdentityVersionCounter
          cache,      \* the daemon's LRU, by platform id
          listening,  \* the LISTEN connection is up
          notices,    \* NOTIFYs the listener has still to read
          missed      \* ids whose change was notified while nobody listened

ivars == <<accounts, bindings, sessions, tokenFile, cmd, commands, version,
           cache, listening, notices, missed>>

NoCommand == [op |-> "idle", pc |-> "idle", user |-> Nobody, id |-> Nobody,
         auth |-> "none", demote |-> Nobody, tok |-> Nobody]
NoEntry == [user |-> Nobody, auth |-> "none", seen |-> 0, age |-> 0]

IdentityInit ==
  /\ accounts = [u \in Users |-> [auth |-> "absent", live |-> FALSE]]
  /\ bindings = [i \in Ids |-> [user |-> Nobody, live |-> FALSE]]
  /\ sessions = [t \in Tokens |-> [state |-> "none", user |-> Nobody]]
  /\ tokenFile = NoCommand
  /\ cmd = [c \in Clis |-> NoCommand]
  /\ commands = 0
  /\ version = 0 /\ notices = 0
  /\ cache = [i \in Ids |-> NoEntry]
  /\ listening = FALSE
  /\ missed = {}

Store == <<accounts, bindings>>
Login == <<sessions, tokenFile>>
Daemon == <<version, cache, listening, notices, missed>>

Live(u) == u \in Users /\ accounts[u].live
Operators == {u \in Users : Live(u) /\ accounts[u].auth = "operator"}

\* A command starts: its transaction has read what it needs and passed its checks.
Starts(c, what) ==
  /\ cmd[c] = NoCommand
  /\ commands < MaxCommands
  /\ commands' = commands + 1
  /\ cmd' = [cmd EXCEPT ![c] = what]
  /\ UNCHANGED <<Store, Login, Daemon>>

Mutation(what, u) == [NoCommand EXCEPT !.op = what, !.pc = "commit", !.user = u]

\* --replace-operator demotes the operator it names; without it a second one is refused.
_enforce_operator_upper_bound(a, but, replaced) ==
  LET existing == Operators \ {but}
  IN  IF a # "operator" \/ existing = {} THEN replaced = Nobody ELSE replaced \in existing

add(c) ==
  \E u \in Users, a \in {"standard", "operator"}, r \in Users \cup {Nobody} :
    /\ accounts[u].auth = "absent"
    /\ _enforce_operator_upper_bound(a, Nobody, r)
    /\ Starts(c, [Mutation("add", u) EXCEPT !.auth = a, !.demote = r])

bind(c) ==
  \E u \in Users, i \in Ids :
    /\ Live(u)
    /\ \A j \in Ids : ~ (bindings[j].live /\ bindings[j].user = u)
    /\ Starts(c, [Mutation("bind", u) EXCEPT !.id = i])

unbind(c) ==
  \E i \in Ids :
    /\ bindings[i].live /\ Live(bindings[i].user)
    /\ Starts(c, [Mutation("unbind", bindings[i].user) EXCEPT !.id = i])

remove(c) ==
  \E u \in Users :
    /\ Live(u)
    /\ u \in Operators => Operators # {u}
    /\ Starts(c, Mutation("remove", u))

set_(c) ==
  \E u \in Users, a \in {"standard", "operator"}, r \in Users \cup {Nobody} :
    /\ Live(u)
    /\ _enforce_operator_upper_bound(a, u, r)
    /\ Starts(c, [Mutation("set", u) EXCEPT !.auth = a, !.demote = r])

\* The primary key of users.slug and the two unique indexes of platform_identities.
Conflict(m) ==
  \/ m.op = "add" /\ accounts[m.user].auth # "absent"
  \/ m.op = "bind" /\ \/ bindings[m.id].user # Nobody
                      \/ \E j \in Ids : bindings[j].live /\ bindings[j].user = m.user

Written(m) ==
  LET demoted == IF m.demote = Nobody THEN accounts
                 ELSE [accounts EXCEPT ![m.demote].auth = "trusted"]
  IN  CASE m.op = "add" -> [demoted EXCEPT ![m.user] = [auth |-> m.auth, live |-> TRUE]]
        [] m.op = "set" -> [demoted EXCEPT ![m.user].auth = m.auth]
        [] m.op = "remove" -> [accounts EXCEPT ![m.user].live = FALSE]
        [] OTHER -> accounts

Bound(m) ==
  CASE m.op = "bind" -> [bindings EXCEPT ![m.id] = [user |-> m.user, live |-> TRUE]]
    [] m.op = "unbind" -> [bindings EXCEPT ![m.id].live = FALSE]
    [] OTHER -> bindings

\* pg_notify inside the transaction: at the commit, to whoever listens.
_notify ==
  /\ notices' = IF listening THEN notices + 1 ELSE notices
  /\ missed' = IF listening THEN missed ELSE Ids

\* Variant: the notification goes out before the transaction commits.
NotifiedEarly(c) ==
  LET m == cmd[c]
  IN  /\ ~ Conflict(m)
      /\ \/ /\ m.pc = "commit"
            /\ _notify
            /\ cmd' = [cmd EXCEPT ![c].pc = "told"]
            /\ UNCHANGED Store
         \/ /\ m.pc = "told"
            /\ accounts' = Written(m)
            /\ bindings' = Bound(m)
            /\ cmd' = [cmd EXCEPT ![c].pc = "audit"]
            /\ UNCHANGED <<notices, missed>>
      /\ UNCHANGED <<Login, commands, version, cache, listening>>

\* The transaction of a mutator commits, and its writes and its NOTIFY appear.
Commit(c) ==
  LET m == cmd[c]
  IN  /\ m.pc = "commit" /\ ~ Conflict(m)
      /\ accounts' = Written(m)
      /\ bindings' = Bound(m)
      /\ _notify
      /\ cmd' = [cmd EXCEPT ![c].pc = "audit"]
      /\ UNCHANGED <<Login, commands, version, cache, listening>>

\* IntegrityError at the flush: the transaction is rolled back.
PlatformIdInUse(c) ==
  /\ cmd[c].pc = "commit" /\ Conflict(cmd[c])
  /\ cmd' = [cmd EXCEPT ![c] = NoCommand]
  /\ UNCHANGED <<Store, Login, Daemon, commands>>

\* The row of a command is written after its change is committed.
_write_audit(c) ==
  /\ cmd[c].pc = "audit"
  /\ cmd' = [cmd EXCEPT ![c] = NoCommand]
  /\ UNCHANGED <<Store, Login, Daemon, commands>>

\* A command-line process is killed, or loses the database, between two of its steps.
Killed(c) ==
  /\ cmd[c] # NoCommand
  /\ cmd' = [cmd EXCEPT ![c] = NoCommand]
  /\ UNCHANGED <<Store, Login, Daemon, commands>>

(***************************************************************************)
(* Operator sessions.                                                      *)
(***************************************************************************)
login_impl(c, refresh) ==
  \E u \in Users, t \in Tokens :
    /\ Live(u) /\ (refresh => tokenFile.user = u)
    /\ sessions[t].state = "none" /\ \A d \in Clis : cmd[d].tok # t
    /\ Starts(c, [NoCommand EXCEPT !.op = "login", !.pc = "insert", !.user = u, !.tok = t])

insert_session_row(c) ==
  /\ cmd[c].pc = "insert"
  /\ sessions' = [sessions EXCEPT ![cmd[c].tok] = [state |-> "active", user |-> cmd[c].user]]
  /\ cmd' = [cmd EXCEPT ![c].pc = "write"]
  /\ UNCHANGED <<Store, tokenFile, Daemon, commands>>

\* The file is replaced in one rename.
write_session_file(c) ==
  /\ cmd[c].pc = "write"
  /\ tokenFile' = [NoCommand EXCEPT !.user = cmd[c].user, !.tok = cmd[c].tok]
  /\ cmd' = [cmd EXCEPT ![c].pc = "audit"]
  /\ UNCHANGED <<Store, sessions, Daemon, commands>>

logout_impl(c) ==
  /\ tokenFile # NoCommand
  /\ Starts(c, [tokenFile EXCEPT !.op = "logout", !.pc = "revoke"])

revoke_session_row(c) ==
  /\ cmd[c].pc = "revoke"
  /\ sessions' = [sessions EXCEPT ![cmd[c].tok].state = IF @ = "active" THEN "revoked" ELSE @]
  /\ cmd' = [cmd EXCEPT ![c].pc = "unlink"]
  /\ UNCHANGED <<Store, tokenFile, Daemon, commands>>

Unlink(c) ==
  /\ cmd[c].pc = "unlink"
  /\ tokenFile' = NoCommand
  /\ cmd' = [cmd EXCEPT ![c].pc = "audit"]
  /\ UNCHANGED <<Store, sessions, Daemon, commands>>

\* An operator command resolves its session: the file first, the row later.
load_session_file(c) ==
  /\ tokenFile # NoCommand
  /\ Starts(c, [tokenFile EXCEPT !.op = "resolve", !.pc = "lookup"])

\* A refusal (unknown or revoked token, another user's, a removed user) writes its row
\* and ends; otherwise the command goes on as that user.
_lookup_row(c) ==
  LET row == sessions[cmd[c].tok]
      accepted == row.state = "active" /\ row.user = cmd[c].user /\ Live(row.user)
  IN  /\ cmd[c].pc = "lookup"
      /\ cmd' = [cmd EXCEPT ![c].pc = IF accepted THEN "acting" ELSE "audit"]
      /\ UNCHANGED <<Store, Login, Daemon, commands>>

Acted(c) ==
  /\ cmd[c].pc = "acting"
  /\ cmd' = [cmd EXCEPT ![c] = NoCommand]
  /\ UNCHANGED <<Store, Login, Daemon, commands>>

(***************************************************************************)
(* The daemon.                                                             *)
(***************************************************************************)
_fetch_user_for_binding(i) ==
  IF bindings[i].live /\ Live(bindings[i].user)
  THEN [user |-> bindings[i].user, auth |-> accounts[bindings[i].user].auth]
  ELSE [user |-> Nobody, auth |-> "none"]

Hit(i) == cache[i].user # Nobody /\ cache[i].age < Ttl /\ cache[i].seen >= version

\* A hit changes nothing; a miss fetches and caches, or drops what it held.
resolve(i) ==
  LET fetched == _fetch_user_for_binding(i)
  IN  /\ ~ Hit(i)
      /\ cache' = [cache EXCEPT ![i] =
           IF fetched.user = Nobody THEN NoEntry
           ELSE [user |-> fetched.user, auth |-> fetched.auth, seen |-> version, age |-> 0]]
      /\ missed' = missed \ {i}
      /\ UNCHANGED <<Store, Login, cmd, commands, version, listening, notices>>

\* Only a version behind the counter matters, so the model keeps the difference small.
_on_notify ==
  /\ listening /\ notices > 0
  /\ notices' = notices - 1
  /\ version' = 1
  /\ cache' = [i \in Ids |-> [cache[i] EXCEPT !.seen = 0]]
  /\ UNCHANGED <<Store, Login, cmd, commands, listening, missed>>

\* The connection is made, or lost with what it had not delivered.
Connect ==
  /\ ~ listening
  /\ listening' = TRUE
  /\ UNCHANGED <<Store, Login, cmd, commands, version, cache, notices, missed>>

ConnectionLost ==
  /\ listening
  /\ listening' = FALSE /\ notices' = 0
  /\ missed' = IF notices > 0 THEN Ids ELSE missed
  /\ UNCHANGED <<Store, Login, cmd, commands, version, cache>>

Tick ==
  /\ \E i \in Ids : cache[i].user # Nobody /\ cache[i].age < Ttl
  /\ cache' = [i \in Ids |-> [cache[i] EXCEPT !.age =
                 IF cache[i].user # Nobody /\ @ < Ttl THEN @ + 1 ELSE @]]
  /\ UNCHANGED <<Store, Login, cmd, commands, version, listening, notices, missed>>

Mutator(c) == add(c) \/ bind(c) \/ unbind(c) \/ remove(c) \/ set_(c) \/ Commit(c)
              \/ PlatformIdInUse(c)
Session(c) == \/ login_impl(c, FALSE) \/ login_impl(c, TRUE) \/ insert_session_row(c)
              \/ write_session_file(c) \/ logout_impl(c) \/ revoke_session_row(c) \/ Unlink(c)
              \/ load_session_file(c) \/ _lookup_row(c) \/ Acted(c)

IdentityNext ==
  \/ \E c \in Clis : Mutator(c) \/ Session(c) \/ _write_audit(c) \/ Killed(c)
  \/ \E i \in Ids : resolve(i)
  \/ _on_notify \/ Connect \/ ConnectionLost \/ Tick

IdentitySpec == IdentityInit /\ [][IdentityNext]_ivars

-------------------------------------------------------------------------------
\* The daemon serves a sender from its cache with a user that the tables no longer give
\* only while the NOTIFY of that change is on its way or was lost with the connection:
\* once the listener has read it, the next `resolve` goes to the tables.
StaleOnlyWhileUntold ==
  \A i \in Ids :
    Hit(i) /\ [user |-> cache[i].user, auth |-> cache[i].auth] # _fetch_user_for_binding(i)
      => notices > 0 \/ i \in missed

\* The session file always names a token whose row is in the table, for the same user,
\* wherever a login or a logout was killed and whatever ran beside it.
SessionFileIsBacked ==
  tokenFile # NoCommand => /\ sessions[tokenFile.tok].state # "none"
                      /\ sessions[tokenFile.tok].user = tokenFile.user

\* What the module's docstring promises and two concurrent commands break:
\* only one operator exists at a time.
OneOperator == Cardinality(Operators) <= 1

-------------------------------------------------------------------------------
\* The invariants behind StaleOnlyWhileUntold and SessionFileIsBacked.

\* An entry of the current version that the tables no longer give has a notice on its way
\* or was missed, whatever its age.
Untold(i) == notices > 0 \/ i \in missed
OfThisVersion(i) == cache[i].user # Nobody /\ cache[i].seen >= version
Agrees(i) == [user |-> cache[i].user, auth |-> cache[i].auth] = _fetch_user_for_binding(i)

CacheInv ==
  /\ DOMAIN cache = Ids /\ notices \in Nat
  /\ \A i \in Ids : DOMAIN cache[i] = {"user", "auth", "seen", "age"}
  /\ \A i \in Ids : OfThisVersion(i) /\ ~ Agrees(i) => Untold(i)

\* What a row must say for a file, or a command, that holds its token.
Backed(h) == /\ h.tok \in Tokens /\ sessions[h.tok].state # "none"
             /\ sessions[h.tok].user = h.user

\* A login that has still to insert its row is alone with its token, and one that has still
\* to write the file has its row.
FileInv ==
  /\ DOMAIN cmd = Clis /\ DOMAIN sessions = Tokens
  /\ \A t \in Tokens : DOMAIN sessions[t] = {"state", "user"}
  /\ \A c \in Clis : DOMAIN cmd[c] = DOMAIN NoCommand
  /\ DOMAIN tokenFile = DOMAIN NoCommand
  /\ tokenFile # NoCommand => Backed(tokenFile)
  /\ \A c \in Clis :
       /\ cmd[c].pc = "insert" => /\ cmd[c].tok \in Tokens /\ sessions[cmd[c].tok].state = "none"
                                  /\ \A d \in Clis : d # c => cmd[d].tok # cmd[c].tok
       /\ cmd[c].pc = "write" => Backed(cmd[c])
===============================================================================

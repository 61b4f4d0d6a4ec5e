--------------------------- MODULE ToolIdempotency ---------------------------
(***************************************************************************)
(* POST /tools/execute of mcp-tools under one idempotency key, with the    *)
(* backend's POST /_internal/cases/create behind it: calls that carry the  *)
(* same key, retried or sent at the same time, for the same tool and       *)
(* parameters or others.                                                   *)
(*                                                                         *)
(* Two Redis keys remember a finished call.  The meta key holds the hash   *)
(* of its parameters; its name contains the tool and _idem_scope, which    *)
(* the call determines (conversation_id and case_id are parameters): the   *)
(* two are its scope here.  The result key contains scope and hash.        *)
(* Parameters stand for tool and hash here.  Both keys live for the same   *)
(* time from their last SET on, so that they expire in the order in which  *)
(* they were set.                                                          *)
(***************************************************************************)
EXTENDS Sequences, SequencesExt

CONSTANTS Calls,       \* requests to /tools/execute
          Params,      \* what a caller may send with the key
          Scopes,      \* tools with the values of _idem_scope for the one actor
          ScopeOf,     \* [Params -> Scopes]
          Incomplete,  \* the parameters the tool's branch refuses with 400
          CaseScopes,  \* those of create_case: mcp-tools runs the others itself
          None

ASSUME ScopesAssumption == ScopeOf \in [Params -> Scopes]
ASSUME NoneAssumption   == None \notin Params \union Calls
ASSUME KindAssumption   == Incomplete \subseteq Params /\ CaseScopes \subseteq Scopes

VARIABLES pc,       \* where each call stands
          params,   \* the parameters it came with
          answer,   \* the result it returned: named after the call that made it
          backend,  \* its request to the backend: none, posted, cased, done, dead
          meta,     \* mcp:idem-meta:<tool>:<scope>:<key>
          result,   \* mcp:idem:<tool>:<scope>:<key>:<hash>
          expiry,   \* the two kinds of keys in the order of their deadlines
          ran,      \* history: the calls whose tool took effect
          before,   \* history: the calls answered before each call came
          lapsed    \* history: the scopes in which a key has expired

vars == <<pc, params, answer, backend, meta, result, expiry, ran, before, lapsed>>
keys == <<meta, result, expiry>>
past == <<ran, before, lapsed>>

Pc == {"idle", "lookup", "cached", "called", "run", "waiting", "report", "note",
       "save", "ok", "conflict", "refused", "failed"}
Settled  == {"idle", "ok", "conflict", "refused", "failed"}
MetaKey(p)   == <<"meta", ScopeOf[p]>>
ResultKey(p) == <<"result", p>>
KeyNames == ({"meta"} \X Scopes) \union ({"result"} \X Params)

TypeOK ==
    /\ pc \in [Calls -> Pc]
    /\ params \in [Calls -> Params \union {None}]
    /\ answer \in [Calls -> Calls \union {None}]
    /\ backend \in [Calls -> {"none", "posted", "cased", "done", "dead"}]
    /\ meta \in [Scopes -> Params \union {None}]
    /\ result \in [Params -> Calls \union {None}]
    /\ expiry \in Seq(KeyNames)
    /\ ran \subseteq Calls
    /\ before \in [Calls -> SUBSET Calls]
    /\ lapsed \subseteq Scopes

ViaBackend(c) == ScopeOf[params[c]] \in CaseScopes
Goto(c, l) == pc' = [pc EXCEPT ![c] = l]
Renew(k)   == expiry' = Append(RemoveFirst(expiry, k), k)

----------------------------------------------------------------------------
(* mcp-tools                                                               *)

Arrive(c, p) ==
    /\ pc[c] = "idle"
    /\ Goto(c, "lookup")
    /\ params' = [params EXCEPT ![c] = p]
    /\ before' = [before EXCEPT ![c] = {d \in Calls : pc[d] = "ok"}]
    /\ UNCHANGED <<answer, backend, keys, ran, lapsed>>

\* The stored hash: none, another one, or this call's.
Lookup(c) ==
    /\ pc[c] = "lookup"
    /\ LET stored == meta[ScopeOf[params[c]]] IN
       Goto(c, IF stored = None THEN "called"
               ELSE IF stored = params[c] THEN "cached" ELSE "conflict")
    /\ UNCHANGED <<params, answer, backend, keys, past>>

\* Mutant of Cached: the result is not looked for.
CachedNever(c) ==
    /\ pc[c] = "cached"
    /\ Goto(c, "called")
    /\ UNCHANGED <<params, answer, backend, keys, past>>

\* The result under that hash.  It may be missing: set second, and not at all
\* when the call died in between.
Cached(c) ==
    /\ pc[c] = "cached"
    /\ LET stored == result[params[c]] IN
       IF stored = None
       THEN Goto(c, "called") /\ UNCHANGED answer
       ELSE Goto(c, "ok") /\ answer' = [answer EXCEPT ![c] = stored]
    /\ UNCHANGED <<params, backend, keys, past>>

\* The tool_called event is out.  Parameters without the conversation or the
\* case the tool needs are refused only now.
Announce(c) ==
    /\ pc[c] = "called"
    /\ Goto(c, IF params[c] \in Incomplete THEN "refused" ELSE "run")
    /\ UNCHANGED <<params, answer, backend, keys, past>>

\* A tool of mcp-tools' own: the reference it makes up is this call's.
RunHere(c) ==
    /\ pc[c] = "run"
    /\ ~ ViaBackend(c)
    /\ Goto(c, "report")
    /\ ran' = ran \union {c}
    /\ UNCHANGED <<params, answer, backend, keys, before, lapsed>>

\* create_case: a request to the backend ...
Post(c) ==
    /\ pc[c] = "run"
    /\ ViaBackend(c)
    /\ Goto(c, "waiting")
    /\ backend' = [backend EXCEPT ![c] = "posted"]
    /\ UNCHANGED <<params, answer, keys, past>>

\* Mutant of Receive: the answer does not wait for the second commit.
ReceiveEarly(c) ==
    /\ pc[c] = "waiting"
    /\ backend[c] \in {"cased", "done"}
    /\ Goto(c, "report")
    /\ UNCHANGED <<params, answer, backend, keys, past>>

\* ... and its answer.
Receive(c) ==
    /\ pc[c] = "waiting"
    /\ backend[c] = "done"
    /\ Goto(c, "report")
    /\ UNCHANGED <<params, answer, backend, keys, past>>

\* The tool_result event is out.
Report(c) ==
    /\ pc[c] = "report"
    /\ Goto(c, "note")
    /\ UNCHANGED <<params, answer, backend, keys, past>>

\* Mutant of StoreMeta: the call is noted instead of its parameters.
StoreMetaOfCall(c) ==
    /\ pc[c] = "note"
    /\ Goto(c, "save")
    /\ meta' = [meta EXCEPT ![ScopeOf[params[c]]] = c]
    /\ Renew(MetaKey(params[c]))
    /\ UNCHANGED <<params, answer, backend, result, past>>

\* The meta key, whatever it holds by now, ...
StoreMeta(c) ==
    /\ pc[c] = "note"
    /\ Goto(c, "save")
    /\ meta' = [meta EXCEPT ![ScopeOf[params[c]]] = params[c]]
    /\ Renew(MetaKey(params[c]))
    /\ UNCHANGED <<params, answer, backend, result, past>>

\* Mutant of StoreResult: a result key without the hash.
StoreForAllParams(c) ==
    /\ pc[c] = "save"
    /\ Goto(c, "ok")
    /\ answer' = [answer EXCEPT ![c] = c]
    /\ result' = [p \in Params |->
                    IF ScopeOf[p] = ScopeOf[params[c]] THEN c ELSE result[p]]
    /\ Renew(ResultKey(params[c]))
    /\ UNCHANGED <<params, backend, meta, past>>

\* ... the result key, and the answer.
StoreResult(c) ==
    /\ pc[c] = "save"
    /\ Goto(c, "ok")
    /\ answer' = [answer EXCEPT ![c] = c]
    /\ result' = [result EXCEPT ![params[c]] = c]
    /\ Renew(ResultKey(params[c]))
    /\ UNCHANGED <<params, backend, meta, past>>

\* An await raises, the request to the backend times out or the process is
\* killed: what the call did so far stays, the backend's handler goes on.
Fail(c) ==
    /\ pc[c] \notin Settled
    /\ Goto(c, "failed")
    /\ UNCHANGED <<params, answer, backend, keys, past>>

----------------------------------------------------------------------------
(* The backend: internal_create_case                                       *)

\* The first commit: the case.
CommitCase(c) ==
    /\ backend[c] = "posted"
    /\ backend' = [backend EXCEPT ![c] = "cased"]
    /\ ran' = ran \union {c}
    /\ UNCHANGED <<pc, params, answer, keys, before, lapsed>>

\* The second: its case_created row.
CommitTimeline(c) ==
    /\ backend[c] = "cased"
    /\ backend' = [backend EXCEPT ![c] = "done"]
    /\ UNCHANGED <<pc, params, answer, keys, past>>

\* The handler raises before one of the commits.
BackendFails(c) ==
    /\ backend[c] \in {"posted", "cased"}
    /\ backend' = [backend EXCEPT ![c] = "dead"]
    /\ UNCHANGED <<pc, params, answer, keys, past>>

----------------------------------------------------------------------------
\* The key set longest ago expires.
Expire ==
    /\ expiry # <<>>
    /\ expiry' = Tail(expiry)
    /\ lapsed' = lapsed \union {s \in Scopes : \/ Head(expiry) = <<"meta", s>>
                                             \/ \E p \in Params :
                                                   /\ ScopeOf[p] = s
                                                   /\ Head(expiry) = ResultKey(p)}
    /\ meta' = [s \in Scopes |-> IF Head(expiry) = <<"meta", s>> THEN None ELSE meta[s]]
    /\ result' = [p \in Params |-> IF Head(expiry) = ResultKey(p) THEN None ELSE result[p]]
    /\ UNCHANGED <<pc, params, answer, backend, ran, before>>

Init ==
    /\ pc = [c \in Calls |-> "idle"]
    /\ params = [c \in Calls |-> None]
    /\ answer = [c \in Calls |-> None]
    /\ backend = [c \in Calls |-> "none"]
    /\ meta = [s \in Scopes |-> None]
    /\ result = [p \in Params |-> None]
    /\ expiry = <<>>
    /\ ran = {}
    /\ before = [c \in Calls |-> {}]
    /\ lapsed = {}

Execute(c) == \/ \E p \in Params : Arrive(c, p)
              \/ Lookup(c) \/ Cached(c) \/ Announce(c) \/ RunHere(c) \/ Post(c)
              \/ Receive(c) \/ Report(c) \/ StoreMeta(c) \/ StoreResult(c) \/ Fail(c)
CreateCase(c) == CommitCase(c) \/ CommitTimeline(c) \/ BackendFails(c)

Next == Expire \/ \E c \in Calls : Execute(c) \/ CreateCase(c)

Spec == Init /\ [][Next]_vars

----------------------------------------------------------------------------
(* Properties                                                              *)

\* A caller is given a result of its own parameters, never of another call
\* that used the key: what the hash in the result key is for.
OwnResult ==
    \A c \in Calls : pc[c] = "ok" =>
        /\ answer[c] \in ran
        /\ params[answer[c]] = params[c]

\* A call that comes after another with the same parameters was answered does
\* not run the tool again, before a key has expired: it replays a result or is
\* refused.  This is what the two keys guarantee however the calls of other
\* parameters, and calls that fail half-way, come in between.
AnsweredNotRerun ==
    \A c \in ran : \A d \in before[c] :
        params[d] = params[c] => ScopeOf[params[c]] \in lapsed

\* No caller is told of a case whose case_created row is not there.
AnsweredCaseIsWhole ==
    \A c \in Calls : pc[c] = "ok" /\ ViaBackend(c) => backend[answer[c]] = "done"

\* docs/TOOLS.md: mcp-tools is idempotent by idempotency_key.  While no key
\* has expired the tool takes effect once for the same parameters.
OneEffectPerKey ==
    \A c, d \in ran : params[c] = params[d] => c = d \/ ScopeOf[params[c]] \in lapsed
=============================================================================

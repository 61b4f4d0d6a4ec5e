------------------------ MODULE ToolIdempotencyProofs ------------------------
(***************************************************************************)
(* Theorems about ToolIdempotency, for any calls, parameters and scopes.   *)
(***************************************************************************)
EXTENDS ToolIdempotency, WellFoundedInduction, TLAPS

(***************************************************************************)
(* The inductive invariant, in parts.                                      *)
(***************************************************************************)

\* A call that came has parameters.
Started == \A c \in Calls : pc[c] # "idle" => params[c] \in Params

Ahead  == {"idle", "lookup", "cached", "called", "run"}
Behind == {"report", "note", "save"}

\* Who is ahead of the tool has done nothing, and who is behind it everything.
Effects ==
    \A c \in Calls :
        /\ pc[c] \in Ahead => c \notin ran /\ backend[c] = "none"
        /\ pc[c] \in Behind => /\ c \in ran
                               /\ ViaBackend(c) => backend[c] = "done"
        /\ backend[c] \in {"cased", "done"} => c \in ran

\* d is an answered call of the parameters p that did its work.
MadeFor(d, p) ==
    /\ d \in ran
    /\ pc[d] = "ok"
    /\ params[d] = p
    /\ ScopeOf[p] \in CaseScopes => backend[d] = "done"

ResultsMade  == \A p \in Params : result[p] # None => MadeFor(result[p], p)
AnswersMade  == \A c \in Calls : pc[c] = "ok" => MadeFor(answer[c], params[c])

\* What an answered call leaves behind is there until a key of its scope expires.
Remembered ==
    \A c \in Calls :
        /\ pc[c] \in {"save", "ok"} =>
              meta[ScopeOf[params[c]]] # None \/ ScopeOf[params[c]] \in lapsed
        /\ pc[c] = "ok" => result[params[c]] # None \/ ScopeOf[params[c]] \in lapsed

\* So that a call which comes later stays off the tool.
Replays ==
    \A c \in Calls : \A d \in before[c] :
        /\ pc[d] = "ok"
        /\ params[d] = params[c] =>
              \/ ScopeOf[params[c]] \in lapsed
              \/ /\ pc[c] \in {"lookup", "cached", "ok", "conflict", "failed"}
                 /\ c \notin ran
                 /\ backend[c] = "none"

Sound == /\ TypeOK
         /\ Started
         /\ Effects
         /\ ResultsMade
         /\ AnswersMade
         /\ Remembered
         /\ Replays

(***************************************************************************)
(* The deadlines stay a sequence of keys.                                  *)
(***************************************************************************)

\* A nonempty set of naturals has a least element.
LEMMA LeastNat ==
  ASSUME NEW T \in SUBSET Nat, T # {}
  PROVE  \E x \in T : \A y \in T : x <= y
<1>1. PICK x \in T : \A y \in T : ~ (<<y, x>> \in OpToRel(<, Nat))
  BY NatLessThanWellFounded, WFMin
<1>2. \A y \in T : ~ (y < x)
  BY <1>1 DEF OpToRel
<1> QED
  BY <1>2

LEMMA RemoveFirstTyped ==
  ASSUME NEW S, NEW s \in Seq(S), NEW k
  PROVE  RemoveFirst(s, k) \in Seq(S)
<1>1. CASE ~ \E i \in 1 .. Len(s) : s[i] = k
  BY <1>1 DEF RemoveFirst
<1>2. CASE \E i \in 1 .. Len(s) : s[i] = k
  <2> DEFINE places == {i \in 1 .. Len(s) : s[i] = k}
  <2>1. PICK m \in places : \A n \in places : m <= n
    BY <1>2, LeastNat, places \in SUBSET Nat
  <2>2. Min(places) \in 1 .. Len(s)
    BY <2>1 DEF Min
  <2>3. RemoveFirst(s, k) =
           SubSeq(s, 1, Min(places) - 1) \o SubSeq(s, Min(places) + 1, Len(s))
    BY <1>2, <2>1 DEF RemoveFirst, RemoveAt, SelectInSeq
  <2> HIDE DEF places
  <2> QED
    BY <2>2, <2>3
<1> QED
  BY <1>1, <1>2

LEMMA RenewTyped ==
  ASSUME NEW k \in KeyNames, expiry \in Seq(KeyNames), Renew(k)
  PROVE  expiry' \in Seq(KeyNames)
  BY RemoveFirstTyped DEF Renew

(***************************************************************************)
(* Every action keeps Sound.                                               *)
(***************************************************************************)

LEMMA InitSound == Init => Sound
  BY DEF Init, Sound, TypeOK, Started, Effects, ResultsMade, AnswersMade, Remembered,
         Replays, Pc, Ahead, Behind

LEMMA ArriveSound ==
  ASSUME Sound, NEW c \in Calls, NEW p \in Params, Arrive(c, p)
  PROVE  Sound'
<1> USE DEF Sound, Arrive, Goto, keys
<1>1. TypeOK'
  BY DEF TypeOK, Pc
<1>2. Started'
  BY DEF TypeOK, Started
<1>3. Effects'
  BY DEF TypeOK, Effects, Ahead, Behind, ViaBackend
<1>4. ResultsMade' /\ AnswersMade'
  BY NoneAssumption DEF TypeOK, ResultsMade, AnswersMade, Started, MadeFor
<1>5. Remembered'
  BY DEF TypeOK, Remembered
<1>6. Replays'
  BY DEF TypeOK, Replays, Effects, Ahead
<1> QED
  BY <1>1, <1>2, <1>3, <1>4, <1>5, <1>6

\* A call moves on without a trace.
LEMMA MoveSound ==
  ASSUME Sound, NEW c \in Calls, NEW l \in Pc, pc[c] \notin {"idle", "ok"},
         Goto(c, l),
         UNCHANGED <<params, answer, backend, keys, past>>,
         l \notin {"idle", "save", "ok"},
         l \in Ahead => pc[c] \in Ahead,
         l \in Behind => c \in ran /\ (ViaBackend(c) => backend[c] = "done"),
         \A d \in before[c] : params[d] = params[c] =>
            ScopeOf[params[c]] \in lapsed \/ l \in {"cached", "conflict", "failed"}
  PROVE  Sound'
<1> USE DEF Sound, Goto, keys, past
<1>1. TypeOK'
  BY DEF TypeOK
<1>2. Started'
  BY DEF TypeOK, Started
<1>3. Effects'
  BY DEF TypeOK, Effects, Ahead, Behind, ViaBackend
<1>4. ResultsMade' /\ AnswersMade'
  BY DEF TypeOK, ResultsMade, AnswersMade, Started, MadeFor
<1>5. Remembered'
  BY DEF TypeOK, Remembered
<1>6. Replays'
  BY DEF TypeOK, Replays
<1> QED
  BY <1>1, <1>2, <1>3, <1>4, <1>5, <1>6

\* A repeated call finds the hash ...
LEMMA LookupSound ==
  ASSUME Sound, NEW c \in Calls, Lookup(c)
  PROVE  Sound'
<1> DEFINE stored == meta[ScopeOf[params[c]]]
           l == IF stored = None THEN "called"
                ELSE IF stored = params[c] THEN "cached" ELSE "conflict"
<1>1. l \in Pc /\ l \notin {"idle", "save", "ok"} /\ l \notin Behind
  BY DEF Pc, Behind
<1>2. pc[c] = "lookup" /\ Goto(c, l) /\ UNCHANGED <<params, answer, backend, keys, past>>
  BY DEF Lookup
<1>3. ASSUME NEW d \in before[c], params[d] = params[c]
      PROVE  ScopeOf[params[c]] \in lapsed \/ l \in {"cached", "conflict", "failed"}
  <2>1. d \in Calls /\ pc[d] = "ok"
    BY <1>3 DEF Sound, TypeOK, Replays
  <2>2. stored # None \/ ScopeOf[params[c]] \in lapsed
    BY <1>3, <2>1 DEF Sound, Remembered
  <2> QED
    BY <2>2
<1> HIDE DEF l
<1> QED
  BY <1>1, <1>2, <1>3, MoveSound DEF Ahead

\* ... and the result.
LEMMA CachedSound ==
  ASSUME Sound, NEW c \in Calls, Cached(c)
  PROVE  Sound'
<1>1. CASE result[params[c]] = None
  <2>1. Goto(c, "called") /\ UNCHANGED <<params, answer, backend, keys, past>>
    BY <1>1 DEF Cached
  <2>2. ASSUME NEW d \in before[c], params[d] = params[c]
        PROVE  ScopeOf[params[c]] \in lapsed
    <3>1. d \in Calls /\ pc[d] = "ok"
      BY <2>2 DEF Sound, TypeOK, Replays
    <3> QED
      BY <1>1, <2>2, <3>1 DEF Sound, Remembered
  <2>3. pc[c] = "cached" /\ "called" \in Pc
    BY DEF Cached, Pc
  <2> QED
    BY <2>1, <2>2, <2>3, MoveSound DEF Ahead, Behind
<1>2. CASE result[params[c]] # None
  <2> DEFINE maker == result[params[c]]
  <2>1. /\ pc[c] = "cached" /\ Goto(c, "ok")
        /\ answer' = [answer EXCEPT ![c] = maker]
        /\ UNCHANGED <<params, backend, keys, past>>
    BY <1>2 DEF Cached
  <2>2. params[c] \in Params /\ maker \in Calls /\ MadeFor(maker, params[c])
    BY <1>2, <2>1 DEF Sound, TypeOK, Started, ResultsMade
  <2> USE DEF Sound, Goto, keys, past
  <2>3. TypeOK'
    BY <2>1, <2>2 DEF TypeOK, Pc
  <2>4. Started'
    BY <2>1 DEF TypeOK, Started
  <2>5. Effects'
    BY <2>1 DEF TypeOK, Effects, Ahead, Behind, ViaBackend
  <2>6. ResultsMade' /\ AnswersMade'
    BY <2>1, <2>2 DEF TypeOK, ResultsMade, AnswersMade, Started, MadeFor
  <2>7. Remembered'
    <3>1. meta[ScopeOf[params[c]]] # None \/ ScopeOf[params[c]] \in lapsed
      BY <2>2 DEF Remembered, MadeFor
    <3> QED
      BY <1>2, <2>1, <3>1 DEF TypeOK, Remembered
  <2>8. Replays'
    BY <2>1 DEF TypeOK, Replays
  <2> QED
    BY <2>3, <2>4, <2>5, <2>6, <2>7, <2>8
<1> QED
  BY <1>1, <1>2

LEMMA AnnounceSound ==
  ASSUME Sound, NEW c \in Calls, Announce(c)
  PROVE  Sound'
<1> DEFINE l == IF params[c] \in Incomplete THEN "refused" ELSE "run"
<1>1. pc[c] = "called" /\ Goto(c, l) /\ UNCHANGED <<params, answer, backend, keys, past>>
  BY DEF Announce
<1>2. \A d \in before[c] : params[d] = params[c] => ScopeOf[params[c]] \in lapsed
  BY <1>1 DEF Sound, TypeOK, Replays
<1>3. l \in Pc /\ l \notin {"idle", "save", "ok"} /\ l \notin Behind
  BY DEF Pc, Behind
<1> HIDE DEF l
<1> QED
  BY <1>1, <1>2, <1>3, MoveSound DEF Ahead

LEMMA ReceiveSound ==
  ASSUME Sound, NEW c \in Calls, Receive(c)
  PROVE  Sound'
<1>1. /\ pc[c] = "waiting" /\ backend[c] = "done" /\ Goto(c, "report")
      /\ UNCHANGED <<params, answer, backend, keys, past>>
  BY DEF Receive
<1>2. c \in ran /\ \A d \in before[c] : params[d] = params[c] => ScopeOf[params[c]] \in lapsed
  BY <1>1 DEF Sound, TypeOK, Replays, Effects
<1> QED
  BY <1>1, <1>2, MoveSound DEF Ahead, Behind, Pc

LEMMA ReportSound ==
  ASSUME Sound, NEW c \in Calls, Report(c)
  PROVE  Sound'
<1>1. /\ pc[c] = "report" /\ Goto(c, "note")
      /\ UNCHANGED <<params, answer, backend, keys, past>>
  BY DEF Report
<1>2. /\ c \in ran /\ (ViaBackend(c) => backend[c] = "done")
      /\ \A d \in before[c] : params[d] = params[c] => ScopeOf[params[c]] \in lapsed
  BY <1>1 DEF Sound, TypeOK, Replays, Effects, Behind
<1> QED
  BY <1>1, <1>2, MoveSound DEF Ahead, Behind, Pc

LEMMA FailSound ==
  ASSUME Sound, NEW c \in Calls, Fail(c)
  PROVE  Sound'
<1>1. /\ pc[c] \notin {"idle", "ok"} /\ Goto(c, "failed")
      /\ UNCHANGED <<params, answer, backend, keys, past>>
  BY DEF Fail, Settled
<1> QED
  BY <1>1, MoveSound DEF Ahead, Behind, Pc

LEMMA RunHereSound ==
  ASSUME Sound, NEW c \in Calls, RunHere(c)
  PROVE  Sound'
<1> USE DEF Sound, RunHere, Goto, keys
<1>1. TypeOK'
  BY DEF TypeOK, Pc
<1>2. Started'
  BY DEF TypeOK, Started
<1>3. Effects'
  BY DEF TypeOK, Effects, Ahead, Behind, ViaBackend
<1>4. ResultsMade' /\ AnswersMade'
  BY DEF TypeOK, ResultsMade, AnswersMade, Started, MadeFor
<1>5. Remembered'
  BY DEF TypeOK, Remembered
<1>6. Replays'
  BY DEF TypeOK, Replays
<1> QED
  BY <1>1, <1>2, <1>3, <1>4, <1>5, <1>6

LEMMA PostSound ==
  ASSUME Sound, NEW c \in Calls, Post(c)
  PROVE  Sound'
<1> USE DEF Sound, Post, Goto, keys, past
<1>1. TypeOK'
  BY DEF TypeOK, Pc
<1>2. Started'
  BY DEF TypeOK, Started
<1>3. Effects'
  BY DEF TypeOK, Effects, Ahead, Behind, ViaBackend
<1>4. ResultsMade' /\ AnswersMade'
  BY DEF TypeOK, ResultsMade, AnswersMade, Started, MadeFor
<1>5. Remembered'
  BY DEF TypeOK, Remembered
<1>6. Replays'
  BY DEF TypeOK, Replays
<1> QED
  BY <1>1, <1>2, <1>3, <1>4, <1>5, <1>6

LEMMA StoreMetaSound ==
  ASSUME Sound, NEW c \in Calls, StoreMeta(c)
  PROVE  Sound'
<1> USE DEF Sound, StoreMeta, Goto, past
<1>1. params[c] \in Params /\ ScopeOf[params[c]] \in Scopes
  BY ScopesAssumption DEF Started
<1>2. expiry' \in Seq(KeyNames)
  BY <1>1, RenewTyped DEF TypeOK, MetaKey, KeyNames
<1>3. TypeOK'
  BY <1>1, <1>2 DEF TypeOK, Pc
<1>4. Started'
  BY DEF TypeOK, Started
<1>5. Effects'
  BY DEF TypeOK, Effects, Ahead, Behind, ViaBackend
<1>6. ResultsMade' /\ AnswersMade'
  BY DEF TypeOK, ResultsMade, AnswersMade, Started, MadeFor
<1>7. Remembered'
  BY <1>1, NoneAssumption DEF TypeOK, Remembered
<1>8. Replays'
  BY DEF TypeOK, Replays
<1> QED
  BY <1>3, <1>4, <1>5, <1>6, <1>7, <1>8

LEMMA StoreResultSound ==
  ASSUME Sound, NEW c \in Calls, StoreResult(c)
  PROVE  Sound'
<1> USE DEF Sound, StoreResult, Goto, past
<1>1. params[c] \in Params /\ ScopeOf[params[c]] \in Scopes
  BY ScopesAssumption DEF Started
<1>2. expiry' \in Seq(KeyNames)
  BY <1>1, RenewTyped DEF TypeOK, ResultKey, KeyNames
<1>3. TypeOK'
  BY <1>1, <1>2 DEF TypeOK, Pc
<1>4. Started'
  BY DEF TypeOK, Started
<1>5. Effects'
  BY DEF TypeOK, Effects, Ahead, Behind, ViaBackend
<1>6. MadeFor(c, params[c])'
  BY DEF TypeOK, MadeFor, Effects, Behind, ViaBackend
<1>7. ResultsMade' /\ AnswersMade'
  BY <1>1, <1>6 DEF TypeOK, ResultsMade, AnswersMade, Started, MadeFor
<1>8. Remembered'
  BY <1>1, NoneAssumption DEF TypeOK, Remembered
<1>9. Replays'
  BY DEF TypeOK, Replays
<1> QED
  BY <1>3, <1>4, <1>5, <1>7, <1>8, <1>9

\* The backend's two commits, and its failures.
LEMMA CreateCaseSound ==
  ASSUME Sound, NEW c \in Calls, CreateCase(c)
  PROVE  Sound'
<1> USE DEF Sound, CreateCase, CommitCase, CommitTimeline, BackendFails, keys, past
<1>1. TypeOK'
  BY DEF TypeOK
<1>2. Started'
  BY DEF TypeOK, Started
<1>3. Effects'
  BY DEF TypeOK, Effects, Ahead, Behind, ViaBackend
<1>4. ResultsMade' /\ AnswersMade'
  BY DEF TypeOK, ResultsMade, AnswersMade, Started, MadeFor
<1>5. Remembered'
  BY DEF TypeOK, Remembered
<1>6. Replays'
  BY DEF TypeOK, Replays
<1> QED
  BY <1>1, <1>2, <1>3, <1>4, <1>5, <1>6

LEMMA ExpireSound ==
  ASSUME Sound, Expire
  PROVE  Sound'
<1> USE DEF Sound, Expire
<1>1. TypeOK'
  BY DEF TypeOK
<1>2. Started'
  BY DEF Started
<1>3. Effects'
  BY DEF Effects, ViaBackend
<1>4. ResultsMade' /\ AnswersMade'
  BY DEF TypeOK, ResultsMade, AnswersMade, Started, MadeFor
<1>5. ASSUME NEW s \in Scopes, s \notin lapsed'
      PROVE  meta'[s] = meta[s]
  BY <1>5 DEF TypeOK
<1>6. ASSUME NEW p \in Params, ScopeOf[p] \notin lapsed'
      PROVE  result'[p] = result[p]
  BY <1>6, ScopesAssumption DEF TypeOK
<1>7. lapsed \subseteq lapsed'
  OBVIOUS
<1>8. Remembered'
  <2> SUFFICES ASSUME NEW c \in Calls, pc[c] \in {"save", "ok"},
                      ScopeOf[params[c]] \notin lapsed'
               PROVE  /\ meta'[ScopeOf[params[c]]] # None
                      /\ pc[c] = "ok" => result'[params[c]] # None
    BY DEF Remembered
  <2>1. params[c] \in Params /\ ScopeOf[params[c]] \in Scopes
    BY ScopesAssumption DEF Started
  <2> QED
    BY <1>5, <1>6, <1>7, <2>1 DEF Remembered
<1>9. Replays'
  BY <1>7 DEF Replays
<1> QED
  BY <1>1, <1>2, <1>3, <1>4, <1>8, <1>9

LEMMA NextSound == Sound /\ [Next]_vars => Sound'
<1> SUFFICES ASSUME Sound, [Next]_vars PROVE Sound'
  OBVIOUS
<1>1. CASE Expire
  BY <1>1, ExpireSound
<1>2. ASSUME NEW c \in Calls, Execute(c)
      PROVE  Sound'
  BY <1>2, ArriveSound, LookupSound, CachedSound, AnnounceSound, RunHereSound, PostSound,
     ReceiveSound, ReportSound, StoreMetaSound, StoreResultSound, FailSound DEF Execute
<1>3. ASSUME NEW c \in Calls, CreateCase(c)
      PROVE  Sound'
  BY <1>3, CreateCaseSound
<1>4. CASE UNCHANGED vars
  BY <1>4 DEF vars, keys, past, Sound, TypeOK, Started, Effects, ResultsMade, AnswersMade,
              Remembered, Replays, MadeFor, ViaBackend
<1> QED
  BY <1>1, <1>2, <1>3, <1>4 DEF Next

LEMMA AlwaysSound == Spec => []Sound
  BY InitSound, NextSound, PTL DEF Spec

(***************************************************************************)
(* The theorems.                                                           *)
(***************************************************************************)

\* Types are kept: above all, the deadlines are those of keys.
THEOREM TypeCorrect == Spec => []TypeOK
<1>1. Sound => TypeOK
  BY DEF Sound
<1> QED
  BY <1>1, AlwaysSound, PTL

\* A caller gets a result of its own parameters, that some call really made.
THEOREM ResultIsOwn == Spec => []OwnResult
<1>1. Sound => OwnResult
  BY DEF Sound, OwnResult, AnswersMade, MadeFor
<1> QED
  BY <1>1, AlwaysSound, PTL

\* A retry after an answer does not run the tool again, as long as no key of its
\* scope has expired.
THEOREM RetryDoesNotRun == Spec => []AnsweredNotRerun
<1>1. Sound => AnsweredNotRerun
  BY DEF Sound, TypeOK, AnsweredNotRerun, Replays
<1> QED
  BY <1>1, AlwaysSound, PTL

\* No caller is told of a case that lacks its case_created row.
THEOREM ToldOfWholeCase == Spec => []AnsweredCaseIsWhole
<1>1. Sound => AnsweredCaseIsWhole
  BY DEF Sound, AnsweredCaseIsWhole, AnswersMade, MadeFor, ViaBackend
<1> QED
  BY <1>1, AlwaysSound, PTL
=============================================================================

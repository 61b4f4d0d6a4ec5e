--------------------------- MODULE CaseFileProofs ---------------------------
(***************************************************************************)
(* Theorems about CaseFile, for any requests, texts and analyses.          *)
(*                                                                         *)
(* A handler holds the row as it was when it read it.  What keeps a field  *)
(* from being dropped is that this copy and the row differ only at fields  *)
(* that were moved since (Agrees), so that what it writes is as it was     *)
(* wherever the handler has seen it.                                       *)
(*                                                                         *)
(* What a case asks for is compared with what the worker asks for, and     *)
(* what it offers with what it asks, by the rules themselves: for every    *)
(* analysis there is, not for those of an instance.                        *)
(***************************************************************************)
EXTENDS CaseFile, TLAPS

(***************************************************************************)
(* Types.                                                                  *)
(***************************************************************************)
ReqRec == [pc : {"idle", "read", "over"}, base : Rows]
PatchedRec == [left : SUBSET Names, asked : SUBSET Names, columns : SUBSET {"priority", "reason"}]

LEMMA AnalysisTyped ==
  ASSUME NEW text \in Texts
  PROVE  text.intent \in Intents /\ text.facts \in Facts /\ Fits(text.intent, text.facts)
  BY TextsAssumption

LEMMA RequiredTyped ==
  /\ \A intent, facts : Required(intent, facts) \subseteq Names
  /\ \A intent : RequiredByIntent(intent) \subseteq Names
  /\ \A text, hint : ConfirmedAtFirst(text, hint) \subseteq Names
  BY DEF Required, RequiredByIntent, ConfirmedAtFirst, Names, Fields, TxnRequired

LEMMA PriorityTyped ==
  ASSUME NEW intent, NEW text
  PROVE  Priority(intent, text) \in Levels
  BY DEF Priority, Levels

LEMMA ReasonTyped ==
  ASSUME NEW intent, NEW text \in Texts \union {NoAnalysis}
  PROVE  Reason(intent, text) \in Reasons
  <1>1. CASE text = NoAnalysis
    BY <1>1 DEF Reason, Reasons
  <1>2. CASE text \in Texts
    <2>1. text.facts.subtype \in Reasons
      BY <1>2, AnalysisTyped DEF Facts, Reasons
    <2> QED  BY <2>1 DEF Reason, Reasons
  <1> QED  BY <1>1, <1>2

LEMMA Shapes ==
  /\ TypeOK => row \in Rows /\ request \in [Requests -> ReqRec] /\ patched \in PatchedRec
  /\ FirstRow \in Rows
  BY DEF TypeOK, ReqRec, PatchedRec, FirstRow, Rows, Intents, Levels, Reasons, Statuses

LEMMA BaseTyped ==
  ASSUME TypeOK, NEW q \in Requests
  PROVE  request[q].base \in Rows
  BY Shapes DEF ReqRec

LEMMA InitTyped == Init => TypeOK
  BY Shapes DEF Init, TypeOK, NothingPatched

LEMMA CreateRowTyped ==
  ASSUME TypeOK, NEW text \in Texts \union {NoAnalysis}, NEW hint, NEW named \in Intents,
         CreateRow(text, named, hint)
  PROVE  TypeOK'
  <1> DEFINE intent == IF named # "Unknown" \/ text = NoAnalysis THEN named ELSE text.intent
             lists  == SeedLists(intent, text, hint)
  <1>1. intent \in Intents
    BY AnalysisTyped
  <1>2. lists.confirmed \subseteq Names /\ lists.pending \subseteq Names
    BY RequiredTyped DEF SeedLists
  <1>3. Priority(intent, text) \in Levels /\ Reason(intent, text) \in Reasons
    BY PriorityTyped, ReasonTyped
  <1>4. row' = [intent |-> intent, priority |-> Priority(intent, text),
                reason |-> Reason(intent, text), confirmed |-> lists.confirmed,
                pending |-> lists.pending, status |-> "open"]
    BY DEF CreateRow
  <1> HIDE DEF intent, lists
  <1>5. row' \in Rows
    BY <1>1, <1>2, <1>3, <1>4 DEF Rows, Statuses
  <1>6. /\ stage' = "row" /\ analysis' = text
        /\ UNCHANGED <<request, unseen, lost, patched>>
    BY DEF CreateRow, past
  <1> QED  BY <1>5, <1>6 DEF TypeOK

LEMMA CreateEndTyped ==
  ASSUME TypeOK, CreateEvent \/ CreateCut
  PROVE  TypeOK'
  BY DEF TypeOK, CreateEvent, CreateCut, past

LEMMA ReadTyped ==
  ASSUME TypeOK, NEW q \in Requests, Read(q)
  PROVE  TypeOK'
  <1>1. [pc |-> "read", base |-> row] \in ReqRec
    BY Shapes DEF ReqRec
  <1>2. request' \in [Requests -> ReqRec] /\ UNCHANGED <<stage, analysis, row, past>>
    BY <1>1, Shapes DEF Read
  <1> QED  BY <1>2 DEF TypeOK, ReqRec, past

(***************************************************************************)
(* A commit.                                                               *)
(***************************************************************************)

\* Where it was not moved since, a copy x of the row r has a field in the lists in
\* which r has it.
Agrees(x, un, r) ==
    \A f \in Names \ un : /\ (f \in x.confirmed) = (f \in r.confirmed)
                         /\ (f \in x.pending) = (f \in r.pending)

\* A list is what the handler makes of it, or stays if it makes nothing of it.
MadeOf(x, r, new, done) ==
    /\ done.confirmed = new.confirmed \/ (done.confirmed = r.confirmed
                                          /\ new.confirmed = x.confirmed)
    /\ done.pending = new.pending \/ (done.pending = r.pending /\ new.pending = x.pending)

\* What any commit of q does.
Wrote(q, new) ==
    /\ request[q].pc = "read" /\ request'[q].pc = "over"
    /\ \A r \in Requests :
          r # q => /\ request'[r] = request[r]
                   /\ request[r].pc = "read" => unseen'[r] = unseen[r] \union Moved(row, row')
    /\ lost' = InNeither(lost \union unseen[q], row')
    /\ MadeOf(request[q].base, row, new, row')
    /\ row'.intent = row.intent
    /\ new.priority = request[q].base.priority => row'.priority = row.priority
    /\ new.reason = request[q].base.reason => row'.reason = row.reason
    /\ UNCHANGED <<stage, analysis>>

LEMMA CommitWrote ==
  ASSUME TypeOK, NEW q \in Requests, NEW new \in Rows, NEW rewritten, Commit(q, new, rewritten)
  PROVE  Wrote(q, new)
  <1> DEFINE base == request[q].base
             c == IF "confirmed" \in rewritten THEN new.confirmed
                  ELSE Column(row.confirmed, base.confirmed, new.confirmed)
             p == IF "pending" \in rewritten THEN new.pending
                  ELSE Column(row.pending, base.pending, new.pending)
  <1>1. /\ request[q].pc = "read"
        /\ row' = [intent    |-> row.intent,
                   priority  |-> Column(row.priority, base.priority, new.priority),
                   reason    |-> Column(row.reason, base.reason, new.reason),
                   confirmed |-> c, pending |-> p,
                   status    |-> Column(row.status, base.status, new.status)]
        /\ request' = [request EXCEPT ![q] = [pc |-> "over", base |-> FirstRow]]
        /\ lost' = InNeither(lost \union unseen[q], row')
        /\ unseen' = [r \in Requests |-> IF r # q /\ request[r].pc = "read"
                                         THEN unseen[r] \union Moved(row, row') ELSE {}]
        /\ UNCHANGED <<stage, analysis>>
    BY DEF Commit
  <1>2. MadeOf(base, row, new, row')
    BY <1>1 DEF MadeOf, Column
  <1>3. /\ request'[q].pc = "over"
        /\ \A r \in Requests :
              r # q => /\ request'[r] = request[r]
                       /\ request[r].pc = "read" =>
                             unseen'[r] = unseen[r] \union Moved(row, row')
    BY <1>1, Shapes
  <1> HIDE DEF c, p
  <1> QED  BY <1>1, <1>2, <1>3 DEF Wrote, Column

LEMMA CommitTyped ==
  ASSUME TypeOK, NEW q \in Requests, NEW new \in Rows, NEW rewritten, Commit(q, new, rewritten),
         patched' \in PatchedRec
  PROVE  TypeOK'
  <1>1. row \in Rows /\ request[q].base \in Rows
    BY Shapes, BaseTyped
  <1>2. row' \in Rows
    BY <1>1 DEF Commit, Column, Rows
  <1>3. [pc |-> "over", base |-> FirstRow] \in ReqRec
    BY Shapes DEF ReqRec
  <1>4. request' \in [Requests -> ReqRec] /\ UNCHANGED <<stage, analysis>>
    BY <1>3, Shapes DEF Commit
  <1>5. Moved(row, row') \subseteq Names
    BY <1>1, <1>2 DEF Moved, Rows
  <1>6. unseen' \in [Requests -> SUBSET Names]
    <2>1. unseen' = [r \in Requests |-> IF r # q /\ request[r].pc = "read"
                                        THEN unseen[r] \union Moved(row, row') ELSE {}]
      BY DEF Commit
    <2> QED  BY <1>5, <2>1 DEF TypeOK
  <1>7. lost' \subseteq Names
    BY DEF Commit, InNeither, TypeOK
  <1> QED  BY <1>2, <1>4, <1>6, <1>7 DEF TypeOK, ReqRec, PatchedRec

(***************************************************************************)
(* The invariant.                                                          *)
(***************************************************************************)

\* The fields a case of this intent and analysis asks for, and those it may.
AskedFor == IF analysis = NoAnalysis THEN RequiredByIntent(row.intent)
            ELSE Required(row.intent, analysis.facts)
MayAsk   == AskedFor \union patched.asked

HasBase(q) == request[q].pc = "read"

\* No field is dropped: it is pending, confirmed, lost, or was left out.
RowKept    == Exists => /\ AskedFor \subseteq row.pending \union row.confirmed
                                               \union lost \union patched.left
                        /\ row.pending \subseteq MayAsk
BasesKept  == \A q \in Requests : HasBase(q) =>
                 /\ Agrees(request[q].base, unseen[q], row)
                 /\ request[q].base.pending \subseteq MayAsk
Derivation == Exists =>
    /\ row.priority = Priority(row.intent, analysis) \/ "priority" \in patched.columns
    /\ row.reason = Reason(row.intent, analysis) \/ "reason" \in patched.columns
Early      == ~ Exists => /\ row.confirmed = {}
                          /\ \A q \in Requests : request[q].pc = "idle"
Untouched  == Unedited => row.status = "open"

FileInv == RowKept /\ BasesKept /\ Derivation /\ Early /\ Untouched

LEMMA InitFile == Init => FileInv
  BY DEF Init, FileInv, RowKept, BasesKept, Derivation, Early, Untouched, HasBase, Exists,
         FirstRow

\* What a commit must not do: drop what its handler has seen, but for what the
\* body of a PATCH leaves out; ask for more, but for what it asks for.
Keeps(q) ==
    /\ \A f \in Names \ unseen[q] : f \in row.confirmed \union row.pending =>
          f \in row'.confirmed \union row'.pending \union patched'.left
    /\ \A f \in patched.left : f \in row'.confirmed \union row'.pending \union patched'.left
    /\ row'.pending \subseteq AskedFor \union patched'.asked
    /\ patched.asked \subseteq patched'.asked /\ patched.columns \subseteq patched'.columns
    /\ row'.priority = row.priority \/ "priority" \in patched'.columns
    /\ row'.reason = row.reason \/ "reason" \in patched'.columns

\* The copies of the others still agree but for what was moved.
LEMMA MovedAgrees ==
  ASSUME NEW x, NEW un, NEW r, NEW done, Agrees(x, un, r)
  PROVE  Agrees(x, un \union Moved(r, done), done)
  BY DEF Agrees, Moved

LEMMA WritesFile ==
  ASSUME TypeOK, FileInv, NEW q \in Requests, NEW new, Wrote(q, new), Keeps(q)
  PROVE  FileInv'
  <1>1. Exists /\ Exists'
    BY DEF Wrote, FileInv, Early, Exists
  <1>2. AskedFor' = AskedFor /\ MayAsk \subseteq MayAsk'
    BY DEF AskedFor, MayAsk, Wrote, Keeps
  <1>3. RowKept'
    <2>1. AskedFor \subseteq Names
      BY RequiredTyped DEF AskedFor
    <2>2. ASSUME NEW f \in AskedFor
          PROVE  f \in row'.pending \union row'.confirmed \union lost' \union patched'.left
      <3>1. f \in row.pending \union row.confirmed \union lost \union patched.left
        BY <1>1, <2>2 DEF FileInv, RowKept
      <3> QED  BY <2>1, <2>2, <3>1 DEF Wrote, Keeps, InNeither
    <2> QED  BY <1>2, <2>2 DEF RowKept, MayAsk, Keeps
  <1>4. BasesKept'
    <2> SUFFICES ASSUME NEW r \in Requests, HasBase(r)'
                 PROVE  /\ Agrees(request'[r].base, unseen'[r], row')
                        /\ request'[r].base.pending \subseteq MayAsk'
      BY DEF BasesKept, Agrees
    <2>1. r # q /\ request'[r] = request[r] /\ HasBase(r)
          /\ unseen'[r] = unseen[r] \union Moved(row, row')
      BY DEF Wrote, HasBase
    <2>2. Agrees(request[r].base, unseen[r], row) /\ request[r].base.pending \subseteq MayAsk
      BY <2>1 DEF FileInv, BasesKept
    <2> QED  BY <1>2, <2>1, <2>2, MovedAgrees
  <1>5. Derivation'
    BY <1>1 DEF Wrote, Keeps, FileInv, Derivation
  <1>6. Early' /\ Untouched'
    BY <1>1 DEF Wrote, Early, Untouched, Unedited
  <1> QED  BY <1>3, <1>4, <1>5, <1>6 DEF FileInv

(***************************************************************************)
(* The commits of the handlers.                                            *)
(***************************************************************************)

\* What a confirmation has seen confirmed stays so, and off the pending ones.
LEMMA ConfirmSeen ==
  ASSUME NEW x, NEW un, NEW r, NEW done, NEW new, NEW fields, Agrees(x, un, r),
         new.confirmed = x.confirmed \union fields, new.pending = x.pending \ fields,
         MadeOf(x, r, new, done), NEW f \in Names, f \notin un
  PROVE  /\ f \in r.confirmed => f \in done.confirmed /\ (f \in done.pending => f \in r.pending)
         /\ f \in r.pending => f \in done.pending \union done.confirmed
  <1>1. /\ (f \in x.confirmed) = (f \in r.confirmed)
        /\ (f \in x.pending) = (f \in r.pending)
    <2>1. f \in Names \ un
      OBVIOUS
    <2> QED  BY <2>1, Zenon DEF Agrees
  <1>2. f \in r.confirmed => f \in done.confirmed
    BY <1>1 DEF MadeOf
  <1>3. f \in done.pending => f \in r.pending
    BY <1>1 DEF MadeOf
  <1>4. ASSUME f \in r.pending, f \notin done.pending
        PROVE  f \in done.confirmed
    <2>1. f \in fields
      BY <1>1, <1>4 DEF MadeOf
    <2> QED  BY <1>1, <2>1 DEF MadeOf
  <1> QED  BY <1>2, <1>3, <1>4

LEMMA ConfirmWrites ==
  ASSUME TypeOK, FileInv, NEW k \in Confirms, NEW fields \in SUBSET Names,
         CommitConfirm(k, fields)
  PROVE  /\ TypeOK' /\ FileInv'
         /\ request[k].pc = "read" /\ request'[k].pc = "over"
         /\ \A f \in Names \ unseen[k] : f \in row.confirmed =>
               f \in row'.confirmed /\ (f \in row'.pending => f \in row.pending)
  <1> DEFINE base == request[k].base
             new  == [base EXCEPT !.confirmed = @ \union fields, !.pending = @ \ fields]
  <1>1. k \in Requests /\ base \in Rows
    BY BaseTyped DEF Requests
  <1>2. /\ new \in Rows
        /\ new.confirmed = base.confirmed \union fields /\ new.pending = base.pending \ fields
        /\ new.priority = base.priority /\ new.reason = base.reason
    BY <1>1 DEF Rows
  <1>3. Commit(k, new, {}) /\ patched' = patched
    BY DEF CommitConfirm
  <1> HIDE DEF new
  <1>4. TypeOK' /\ Wrote(k, new)
    BY <1>1, <1>2, <1>3, Shapes, CommitTyped, CommitWrote
  <1>5. Agrees(base, unseen[k], row) /\ base.pending \subseteq MayAsk
    BY <1>1, <1>4 DEF FileInv, BasesKept, HasBase, Wrote
  <1>6. MadeOf(base, row, new, row')
    BY <1>4 DEF Wrote
  <1> DEFINE un == unseen[k]
  <1>7. ASSUME NEW f \in Names, f \notin unseen[k]
        PROVE  /\ f \in row.confirmed =>
                     f \in row'.confirmed /\ (f \in row'.pending => f \in row.pending)
               /\ f \in row.pending => f \in row'.pending \union row'.confirmed
    <2>1. f \notin un /\ Agrees(base, un, row)
      BY <1>5, <1>7
    <2> HIDE DEF base, un
    <2> QED  BY <1>2, <1>6, <1>7, <2>1, ConfirmSeen
  <1>8. row'.pending \subseteq MayAsk
    <2>1. row.pending \subseteq MayAsk
      BY <1>1, <1>4 DEF FileInv, RowKept, Early, Wrote
    <2> HIDE DEF base
    <2> QED  BY <1>2, <1>5, <1>6, <2>1 DEF MadeOf
  <1>9. Keeps(k)
    BY <1>2, <1>3, <1>4, <1>7, <1>8 DEF Keeps, MayAsk, Wrote
  <1> QED  BY <1>1, <1>4, <1>7, <1>9, WritesFile DEF Wrote

LEMMA PatchWrites ==
  ASSUME TypeOK, FileInv, NEW p \in Patches, NEW body \in Bodies, CommitPatch(p, body)
  PROVE  /\ TypeOK' /\ FileInv'
         /\ request[p].pc = "read" /\ request'[p].pc = "over"
         /\ \A f \in Names \ unseen[p] : f \in row.confirmed /\ f \notin Withdrawn(body) =>
               f \in row'.confirmed /\ (f \in row'.pending => f \in row.pending)
  <1> DEFINE base    == request[p].base
             Sent(c) == IF c \in body.columns THEN body[c] ELSE base[c]
             new     == [intent |-> row.intent, priority |-> Sent("priority"),
                         reason |-> Sent("reason"), status |-> Sent("status"),
                         confirmed |-> Sent("confirmed"), pending |-> Sent("pending")]
  <1>1. p \in Requests /\ base \in Rows /\ row \in Rows
    BY BaseTyped, Shapes DEF Requests
  <1>2. body \in AnyBody
    BY BodiesAssumption
  <1>3. /\ new \in Rows
        /\ new.confirmed = IF "confirmed" \in body.columns THEN body.confirmed
                           ELSE base.confirmed
        /\ new.pending = IF "pending" \in body.columns THEN body.pending ELSE base.pending
        /\ "priority" \notin body.columns => new.priority = base.priority
        /\ "reason" \notin body.columns => new.reason = base.reason
    <2>1. /\ new.confirmed = Sent("confirmed") /\ new.pending = Sent("pending")
          /\ new.priority = Sent("priority") /\ new.reason = Sent("reason")
      OBVIOUS
    <2>2. /\ Sent("priority") \in Levels /\ Sent("reason") \in Reasons
          /\ Sent("status") \in Statuses
          /\ Sent("confirmed") \in SUBSET Names /\ Sent("pending") \in SUBSET Names
      BY <1>1, <1>2 DEF Rows, AnyBody
    <2>3. row.intent \in Intents
      BY <1>1 DEF Rows
    <2> HIDE DEF Sent
    <2>4. new \in Rows
      BY <2>2, <2>3 DEF Rows
    <2> QED  BY <2>1, <2>4 DEF Sent
  <1>4. /\ Commit(p, new, body.reordered \intersect body.columns)
        /\ patched' = [left    |-> InNeither(patched.left \union NotConfirmed(body)
                                             \union NotPending(body), row'),
                       asked   |-> patched.asked \union (AsksFor(body) \ row.pending),
                       columns |-> patched.columns
                                   \union (body.columns \intersect {"priority", "reason"})]
    BY DEF CommitPatch
  <1> HIDE DEF new
  <1>5. patched' \in PatchedRec
    <2>1. NotConfirmed(body) \subseteq Names /\ NotPending(body) \subseteq Names
          /\ AsksFor(body) \subseteq Names
      BY <1>2 DEF NotConfirmed, NotPending, AsksFor, AnyBody
    <2> QED  BY <1>4, <2>1, Shapes DEF PatchedRec, InNeither
  <1>6. TypeOK' /\ Wrote(p, new)
    BY <1>1, <1>3, <1>4, <1>5, CommitTyped, CommitWrote
  <1>7. Agrees(base, unseen[p], row) /\ base.pending \subseteq MayAsk
    BY <1>1, <1>6 DEF FileInv, BasesKept, HasBase, Wrote
  <1>8. MadeOf(base, row, new, row')
    BY <1>6 DEF Wrote
  <1> HIDE DEF base
  <1>9. ASSUME NEW f \in Names \ unseen[p]
        PROVE  /\ f \in row.confirmed => f \in row'.confirmed \/ f \in NotConfirmed(body)
               /\ f \in row.pending => f \in row'.pending \/ f \in NotPending(body)
               /\ f \in row'.pending => f \in row.pending \/ f \in AsksFor(body)
    <2>1. /\ (f \in base.confirmed) = (f \in row.confirmed)
          /\ (f \in base.pending) = (f \in row.pending)
      BY <1>7, <1>9, Zenon DEF Agrees
    <2> QED  BY <1>3, <1>8, <1>9, <2>1 DEF MadeOf, NotConfirmed, NotPending, AsksFor
  <1>10. row'.pending \subseteq MayAsk \union AsksFor(body)
    <2>1. row.pending \subseteq MayAsk
      BY <1>1, <1>6 DEF FileInv, RowKept, Early, Wrote
    <2> QED  BY <1>3, <1>7, <1>8, <2>1 DEF MadeOf, AsksFor
  <1>11. row'.pending \subseteq AskedFor \union patched'.asked
    <2>1. row.pending \subseteq MayAsk
      BY <1>1, <1>6 DEF FileInv, RowKept, Early, Wrote
    <2> QED  BY <1>4, <1>10, <2>1 DEF MayAsk
  <1>12. Keeps(p)
    <2>1. \A f \in Names : f \in NotConfirmed(body) \union NotPending(body) \union patched.left =>
             f \in row'.confirmed \union row'.pending \union patched'.left
      BY <1>4 DEF InNeither
    <2>2. patched.left \subseteq Names
      BY Shapes DEF PatchedRec
    <2>3. row'.priority = row.priority \/ "priority" \in patched'.columns
      BY <1>3, <1>4, <1>6 DEF Wrote, base
    <2>4. row'.reason = row.reason \/ "reason" \in patched'.columns
      BY <1>3, <1>4, <1>6 DEF Wrote, base
    <2> QED  BY <1>4, <1>9, <1>11, <2>1, <2>2, <2>3, <2>4 DEF Keeps
  <1> QED  BY <1>1, <1>6, <1>9, <1>12, WritesFile DEF Wrote, Withdrawn

(***************************************************************************)
(* The other steps.                                                        *)
(***************************************************************************)
LEMMA CreateRowFile ==
  ASSUME TypeOK, FileInv, NEW text \in Texts \union {NoAnalysis}, NEW hint, NEW named,
         CreateRow(text, named, hint)
  PROVE  FileInv'
  <1> DEFINE intent == IF named # "Unknown" \/ text = NoAnalysis THEN named ELSE text.intent
  <1>1. /\ ~ Exists /\ Exists'
        /\ analysis' = text
        /\ row'.intent = intent /\ row'.status = "open"
        /\ row'.priority = Priority(intent, text) /\ row'.reason = Reason(intent, text)
        /\ row'.pending = IF text = NoAnalysis THEN RequiredByIntent(intent)
                          ELSE Required(intent, text.facts)
        /\ UNCHANGED <<request, unseen, lost>>
    BY DEF CreateRow, Exists, SeedLists, past
  <1> HIDE DEF intent
  <1>2. \A q \in Requests : request'[q].pc = "idle"
    BY <1>1 DEF FileInv, Early
  <1>3. BasesKept'
    BY <1>2 DEF BasesKept, HasBase
  <1>4. RowKept'
    <2>1. row'.pending = AskedFor'
      BY <1>1 DEF AskedFor
    <2> QED  BY <2>1 DEF RowKept, MayAsk
  <1> QED  BY <1>1, <1>3, <1>4 DEF FileInv, Derivation, Early, Untouched

LEMMA CreateEndFile ==
  ASSUME FileInv, CreateEvent \/ CreateCut
  PROVE  FileInv'
  <1>1. Exists /\ Exists' /\ UNCHANGED <<analysis, row, request, unseen, lost, patched>>
    BY DEF CreateEvent, CreateCut, Exists, past
  <1>2. RowKept' /\ BasesKept'
    BY <1>1 DEF FileInv, RowKept, BasesKept, HasBase, Agrees, AskedFor, MayAsk
  <1>3. Derivation' /\ Early' /\ Untouched'
    BY <1>1 DEF FileInv, Derivation, Early, Untouched, Unedited
  <1> QED  BY <1>2, <1>3 DEF FileInv

\* What is read is the row.
LEMMA ReadFile ==
  ASSUME TypeOK, FileInv, NEW q \in Requests, Read(q)
  PROVE  FileInv'
  <1>1. /\ request'[q].base = row /\ request'[q].pc = "read" /\ request[q].pc = "idle"
        /\ \A r \in Requests : r # q => request'[r] = request[r]
        /\ Exists /\ Exists'
        /\ UNCHANGED <<stage, analysis, row, unseen, lost, patched>>
    BY Shapes DEF Read, Exists, past
  <1>2. RowKept' /\ Derivation' /\ Early'
    BY <1>1 DEF FileInv, RowKept, AskedFor, MayAsk, Derivation, Early
  <1>3. BasesKept'
    <2> SUFFICES ASSUME NEW r \in Requests, HasBase(r)'
                 PROVE  /\ Agrees(request'[r].base, unseen[r], row)
                        /\ request'[r].base.pending \subseteq MayAsk
      BY <1>1 DEF BasesKept, Agrees, MayAsk, AskedFor
    <2>1. CASE r = q
      BY <1>1, <2>1 DEF FileInv, RowKept, Agrees
    <2>2. CASE r # q
      BY <1>1, <2>2 DEF FileInv, BasesKept, HasBase
    <2> QED  BY <2>1, <2>2
  <1>4. Untouched'
    BY <1>1 DEF FileInv, Untouched, Unedited
  <1> QED  BY <1>2, <1>3, <1>4 DEF FileInv

(***************************************************************************)
(* Every step.                                                             *)
(***************************************************************************)
\* f stays confirmed, and off the pending ones.
Stays(f) == f \in row'.confirmed /\ (f \in row'.pending => f \in row.pending)

\* Who takes f away: a handler that has not seen it moved, or the body of a PATCH.
Taken(f) ==
    \/ \E q \in Requests : /\ request[q].pc = "read" /\ request'[q].pc = "over"
                           /\ f \in unseen[q]
    \/ \E p \in Patches, body \in Bodies : CommitPatch(p, body) /\ f \in Withdrawn(body)

LEMMA StepKinds ==
  ASSUME TypeOK, FileInv, Next
  PROVE  TypeOK' /\ FileInv' /\ \A f \in row.confirmed : Stays(f) \/ Taken(f)
  <1>0. row.confirmed \subseteq Names
    BY Shapes DEF Rows
  <1>1. ASSUME NEW text \in Texts \union {NoAnalysis}, NEW hint \in BOOLEAN,
               NEW named \in OtherIntents \union
                              (IF text = NoAnalysis THEN {} ELSE {text.intent}),
               CreateRow(text, named, hint)
        PROVE  TypeOK' /\ FileInv' /\ row.confirmed = {}
    <2>1. named \in Intents
      BY AnalysisTyped, TextsAssumption
    <2> QED  BY <1>1, <2>1, CreateRowTyped, CreateRowFile DEF CreateRow, Exists, FileInv, Early
  <1>2. ASSUME CreateEvent \/ CreateCut
        PROVE  TypeOK' /\ FileInv' /\ UNCHANGED row
    BY <1>2, CreateEndTyped, CreateEndFile DEF CreateEvent, CreateCut
  <1>3. ASSUME NEW q \in Requests, Read(q)
        PROVE  TypeOK' /\ FileInv' /\ UNCHANGED row
    BY <1>3, ReadTyped, ReadFile DEF Read
  <1>4. ASSUME NEW k \in Confirms, NEW fields \in Named, CommitConfirm(k, fields)
        PROVE  TypeOK' /\ FileInv' /\ \A f \in row.confirmed : Stays(f) \/ Taken(f)
    <2>1. fields \in SUBSET Names /\ k \in Requests
      BY BodiesAssumption DEF Requests
    <2> QED  BY <1>0, <1>4, <2>1, ConfirmWrites DEF Stays, Taken
  <1>5. ASSUME NEW p \in Patches, NEW body \in Bodies, CommitPatch(p, body)
        PROVE  TypeOK' /\ FileInv' /\ \A f \in row.confirmed : Stays(f) \/ Taken(f)
    <2>1. p \in Requests
      BY DEF Requests
    <2> QED  BY <1>0, <1>5, <2>1, PatchWrites DEF Stays, Taken
  <1>6. UNCHANGED row => \A f \in row.confirmed : Stays(f)
    BY DEF Stays
  <1> QED  BY <1>1, <1>2, <1>3, <1>4, <1>5, <1>6 DEF Next

LEMMA IdleStep ==
  ASSUME TypeOK, FileInv, UNCHANGED vars
  PROVE  TypeOK' /\ FileInv'
  <1>1. UNCHANGED <<stage, analysis, row, request, unseen, lost, patched>>
    BY DEF vars
  <1>2. TypeOK'
    BY <1>1 DEF TypeOK
  <1>3. RowKept' /\ BasesKept'
    BY <1>1 DEF FileInv, RowKept, BasesKept, HasBase, Agrees, AskedFor, MayAsk, Exists
  <1>4. Derivation' /\ Early' /\ Untouched'
    BY <1>1 DEF FileInv, Derivation, Early, Untouched, Unedited, Exists
  <1> QED  BY <1>2, <1>3, <1>4 DEF FileInv

LEMMA Inductive == Spec => [](TypeOK /\ FileInv)
  <1>1. Init => TypeOK /\ FileInv
    BY InitTyped, InitFile
  <1>2. TypeOK /\ FileInv /\ [Next]_vars => (TypeOK /\ FileInv)'
    BY StepKinds, IdleStep
  <1> QED  BY <1>1, <1>2, PTL DEF Spec

\* The variables of the file keep their types, whatever the analyses.
THEOREM TypeCorrect == Spec => []TypeOK
  <1> QED  BY Inductive, PTL

\* A confirmed field leaves the row, or is asked for again, only by a handler that
\* had read the row before its lists were changed at that field, or by a PATCH whose
\* body says so (patch_case and profile_confirm): for any requests and bodies.
THEOREM Confirmed == Spec => ConfirmedStays
  <1>1. ASSUME TypeOK, FileInv, Next
        PROVE  \A f \in row.confirmed : Stays(f) \/ Taken(f)
    BY <1>1, StepKinds
  <1>2. TypeOK /\ FileInv /\ [Next]_vars
           => [\A f \in row.confirmed :
                 \/ f \in row'.confirmed /\ (f \in row'.pending => f \in row.pending)
                 \/ \E q \in Requests :
                       /\ request[q].pc = "read" /\ request'[q].pc = "over"
                       /\ f \in unseen[q]
                 \/ \E p \in Patches, body \in Bodies :
                       CommitPatch(p, body) /\ f \in Withdrawn(body)]_vars
    BY <1>1 DEF Stays, Taken
  <1> QED  BY <1>2, Inductive, PTL DEF Spec, ConfirmedStays

(***************************************************************************)
(* What a case asks for, and its priority.                                 *)
(***************************************************************************)

\* The two lists of required fields, intent by intent.
LEMMA MissingRequired ==
  ASSUME NEW intent \in Intents, NEW facts \in Facts, Fits(intent, facts),
         NEW f \in Missing(intent, facts), f \notin Required(intent, facts)
  PROVE  intent # "LostStolen" /\ f = "case_id" /\ facts.status \in KnownStatus
  <1>1. CASE intent = "StatusWhatNext"
    BY <1>1 DEF Missing, Required
  <1>2. CASE intent = "LostStolen"
    BY <1>2 DEF Missing, Fits
  <1>3. CASE intent = "UnblockReissue"
    BY <1>3 DEF Missing, Required
  <1>4. CASE intent = "CardNotWorking"
    BY <1>4 DEF Missing, Required
  <1>5. CASE intent = "BlockCard"
    BY <1>5 DEF Missing, Required
  <1>6. CASE intent = "SuspiciousTransaction"
    <2>1. facts.possession = "unknown" => /\ facts.possession # "known"
                                          /\ facts.card \notin {"with_client", "lost"}
      BY DEF Fits
    <2> QED  BY <1>6, <2>1 DEF Missing, Required
  <1>7. CASE intent = "Unknown"
    BY <1>7 DEF Missing
  <1> QED  BY <1>1, <1>2, <1>3, <1>4, <1>5, <1>6, <1>7 DEF Intents

LEMMA RecoveredRisk ==
  ASSUME analysis # NoAnalysis, row.intent = analysis.intent, RiskIsHigh,
         row.intent = "SuspiciousTransaction"
  PROVE  analysis.facts.signals \/ analysis.facts.card = "lost"
  <1>1. CASE stage = "created"
    <2>1. Recovered.facts = analysis.facts /\ Recovered.intent = row.intent
      BY <1>1 DEF Recovered
    <2> QED  BY <2>1 DEF RiskIsHigh, HighRisk
  <1>2. CASE stage # "created"
    <2>1. ~ Recovered.facts.signals /\ Recovered.facts.card = "unknown"
          /\ Recovered.intent = row.intent
      BY <1>2 DEF Recovered, NoFacts
    <2> QED  BY <2>1 DEF RiskIsHigh, HighRisk
  <1> QED  BY <1>1, <1>2

LEMMA CoversNow == TypeOK /\ FileInv => CaseCoversAnalysis
  <1> SUFFICES ASSUME TypeOK, FileInv, Exists, analysis # NoAnalysis,
                      row.intent = analysis.intent
               PROVE  /\ Missing(row.intent, analysis.facts)
                            \ (row.pending \union row.confirmed)
                            \subseteq lost \union patched.left \union TakenForKnown(row.intent)
                      /\ RiskIsHigh /\ row.intent \in HighRisk \union {"SuspiciousTransaction"}
                            => \/ row.priority = "high" \/ LostCardDisputed
                               \/ "priority" \in patched.columns
    BY DEF CaseCoversAnalysis
  <1>1. analysis \in Texts
    BY DEF TypeOK
  <1>2. row.intent \in Intents /\ analysis.facts \in Facts
        /\ Fits(row.intent, analysis.facts)
    BY <1>1, AnalysisTyped
  <1>3. ASSUME NEW f \in Missing(row.intent, analysis.facts),
               f \notin row.pending, f \notin row.confirmed,
               f \notin lost \union patched.left
        PROVE  f \in TakenForKnown(row.intent)
    <2>1. f \notin Required(row.intent, analysis.facts)
      BY <1>3 DEF FileInv, RowKept, AskedFor
    <2> QED  BY <1>2, <1>3, <2>1, MissingRequired DEF TakenForKnown
  <1>4. ASSUME RiskIsHigh, row.intent \in HighRisk \union {"SuspiciousTransaction"},
               row.priority # "high", "priority" \notin patched.columns
        PROVE  LostCardDisputed
    <2>1. row.priority = Priority(row.intent, analysis)
      BY <1>4 DEF FileInv, Derivation
    <2>2. row.intent = "SuspiciousTransaction"
      BY <1>4, <2>1 DEF Priority, HighRisk
    <2>3. /\ ~ analysis.facts.signals
          /\ analysis.facts.subtype \in {"recurring_subscription", "duplicate_charge"}
      BY <1>4, <2>1, <2>2 DEF Priority, HighRisk
    <2> QED  BY <1>4, <2>2, <2>3, RecoveredRisk DEF LostCardDisputed
  <1> QED  BY <1>3, <1>4

\* For every analysis the text rules allow: what the worker asks for is pending
\* or confirmed on the case, taken for known, written over unseen, or left out by a
\* PATCH, and a high risk has a high priority but for one kind of dispute and for
\* what a PATCH has set (build_case_seed, required_pending_fields, _risk_summary,
\* patch_case).
THEOREM CoversAnalysis == Spec => []CaseCoversAnalysis
  <1> QED  BY CoversNow, Inductive, PTL

(***************************************************************************)
(* What a reader is shown.                                                 *)
(***************************************************************************)

\* The tools of a reader: no consent comes with the request, in mode ok.
Tools(intent, phase, lists, facts) ==
    ResolveTools(intent, phase, lists.pending, lists.confirmed, FALSE, "ok", facts)

\* The rules of the tools do not ask who has the card, and of the channel only
\* for the one tool.
LEMMA ToolsOfFacts ==
  ASSUME NEW intent, NEW phase, NEW lists, NEW f, NEW g,
         g.subtype = f.subtype, g.card = f.card, g.actions = f.actions,
         g.status = f.status, g.signals = f.signals, g.channel = "unknown"
  PROVE  Tools(intent, phase, lists, f) \ {"toggle_online_payments"}
         = Tools(intent, phase, lists, g)
  <1> DEFINE missing   == lists.pending
             confirmed == lists.confirmed
  <1> HIDE DEF missing, confirmed
  <1>1. ASSUME NEW tool, tool # "toggle_online_payments"
        PROVE  Enabled(tool, intent, phase, missing, confirmed, FALSE, f)
               <=> Enabled(tool, intent, phase, missing, confirmed, FALSE, g)
    <2>1. \A open, left :
             /\ TransactionsEnabled(open, left, f) <=> TransactionsEnabled(open, left, g)
             /\ ReissueEnabled(open, intent, f) <=> ReissueEnabled(open, intent, g)
             /\ UnblockEnabled(left, f) <=> UnblockEnabled(left, g)
             /\ StatusEnabled(open, intent, left, f) <=> StatusEnabled(open, intent, left, g)
      BY DEF TransactionsEnabled, ReissueEnabled, UnblockEnabled, StatusEnabled
    <2>2. BlockEnabled(intent, confirmed, FALSE, f) <=> BlockEnabled(intent, confirmed, FALSE, g)
      BY DEF BlockEnabled
    <2> QED  BY <1>1, <2>1, <2>2 DEF Enabled
  <1>2. ~ Enabled("toggle_online_payments", intent, phase, missing, confirmed, FALSE, g)
    BY DEF Enabled
  <1>3. ResolveTools(intent, phase, missing, confirmed, FALSE, "ok", f)
           \ {"toggle_online_payments"}
        = ResolveTools(intent, phase, missing, confirmed, FALSE, "ok", g)
    BY <1>1, <1>2 DEF ResolveTools
  <1> QED  BY <1>3 DEF Tools, missing, confirmed

LEMMA RecoveredFacts ==
  ASSUME TypeOK, stage = "created"
  PROVE  LET f == SeedFacts(analysis)  g == CaseFacts
         IN  /\ g.subtype = f.subtype /\ g.card = f.card /\ g.actions = f.actions
             /\ g.status = f.status /\ g.signals = f.signals /\ g.channel = "unknown"
  <1>1. SeedFacts(analysis) \in Facts
    <2>1. NoFacts \in Facts
      BY DEF NoFacts, Facts
    <2> QED  BY <2>1, AnalysisTyped DEF SeedFacts, TypeOK
  <1>2. Recovered.facts \in Facts
        /\ \/ Recovered.facts = SeedFacts(analysis)
           \/ Recovered.facts = [SeedFacts(analysis) EXCEPT !.channel = "unknown"]
    <2>1. CASE analysis = NoAnalysis
      BY <2>1 DEF Recovered, SeedFacts, NoFacts, Facts
    <2>2. CASE analysis # NoAnalysis
      BY <1>1, <2>2 DEF Recovered, SeedFacts
    <2> QED  BY <2>1, <2>2
  <1> DEFINE known == IF Recovered.facts.card \in {"with_client", "lost"}
                         \/ "card_in_possession" \in row.confirmed
                      THEN "known" ELSE "unknown"
  <1>3. CaseFacts = [Recovered.facts EXCEPT !.channel = "unknown", !.possession = known]
    BY DEF CaseFacts
  <1> HIDE DEF known
  <1> QED  BY <1>1, <1>2, <1>3 DEF Facts

LEMMA SeedNow == TypeOK /\ FileInv => SeedIsView
  <1> SUFFICES ASSUME TypeOK, FileInv, stage = "created", Unedited
               PROVE  LET seed == View(row.intent, row, "open", SeedFacts(analysis)) IN
                      /\ seed.tools \ {"toggle_online_payments"} = CaseView.tools
                      /\ seed.phase = CaseView.phase /\ seed.score = CaseView.score
    BY DEF SeedIsView
  <1>1. row.status = "open"
    BY DEF FileInv, Untouched
  <1> DEFINE phase == InferCasePhase(row.intent, row.pending, "open")
             f     == SeedFacts(analysis)
             g     == CaseFacts
  <1>2. Tools(row.intent, phase, row, f) \ {"toggle_online_payments"}
        = Tools(row.intent, phase, row, g)
    <2>1. /\ g.subtype = f.subtype /\ g.card = f.card /\ g.actions = f.actions
          /\ g.status = f.status /\ g.signals = f.signals /\ g.channel = "unknown"
      BY RecoveredFacts
    <2> HIDE DEF phase, f, g
    <2> QED  BY <2>1, ToolsOfFacts
  <1> QED  BY <1>1, <1>2 DEF CaseView, View, Tools

\* What the creation stores of its readiness is what a reader computes from the
\* row and the timeline, until the first edit (build_readiness, _case_payload).
THEOREM SeedIsShown == Spec => []SeedIsView
  <1> QED  BY SeedNow, Inductive, PTL

(***************************************************************************)
(* What a case offers.                                                     *)
(***************************************************************************)

\* What the pending fields of a case say of the facts a reader recovers.
LEMMA AskedBecause ==
  ASSUME TypeOK, FileInv, Exists
  PROVE  /\ "merchant_name_confirm" \in row.pending \ patched.asked
            /\ "reason" \notin patched.columns => CaseFacts.subtype = "recurring_subscription"
         /\ "problem_channel_confirm" \in row.pending \ patched.asked =>
                row.intent = "CardNotWorking" /\ CaseFacts.card # "damaged"
  <1>1. /\ CaseFacts.subtype = Recovered.facts.subtype
        /\ CaseFacts.card = Recovered.facts.card
    <2> DEFINE known == IF Recovered.facts.card \in {"with_client", "lost"}
                           \/ "card_in_possession" \in row.confirmed
                        THEN "known" ELSE "unknown"
    <2>1. CaseFacts = [Recovered.facts EXCEPT !.channel = "unknown", !.possession = known]
      BY DEF CaseFacts
    <2> HIDE DEF known
    <2>2. Recovered.facts \in Facts
      <3>1. CASE stage = "created" /\ analysis # NoAnalysis
        BY <3>1, AnalysisTyped DEF Recovered, TypeOK
      <3>2. CASE stage = "created" /\ analysis = NoAnalysis
        BY <3>2 DEF Recovered, NoFacts, Facts
      <3>3. CASE stage # "created"
        BY <3>3, Shapes DEF Recovered, NoFacts, Facts, Rows, Reasons
      <3> QED  BY <3>1, <3>2, <3>3
    <2> QED  BY <2>1, <2>2 DEF Facts
  <1>2. row.pending \ patched.asked \subseteq AskedFor
    BY DEF FileInv, RowKept, MayAsk
  <1>3. ASSUME "merchant_name_confirm" \in row.pending \ patched.asked,
               "reason" \notin patched.columns
        PROVE  Recovered.facts.subtype = "recurring_subscription"
    <2>1. /\ analysis # NoAnalysis /\ row.intent = "SuspiciousTransaction"
          /\ analysis.facts.subtype = "recurring_subscription"
      BY <1>2, <1>3 DEF AskedFor, Required, RequiredByIntent, TxnRequired
    <2>2. row.reason = "recurring_subscription"
      BY <1>3, <2>1 DEF FileInv, Derivation, Reason
    <2> QED  BY <2>1, <2>2 DEF Recovered, NoFacts
  <1>4. ASSUME "problem_channel_confirm" \in row.pending \ patched.asked
        PROVE  row.intent = "CardNotWorking" /\ Recovered.facts.card # "damaged"
    <2>1. /\ row.intent = "CardNotWorking"
          /\ analysis # NoAnalysis => analysis.facts.card # "damaged"
      BY <1>2, <1>4 DEF AskedFor, Required, RequiredByIntent, TxnRequired
    <2> QED  BY <2>1 DEF Recovered, NoFacts
  <1> QED  BY <1>1, <1>3, <1>4

\* In Collect a list enables the creation of a case alone.
LEMMA CollectCloses ==
  ASSUME NEW intent, NEW tool, tool # "create_case"
  PROVE  tool \notin Open(intent, "Collect")
  BY DEF Open

\* A missing field closes the tools it is said to block.
LEMMA BlockedTools ==
  ASSUME NEW intent, NEW facts, NEW missing, NEW confirmed,
         NEW f \in missing, f \notin confirmed, f \in Names,
         f = "merchant_name_confirm" => facts.subtype = "recurring_subscription",
         f = "problem_channel_confirm" => intent = "CardNotWorking" /\ facts.card # "damaged",
         NEW tool \in BlocksTools(f), tool # "create_case",
         Enabled(tool, intent, "Collect", missing, confirmed, FALSE, facts)
  PROVE  tool = "block_card" /\ (intent \in HighRisk \/ facts.signals)
  <1>1. CASE f \in TxnRequired \union {"merchant_name_confirm"}
    <2>1. tool = "get_transactions"
      BY <1>1 DEF BlocksTools, TxnRequired
    <2> QED  BY <1>1, <2>1 DEF Enabled, TransactionsEnabled
  <1>2. CASE f = "customer_confirm_block"
    <2>1. tool = "block_card"
      BY <1>2 DEF BlocksTools, TxnRequired
    <2> QED  BY <1>2, <2>1 DEF Enabled, BlockEnabled
  <1>3. CASE f = "problem_channel_confirm"
    <2>1. tool \in {"get_card_limits", "toggle_online_payments", "reissue_card"}
      BY <1>3 DEF BlocksTools, TxnRequired
    <2>2. f \in missing \ confirmed
      OBVIOUS
    <2>3. tool = "reissue_card" => ~ Enabled(tool, intent, "Collect", missing, confirmed,
                                             FALSE, facts)
      BY <1>3 DEF Enabled, ReissueEnabled
    <2> QED  BY <1>3, <2>1, <2>2, <2>3 DEF Enabled
  <1>4. CASE f = "case_id"
    <2>1. tool \in {"get_case_status", "unblock_card"}
      BY <1>4 DEF BlocksTools, TxnRequired
    <2>2. f \in missing \ confirmed
      OBVIOUS
    <2>3. tool = "get_case_status" => tool \notin Open(intent, "Collect")
      BY CollectCloses
    <2> QED  BY <1>4, <2>1, <2>2, <2>3 DEF Enabled, UnblockEnabled, StatusEnabled
  <1>5. CASE f = "other"
    BY <1>5 DEF BlocksTools, TxnRequired
  <1> QED  BY <1>1, <1>2, <1>3, <1>4, <1>5 DEF Names, Fields

\* With nothing to ask, every other intent has a tool in Act.
LEMMA ActHasTool ==
  ASSUME NEW intent \in Intents, intent # "StatusWhatNext", NEW confirmed, NEW facts
  PROVE  ResolveTools(intent, "Act", {}, confirmed, FALSE, "ok", facts) # {}
  <1>1. CASE intent = "CardNotWorking"
    <2>1. "get_card_limits" \in Listed(intent, "Act")
      BY <1>1 DEF Listed, HighRisk
    <2>2. Enabled("get_card_limits", intent, "Act", {}, confirmed, FALSE, facts)
      BY DEF Enabled
    <2> QED  BY <2>1, <2>2 DEF ResolveTools
  <1>2. CASE intent = "UnblockReissue"
    <2>1. "get_case_status" \in Listed(intent, "Act")
      BY <1>2 DEF Listed, HighRisk
    <2>2. "get_case_status" \in Open(intent, "Act")
      BY <1>2, <2>1 DEF Open
    <2>3. Enabled("get_case_status", intent, "Act", {}, confirmed, FALSE, facts)
      BY <1>2, <2>2 DEF Enabled, StatusEnabled
    <2> QED  BY <2>1, <2>3 DEF ResolveTools
  <1>3. CASE intent \notin {"CardNotWorking", "UnblockReissue"}
    <2>1. "create_case" \in Listed(intent, "Act")
      BY <1>3 DEF Listed, Intents, HighRisk
    <2>2. "create_case" \in Open(intent, "Act")
      BY <1>3, <2>1 DEF Open
    <2>3. Enabled("create_case", intent, "Act", {}, confirmed, FALSE, facts)
      BY <2>2 DEF Enabled
    <2> QED  BY <2>1, <2>3 DEF ResolveTools
  <1> QED  BY <1>1, <1>2, <1>3

LEMMA OffersNow == TypeOK /\ FileInv => OffersFit
  <1> SUFFICES ASSUME TypeOK, FileInv, Exists
               PROVE  /\ CaseView.ready = "completed" =>
                            CaseView.tools \subseteq {"get_case_status"}
                      /\ ~ Terminal(row.status) => \A f \in row.pending \ row.confirmed :
                            BlocksTools(f) \intersect CaseView.tools \subseteq StaysOpen(f)
                      /\ CaseView.next = {"wait"} =>
                            row.intent = "StatusWhatNext" /\ CaseFacts.status \notin KnownStatus
    BY DEF OffersFit
  <1> DEFINE phase == InferCasePhase(row.intent, row.pending, row.status)
             tools == ResolveTools(row.intent, phase, row.pending, row.confirmed, FALSE,
                                   "ok", CaseFacts)
  <1>1. /\ CaseView.tools = tools
        /\ CaseView.ready = ReadinessStatus(row.pending, tools, row.status)
        /\ CaseView.next = NextAction(row.intent, row.pending, tools, row.status, CaseFacts)
    BY DEF CaseView, View
  <1>2. row.intent \in Intents /\ row.pending \subseteq Names
    BY Shapes DEF Rows
  <1>3. \A tool \in tools : /\ tool \in Listed(row.intent, phase)
                            /\ Enabled(tool, row.intent, phase, row.pending, row.confirmed,
                                       FALSE, CaseFacts)
    BY DEF ResolveTools
  <1>4. ASSUME Terminal(row.status) PROVE tools \subseteq {"get_case_status"}
    <2>1. phase = "Explain"
      BY <1>4 DEF InferCasePhase
    <2>2. Listed(row.intent, "Explain") = {"get_case_status"}
      BY DEF Listed
    <2> QED  BY <1>3, <2>1, <2>2
  <1>5. ASSUME ~ Terminal(row.status), NEW f \in row.pending, f \notin row.confirmed,
               NEW tool \in BlocksTools(f), tool \in tools
        PROVE  tool \in StaysOpen(f)
    <2>1. phase = "Collect"
      BY <1>5 DEF InferCasePhase
    <2>2. Enabled(tool, row.intent, "Collect", row.pending, row.confirmed, FALSE, CaseFacts)
      BY <1>3, <1>5, <2>1
    <2>3. ASSUME tool # "create_case",
                 f = "merchant_name_confirm" => CaseFacts.subtype = "recurring_subscription",
                 f = "problem_channel_confirm" =>
                    row.intent = "CardNotWorking" /\ CaseFacts.card # "damaged"
          PROVE  tool = "block_card" /\ (row.intent \in HighRisk \/ CaseFacts.signals)
      BY <1>2, <1>5, <2>2, <2>3, BlockedTools
    <2>4. CASE f \in patched.asked \intersect {"merchant_name_confirm",
                                              "problem_channel_confirm"}
      BY <1>5, <2>4 DEF StaysOpen
    <2>5. CASE f = "merchant_name_confirm" /\ "reason" \in patched.columns
      BY <1>5, <2>5 DEF StaysOpen
    <2> QED  BY <1>5, <2>3, <2>4, <2>5, AskedBecause DEF StaysOpen
  <1>6. ASSUME CaseView.next = {"wait"}
        PROVE  row.intent = "StatusWhatNext" /\ CaseFacts.status \notin KnownStatus
    <2>1. "wait" \notin tools
      <3>1. "wait" \notin Listed(row.intent, phase)
        BY DEF Listed
      <3> QED  BY <1>3, <3>1
    <2>2. {"completed"} # {"wait"} /\ {"ask"} # {"wait"}
          /\ {PreferredTool(row.intent, CaseFacts)} # {"wait"}
      BY DEF PreferredTool
    <2> HIDE DEF tools
    <2>3. ~ Terminal(row.status) /\ row.pending = {} /\ tools = {}
      BY <1>1, <1>6, <2>1, <2>2 DEF NextAction
    <2> USE DEF tools
    <2>4. row.intent = "StatusWhatNext"
      <3>1. row.intent # "StatusWhatNext" => phase = "Act"
        BY <2>3 DEF InferCasePhase
      <3> QED  BY <1>2, <2>3, <3>1, ActHasTool
    <2>5. CaseFacts.status \in KnownStatus => "get_case_status" \in tools
      <3>1. "get_case_status" \in Listed(row.intent, phase)
        BY <2>4 DEF Listed, HighRisk
      <3>2. CaseFacts.status \in KnownStatus =>
               Enabled("get_case_status", row.intent, phase, {}, row.confirmed, FALSE, CaseFacts)
        BY DEF Enabled, StatusEnabled, KnownStatus
      <3> QED  BY <2>3, <3>1, <3>2 DEF ResolveTools
    <2> QED  BY <2>3, <2>4, <2>5
  <1>7. CaseView.ready = "completed" => Terminal(row.status)
    BY <1>1 DEF ReadinessStatus
  <1> QED  BY <1>1, <1>4, <1>5, <1>6, <1>7

\* A closed case offers nothing that changes anything, a missing field closes the
\* tools it is said to block, and who has nothing to ask has a tool to go on with
\* (infer_case_phase, resolve_tools, build_readiness): for every case there is.
THEOREM Offers == Spec => []OffersFit
  <1> QED  BY OffersNow, Inductive, PTL
=============================================================================

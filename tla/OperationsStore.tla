-------------------------- MODULE OperationsStore --------------------------
(***************************************************************************)
(* The SQLite store behind the Operations service                         *)
(* (src/recallops/services/operations.py): the workflow identities with    *)
(* their checkpoint head and fencing attempt, the one-use execution        *)
(* grants, the case rows with their compare-and-swap version, and the      *)
(* idempotent receipts.                                                    *)
(*                                                                         *)
(* Every operation of the store is one BEGIN IMMEDIATE transaction, so it  *)
(* is one step here; a transaction that raises is rolled back and is a     *)
(* stuttering step.  The callers are not trusted: any caller may call any  *)
(* operation with any arguments, in any order.  What a case contains       *)
(* (holds, dispositions, tasks) is the subject of CaseLedger; here a write *)
(* that its validators refuse is a step that is not taken.                 *)
(***************************************************************************)
EXTENDS Integers

CONSTANTS
  Cases, Threads,
  Owners,        \* owner tokens: the UUID stored in each checkpoint database
  LegacyOwner,   \* the owner token an older schema derived from a path
  Heads,         \* checkpoint ids
  InitialHead,   \* INITIAL_CHECKPOINT_HEAD
  Tokens,        \* attempt tokens
  Requests,      \* workflow request digests
  Executions,    \* (execution_id, execution_request_digest) pairs
  Writes,        \* write requests; equal iff their operation_request_hash is
  Keys,          \* idempotency keys
  LegacyReceipts,\* receipts a store of an older schema may already hold
  None           \* SQL NULL, and the missing row

Actions == {"create_case", "mutate", "close_case"}

\* `thread` is part of a create_case request only.
WriteRequest == [case: Cases, thread: Threads, action: Actions, expected: Nat]

(* The fencing columns attempt_* of workflow_identities.  The lease is not  *)
(* a clock: `live` says that attempt_expires_at lies in the future.         *)
Attempt ==
  [token: Tokens, expected: Heads, request: Requests,
   execution: Executions \cup {None}, state: {"active", "uncertain"},
   live: BOOLEAN]

Grant ==
  [case: Cases, thread: Threads, head: Heads, request: Requests,
   execution: Executions, write: Writes, key: Keys, consumed: BOOLEAN]

\* `legacy`: request_hash was computed before thread_id entered the details.
Receipt == [key: Keys, write: Writes, legacy: BOOLEAN]

\* A row of cases and of case_threads; version 0: no row.
CaseRow == [version: Nat, closed: BOOLEAN, thread: Threads \cup {None}]

ASSUME StoreAssumption ==
  /\ InitialHead \in Heads
  /\ Writes \subseteq WriteRequest
  /\ None \notin Threads /\ None \notin Owners /\ None \notin Heads
  /\ None \notin Executions /\ None \notin Attempt
  /\ LegacyOwner \notin Owners /\ LegacyOwner # None

(* What an older schema leaves behind: cases just created, by one receipt   *)
(* each, without a grant, under distinct keys and on distinct threads.      *)
ASSUME LegacyAssumption ==
  /\ LegacyReceipts \subseteq {r \in Receipt :
        r.legacy /\ r.write.action = "create_case" /\ r.write.expected = 0}
  /\ \A r, s \in LegacyReceipts :
        r.key = s.key \/ r.write.case = s.write.case
          \/ r.write.thread = s.write.thread => r = s

VARIABLES
  thread,        \* workflow_identities.thread_id; None: the case has no row
  owner,         \* workflow_identities.owner_token
  head,          \* workflow_identities.checkpoint_head
  attempt,       \* workflow_identities.attempt_*
  grants,        \* execution_grants
  cases,         \* cases: version and closed status; version 0: no row
  receipts       \* receipts

identityVars == <<thread, owner, head, attempt>>
storeVars == <<thread, owner, head, attempt, grants, cases, receipts>>

TypeOK ==
  /\ thread \in [Cases -> Threads \cup {None}]
  /\ owner \in [Cases -> Owners \cup {LegacyOwner, None}]
  /\ head \in [Cases -> Heads \cup {None}]
  /\ attempt \in [Cases -> Attempt \cup {None}]
  /\ grants \in SUBSET Grant
  /\ cases \in [Cases -> CaseRow]
  /\ receipts \in SUBSET Receipt

-----------------------------------------------------------------------------
(* _migrate_case_threads: opening a store gives every case it holds an      *)
(* identity row without a head, owned by nobody or by the legacy token.     *)

LegacyRow(c) ==
  LET created == {r \in receipts : r.write.case = c}
  IN  IF created = {}
        THEN [version |-> 0, closed |-> FALSE, thread |-> None]
        ELSE [version |-> 1, closed |-> FALSE,
              thread |-> (CHOOSE r \in created : TRUE).write.thread]

Init ==
  /\ receipts \in {{}, LegacyReceipts}
  /\ cases = [c \in Cases |-> LegacyRow(c)]
  /\ thread = [c \in Cases |-> cases[c].thread]
  /\ \E legacyOwner \in {LegacyOwner, None} :
       owner = [c \in Cases |-> IF thread[c] = None THEN None ELSE legacyOwner]
  /\ head = [c \in Cases |-> None]
  /\ attempt = [c \in Cases |-> None]
  /\ grants = {}

-----------------------------------------------------------------------------
(* Workflow identities.                                                     *)

\* Faulty: the lookup by thread is forgotten.
ThreadUnchecked(t) == t \in Threads

ThreadFree(t) == \A c \in Cases : thread[c] # t

\* What reserve_workflow_identity answers for an identity that is there.
AlreadyReserved(c, t, o) == thread[c] = t /\ owner[c] = o

ReserveWorkflowIdentity(c, t, o) ==
  /\ thread[c] = None
  /\ ThreadFree(t)
  /\ thread' = [thread EXCEPT ![c] = t]
  /\ owner' = [owner EXCEPT ![c] = o]
  /\ head' = [head EXCEPT ![c] = InitialHead]
  /\ UNCHANGED <<attempt, grants, cases, receipts>>

\* An owner token is adopted from NULL or from the store's legacy token.
MayAdopt(c, t, o) == thread[c] = t /\ owner[c] \in {None, o, LegacyOwner}

ValidateOrClaimWorkflowIdentity(c, t, o) ==
  /\ MayAdopt(c, t, o)
  /\ owner' = [owner EXCEPT ![c] = o]
  /\ UNCHANGED <<thread, head, attempt, grants, cases, receipts>>

MayRelease(c, t, o) == cases[c].version = 0 /\ thread[c] = t /\ owner[c] = o

ReleaseWorkflowIdentity(c, t, o) ==
  /\ MayRelease(c, t, o)
  /\ thread' = [thread EXCEPT ![c] = None]
  /\ owner' = [owner EXCEPT ![c] = None]
  /\ head' = [head EXCEPT ![c] = None]
  /\ attempt' = [attempt EXCEPT ![c] = None]
  /\ UNCHANGED <<grants, cases, receipts>>

-----------------------------------------------------------------------------
(* The fence: one mutation attempt at the exact checkpoint head.            *)

Owned(c, t, o) == thread[c] = t /\ owner[c] = o

FenceColumns == <<thread, owner, grants, cases, receipts>>

\* The head a claim works against: a row without a head adopts the caller's.
AtHead(c, h) == head[c] \in {None, h}

NewAttempt(tok, h, req, exec) ==
  [token |-> tok, expected |-> h, request |-> req, execution |-> exec,
   state |-> "active", live |-> TRUE]

\* The attempt row is the caller's own, for the same request.
SameAttempt(c, h, tok, req, exec) ==
  /\ attempt[c] # None
  /\ attempt[c].token = tok /\ attempt[c].expected = h
  /\ attempt[c].request = req /\ attempt[c].execution = exec

ActiveAndUnexpired(a) == a.state = "active" /\ a.live

\* Another attempt's row: another token, or the same one at another head.
ForeignAttempt(c, h, tok) ==
  /\ attempt[c] # None
  /\ attempt[c].token # tok \/ attempt[c].expected # h

\* Faulty: an expired lease is up for grabs.
MayClaimExpired(c, t, o, h, tok, req, exec) ==
  /\ Owned(c, t, o)
  /\ AtHead(c, h)
  /\ \/ attempt[c] = None
     \/ attempt[c] # None /\ ~ActiveAndUnexpired(attempt[c])

MayClaim(c, t, o, h, tok, req, exec) ==
  /\ Owned(c, t, o)
  /\ AtHead(c, h)
  /\ \/ attempt[c] = None
     \/ SameAttempt(c, h, tok, req, exec) /\ ~ActiveAndUnexpired(attempt[c])

\* A claim that succeeds: a fresh attempt, or its own attempt reactivated.
ClaimWorkflowMutation(c, t, o, h, tok, req, exec) ==
  /\ MayClaim(c, t, o, h, tok, req, exec)
  /\ head' = [head EXCEPT ![c] = h]
  /\ attempt' = [attempt EXCEPT ![c] = NewAttempt(tok, h, req, exec)]
  /\ UNCHANGED FenceColumns

MayMarkUncertain(c, t, o, h, tok) ==
  /\ Owned(c, t, o)
  /\ AtHead(c, h)
  /\ ForeignAttempt(c, h, tok)
  /\ ~attempt[c].live

\* Faulty: a state the schema does not know.
RefusedClaimMarksExpired(c, t, o, h, tok) ==
  /\ MayMarkUncertain(c, t, o, h, tok)
  /\ attempt' = [attempt EXCEPT ![c].state = "expired"]
  /\ UNCHANGED <<head, FenceColumns>>

\* A claim refused by an expired foreign attempt: the raise comes after the
\* transaction, which has committed the state 'uncertain'.
RefusedClaimMarksUncertain(c, t, o, h, tok) ==
  /\ MayMarkUncertain(c, t, o, h, tok)
  /\ head' = [head EXCEPT ![c] = h]
  /\ attempt' = [attempt EXCEPT ![c].state = "uncertain"]
  /\ UNCHANGED FenceColumns

HoldsFence(c, t, o, h, tok, req) ==
  /\ Owned(c, t, o)
  /\ head[c] = h
  /\ attempt[c] # None
  /\ attempt[c].token = tok /\ attempt[c].expected = h /\ attempt[c].request = req

\* advance_ and recover_workflow_mutation answer without a change when the
\* attempt is closed and the head is the wanted one already.
AlreadyAt(c, t, o, h) == Owned(c, t, o) /\ attempt[c] = None /\ head[c] = h

\* Faulty: the head moves and the attempt stays.
MoveHeadOnly(c, newHead) ==
  /\ head' = [head EXCEPT ![c] = newHead]
  /\ UNCHANGED <<attempt, FenceColumns>>

CloseAttempt(c, newHead) ==
  /\ head' = [head EXCEPT ![c] = newHead]
  /\ attempt' = [attempt EXCEPT ![c] = None]
  /\ UNCHANGED FenceColumns

\* Neither the state nor the lease of the attempt is looked at.
AdvanceWorkflowMutation(c, t, o, h, newHead, tok, req) ==
  /\ HoldsFence(c, t, o, h, tok, req)
  /\ CloseAttempt(c, newHead)

\* Faulty: the head is reset with the attempt.
ReleaseToInitialHead(c, t, o, h, tok, req) ==
  /\ HoldsFence(c, t, o, h, tok, req)
  /\ CloseAttempt(c, InitialHead)

ReleaseWorkflowMutation(c, t, o, h, tok, req) ==
  /\ HoldsFence(c, t, o, h, tok, req)
  /\ CloseAttempt(c, h)

RecoverWorkflowMutation(c, t, o, h, recovered, tok, req) ==
  /\ HoldsFence(c, t, o, h, tok, req)
  /\ recovered # h
  /\ CloseAttempt(c, recovered)

\* Time passes beyond attempt_expires_at.
LeaseExpires(c) ==
  /\ attempt[c] # None
  /\ attempt[c].live
  /\ attempt' = [attempt EXCEPT ![c].live = FALSE]
  /\ UNCHANGED <<head, FenceColumns>>

-----------------------------------------------------------------------------
(* Execution grants.                                                        *)

\* The workflow resume that both human interrupts have authorised.
ActiveResume(c, t, o, exec) ==
  /\ Owned(c, t, o)
  /\ head[c] # None
  /\ attempt[c] # None
  /\ attempt[c].expected = head[c]
  /\ attempt[c].execution = exec
  /\ ActiveAndUnexpired(attempt[c])

ReceiptsFor(k) == {r \in receipts : r.key = k}
GrantsFor(c, k) == {g \in grants : g.case = c /\ g.key = k}

GrantBinding(c, t, exec, w, k) ==
  [case |-> c, thread |-> t, head |-> head[c], request |-> attempt[c].request,
   execution |-> exec, write |-> w, key |-> k, consumed |-> FALSE]

SameBinding(g, b) == [g EXCEPT !.consumed = FALSE] = b

\* Faulty: a second grant for a key that has one.
MayIssueAgain(c, t, o, exec, w, k) ==
  /\ ActiveResume(c, t, o, exec)
  /\ w.case = c
  /\ ReceiptsFor(k) = {}

\* The key is free: no completed write and no earlier grant of the case.
MayIssue(c, t, o, exec, w, k) ==
  /\ ActiveResume(c, t, o, exec)
  /\ w.case = c
  /\ ReceiptsFor(k) = {}
  /\ GrantsFor(c, k) = {}

IssueWorkflowExecutionGrant(c, t, o, exec, w, k) ==
  /\ MayIssue(c, t, o, exec, w, k)
  /\ grants' = grants \cup {GrantBinding(c, t, exec, w, k)}
  /\ UNCHANGED <<identityVars, cases, receipts>>

\* The grants the issue call may answer with when it mints none: the audit
\* record of a completed write, or an earlier grant with equal bindings.
ReusableGrants(c, t, o, exec, w, k) ==
  {g \in GrantsFor(c, k) :
     /\ ActiveResume(c, t, o, exec)
     /\ IF ReceiptsFor(k) # {}
          THEN g.write = w /\ \A r \in ReceiptsFor(k) : r.write = w /\ ~r.legacy
          ELSE SameBinding(g, GrantBinding(c, t, exec, w, k))}

-----------------------------------------------------------------------------
(* Writes.                                                                  *)

\* The grant is the one for this exact write ...
GrantMatches(g, w, k) ==
  /\ g.write = w /\ g.key = k /\ g.case = w.case
  /\ g.thread = IF w.action = "create_case" THEN w.thread ELSE cases[w.case].thread

\* Faulty: a grant outlives the resume it was issued for.
GrantOwned(g) == thread[g.case] = g.thread

\* ... and is still attached to its active workflow resume.
GrantAttached(g) ==
  /\ thread[g.case] = g.thread
  /\ head[g.case] = g.head
  /\ attempt[g.case] # None
  /\ attempt[g.case].expected = g.head
  /\ attempt[g.case].request = g.request
  /\ attempt[g.case].execution = g.execution
  /\ ActiveAndUnexpired(attempt[g.case])

Consumable(g, w, k) ==
  g \in grants /\ GrantMatches(g, w, k) /\ GrantAttached(g) /\ ~g.consumed

\* Faulty: the UPDATE without its WHERE case_version = ?.
CaseExists(w) ==
  IF w.action = "create_case"
    THEN w.expected = 0 /\ thread[w.case] = w.thread
    ELSE cases[w.case].version > 0

\* The case a write finds: none for create_case, else its own open version.
CaseAccepts(w) ==
  /\ cases[w.case].version = w.expected
  /\ ~cases[w.case].closed
  /\ IF w.action = "create_case"
       THEN w.expected = 0 /\ thread[w.case] = w.thread
       ELSE cases[w.case].version > 0

MayWrite(w, k, g) == ReceiptsFor(k) = {} /\ CaseAccepts(w) /\ Consumable(g, w, k)

\* Faulty: the grant is checked and not consumed.
WriteKeepsGrant(w, k, g) ==
  /\ MayWrite(w, k, g)
  /\ cases' = [cases EXCEPT ![w.case] =
                 [version |-> w.expected + 1, closed |-> w.action = "close_case",
                  thread |-> thread[w.case]]]
  /\ receipts' = receipts \cup {[key |-> k, write |-> w, legacy |-> FALSE]}
  /\ UNCHANGED <<identityVars, grants>>

\* Faulty: a receipt without the new version.
WriteKeepsVersion(w, k, g) ==
  /\ MayWrite(w, k, g)
  /\ grants' = (grants \ {g}) \cup {[g EXCEPT !.consumed = TRUE]}
  /\ cases' = [cases EXCEPT ![w.case].closed = (w.action = "close_case")]
  /\ receipts' = receipts \cup {[key |-> k, write |-> w, legacy |-> FALSE]}
  /\ UNCHANGED identityVars

\* Faulty: one receipt a case.
WriteReplacesReceipt(w, k, g) ==
  /\ MayWrite(w, k, g)
  /\ grants' = (grants \ {g}) \cup {[g EXCEPT !.consumed = TRUE]}
  /\ cases' = [cases EXCEPT ![w.case] =
                 [version |-> w.expected + 1, closed |-> w.action = "close_case",
                  thread |-> thread[w.case]]]
  /\ receipts' = {r \in receipts : r.write.case # w.case}
                 \cup {[key |-> k, write |-> w, legacy |-> FALSE]}
  /\ UNCHANGED identityVars

\* _mutate, and create_case: consume the grant, compare and swap the version,
\* insert the receipt.
Write(w, k, g) ==
  /\ MayWrite(w, k, g)
  /\ grants' = (grants \ {g}) \cup {[g EXCEPT !.consumed = TRUE]}
  /\ cases' = [cases EXCEPT ![w.case] =
                 [version |-> w.expected + 1, closed |-> w.action = "close_case",
                  thread |-> thread[w.case]]]
  /\ receipts' = receipts \cup {[key |-> k, write |-> w, legacy |-> FALSE]}
  /\ UNCHANGED identityVars

\* A write answered with the receipt its key already has.
Replays(w, k) == \E r \in ReceiptsFor(k) : r.write = w /\ ~r.legacy

\* create_case recognises the hash of the older schema and replaces it.
ReplayLegacyCreate(w, k) ==
  /\ w.action = "create_case"
  /\ thread[w.case] = w.thread
  /\ \E r \in ReceiptsFor(k) :
       /\ r.legacy /\ r.write = w
       /\ receipts' = (receipts \ {r}) \cup {[r EXCEPT !.legacy = FALSE]}
  /\ UNCHANGED <<identityVars, grants, cases>>

-----------------------------------------------------------------------------

IdentityStep(c, t, o) ==
  \/ ReserveWorkflowIdentity(c, t, o)
  \/ ValidateOrClaimWorkflowIdentity(c, t, o)
  \/ ReleaseWorkflowIdentity(c, t, o)

FenceStep(c, t, o) ==
  \E h \in Heads, tok \in Tokens, req \in Requests :
    \/ \E exec \in Executions \cup {None} :
         ClaimWorkflowMutation(c, t, o, h, tok, req, exec)
    \/ RefusedClaimMarksUncertain(c, t, o, h, tok)
    \/ \E newHead \in Heads : AdvanceWorkflowMutation(c, t, o, h, newHead, tok, req)
    \/ ReleaseWorkflowMutation(c, t, o, h, tok, req)
    \/ \E newHead \in Heads : RecoverWorkflowMutation(c, t, o, h, newHead, tok, req)

GrantStep(c, t, o) ==
  \E exec \in Executions, w \in Writes, k \in Keys :
    IssueWorkflowExecutionGrant(c, t, o, exec, w, k)

WriteStep ==
  \E w \in Writes, k \in Keys :
    \/ \E g \in grants : Write(w, k, g)
    \/ ReplayLegacyCreate(w, k)

Next ==
  \/ \E c \in Cases, t \in Threads, o \in Owners :
       IdentityStep(c, t, o) \/ FenceStep(c, t, o) \/ GrantStep(c, t, o)
  \/ WriteStep
  \/ \E c \in Cases : LeaseExpires(c)

Spec == Init /\ [][Next]_storeVars

-----------------------------------------------------------------------------
(* What the store guarantees whatever its callers do.                       *)

(* One case, one thread: no two cases share a thread, and a materialised    *)
(* case keeps the identity row of its own thread (reserve, create_case and  *)
(* release_workflow_identity).                                              *)
IdentityOneToOne ==
  /\ \A c, d \in Cases : thread[c] # None /\ thread[c] = thread[d] => c = d
  /\ \A c \in Cases : cases[c].version > 0 =>
       thread[c] # None /\ thread[c] = cases[c].thread

(* An attempt always fences the head the row stands at, for an owned row:   *)
(* no sequence of claim, advance, release, recover and identity release     *)
(* leaves an attempt behind at another head.                                *)
FenceAtHead ==
  \A c \in Cases : attempt[c] # None =>
    /\ thread[c] # None /\ owner[c] \in Owners
    /\ attempt[c].expected = head[c]

(* One idempotency key of a case is authorised for one request only: the    *)
(* table's UNIQUE clause would allow a second grant with another hash.      *)
OneGrantPerKey ==
  \A g, h \in grants : g.case = h.case /\ g.key = h.key => g = h

LegacyBorn(r) == \E l \in LegacyReceipts : l.key = r.key /\ l.write = r.write

(* At most one effect per key, and each effect is paid for by exactly one   *)
(* consumed grant for the same request; no grant is burnt without effect.   *)
EffectsAreAuthorised ==
  /\ \A r, s \in receipts : r.key = s.key => r = s
  /\ \A r \in receipts : LegacyBorn(r) \/
       \E g \in grants : g.consumed /\ g.key = r.key /\ g.write = r.write
  /\ \A g \in grants : g.consumed =>
       \E r \in receipts : r.key = g.key /\ r.write = g.write

(* The receipts of a case are its history: one for each version below the   *)
(* current one, created first and closed last, none beyond.                 *)
ReceiptsAreHistory ==
  \A c \in Cases :
    LET history == {r \in receipts : r.write.case = c}
    IN  /\ \A v \in 0 .. cases[c].version - 1 : \E r \in history : r.write.expected = v
        /\ \A r \in history : r.write.expected < cases[c].version
        /\ \A r, s \in history : r.write.expected = s.write.expected => r = s
        /\ \A r \in history :
             /\ r.write.action = "create_case" <=> r.write.expected = 0
             /\ r.write.action = "close_case" <=>
                  cases[c].closed /\ r.write.expected + 1 = cases[c].version

(* A receipt is never lost or rewritten (only a legacy hash is renewed),    *)
(* and nothing changes a closed case.                                       *)
HistoryIsPermanent ==
  [][/\ \A r \in receipts : \E s \in receipts' : s.key = r.key /\ s.write = r.write
     /\ \A c \in Cases : cases[c].closed => cases'[c] = cases[c]]_storeVars

(* A checkpoint store that owns an identity loses it only by its own        *)
(* release: no other store's reserve or validate_or_claim takes it over.    *)
OwnerIsNotReplaced ==
  [][\A c \in Cases : owner[c] \in Owners => owner'[c] \in {owner[c], None}]_storeVars

(* An attempt, live or expired, gives way to another token only after it    *)
(* was closed by its own token: a lease expiry alone hands nothing over.    *)
FenceIsNotSeized ==
  [][\A c \in Cases : attempt[c] # None /\ attempt'[c] # None =>
       /\ attempt'[c].token = attempt[c].token
       /\ attempt'[c].request = attempt[c].request
       /\ head'[c] = head[c]]_storeVars
=============================================================================

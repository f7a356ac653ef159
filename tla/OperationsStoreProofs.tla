----------------------- MODULE OperationsStoreProofs -----------------------
(***************************************************************************)
(* Proofs about OperationsStore, for any sets of cases, threads, owners,   *)
(* heads, tokens, requests, writes and keys, and any receipts an older     *)
(* schema left behind.                                                     *)
(*                                                                         *)
(* The inductive invariant is the conjunction of the invariants that TLC   *)
(* checks with NoOrphans, the relation between the identity columns that   *)
(* the code keeps without stating it.                                      *)
(***************************************************************************)
EXTENDS OperationsStore, TLAPS

-----------------------------------------------------------------------------
(* Type correctness.                                                        *)

(* Opening a store, new or of an older schema, gives every column a value   *)
(* of its type.                                                             *)
LEMMA InitTypeOK == Init => TypeOK
<1> SUFFICES ASSUME Init PROVE TypeOK
  OBVIOUS
<1>1. receipts \subseteq Receipt
  BY LegacyAssumption DEF LegacyAssumption, Init
<1>2. ASSUME NEW c \in Cases PROVE LegacyRow(c) \in CaseRow
  <2> DEFINE created == {r \in receipts : r.write.case = c}
  <2>1. CASE created = {}
    BY <2>1 DEF LegacyRow, CaseRow
  <2>2. CASE created # {}
    <3>1. (CHOOSE r \in created : TRUE) \in created
      BY <2>2
    <3>2. (CHOOSE r \in created : TRUE).write.thread \in Threads
      BY <3>1, <1>1, StoreAssumption DEF StoreAssumption, Receipt, WriteRequest
    <3> QED BY <2>2, <3>2 DEF LegacyRow, CaseRow
  <2> QED BY <2>1, <2>2
<1>3. cases \in [Cases -> CaseRow]
  BY <1>2 DEF Init
<1>4. thread \in [Cases -> Threads \cup {None}]
  BY <1>3 DEF Init, CaseRow
<1> QED BY <1>1, <1>3, <1>4 DEF Init, TypeOK

(* A grant that is minted carries the head and the request of the attempt   *)
(* it is minted under.                                                      *)
LEMMA GrantType ==
  ASSUME TypeOK, NEW c \in Cases, NEW t \in Threads, NEW o \in Owners,
         NEW exec \in Executions, NEW w \in Writes, NEW k \in Keys,
         ActiveResume(c, t, o, exec)
  PROVE  GrantBinding(c, t, exec, w, k) \in Grant
<1>1. head[c] \in Heads /\ attempt[c] \in Attempt
  BY DEF TypeOK, ActiveResume
<1>2. attempt[c].request \in Requests
  BY <1>1 DEF Attempt
<1> QED BY <1>1, <1>2 DEF GrantBinding, Grant

(* No transaction of the store leaves a column with a value outside its     *)
(* type.                                                                    *)
LEMMA NextTypeOK == TypeOK /\ [Next]_storeVars => TypeOK'
<1> SUFFICES ASSUME TypeOK, [Next]_storeVars PROVE TypeOK'
  OBVIOUS
<1> USE StoreAssumption DEF StoreAssumption
<1>1. ASSUME NEW c \in Cases, NEW t \in Threads, NEW o \in Owners, IdentityStep(c, t, o)
      PROVE TypeOK'
  BY <1>1 DEF IdentityStep, ReserveWorkflowIdentity, ValidateOrClaimWorkflowIdentity,
              ReleaseWorkflowIdentity, TypeOK
<1>2. ASSUME NEW c \in Cases, NEW t \in Threads, NEW o \in Owners, FenceStep(c, t, o)
      PROVE TypeOK'
  <2>1. PICK h \in Heads, tok \in Tokens, req \in Requests :
          \/ \E exec \in Executions \cup {None} :
               ClaimWorkflowMutation(c, t, o, h, tok, req, exec)
          \/ RefusedClaimMarksUncertain(c, t, o, h, tok)
          \/ \E newHead \in Heads : CloseAttempt(c, newHead)
    BY <1>2 DEF FenceStep, AdvanceWorkflowMutation, ReleaseWorkflowMutation,
                RecoverWorkflowMutation
  <2>2. CASE \E exec \in Executions \cup {None} :
               ClaimWorkflowMutation(c, t, o, h, tok, req, exec)
    <3>1. PICK exec \in Executions \cup {None} :
            ClaimWorkflowMutation(c, t, o, h, tok, req, exec)
      BY <2>2
    <3>2. NewAttempt(tok, h, req, exec) \in Attempt
      BY DEF NewAttempt, Attempt
    <3> QED BY <3>1, <3>2 DEF ClaimWorkflowMutation, FenceColumns, TypeOK
  <2>3. CASE RefusedClaimMarksUncertain(c, t, o, h, tok)
    <3>1. attempt[c] \in Attempt
      BY <2>3 DEF RefusedClaimMarksUncertain, MayMarkUncertain, ForeignAttempt, TypeOK
    <3>2. [attempt[c] EXCEPT !.state = "uncertain"] \in Attempt
      BY <3>1 DEF Attempt
    <3> QED BY <2>3, <3>2 DEF RefusedClaimMarksUncertain, FenceColumns, TypeOK
  <2>4. CASE \E newHead \in Heads : CloseAttempt(c, newHead)
    BY <2>4 DEF CloseAttempt, FenceColumns, TypeOK
  <2> QED BY <2>1, <2>2, <2>3, <2>4
<1>3. ASSUME NEW c \in Cases, NEW t \in Threads, NEW o \in Owners, GrantStep(c, t, o)
      PROVE TypeOK'
  <2>1. PICK exec \in Executions, w \in Writes, k \in Keys :
          IssueWorkflowExecutionGrant(c, t, o, exec, w, k)
    BY <1>3 DEF GrantStep
  <2>2. GrantBinding(c, t, exec, w, k) \in Grant
    BY <2>1, GrantType DEF IssueWorkflowExecutionGrant, MayIssue
  <2> QED BY <2>1, <2>2 DEF IssueWorkflowExecutionGrant, identityVars, TypeOK
<1>4. ASSUME NEW w \in Writes, NEW k \in Keys, NEW g \in grants, Write(w, k, g)
      PROVE TypeOK'
  <2>1. w.case \in Cases /\ w.expected \in Nat
    BY DEF WriteRequest
  <2>2. grants' \in SUBSET Grant
    BY <1>4 DEF Write, TypeOK, Grant
  <2>3. cases' \in [Cases -> CaseRow]
    BY <1>4, <2>1 DEF Write, TypeOK, CaseRow
  <2>4. receipts' \in SUBSET Receipt
    <3>1. [key |-> k, write |-> w, legacy |-> FALSE] \in Receipt
      BY DEF Receipt
    <3> QED BY <1>4, <3>1 DEF Write, TypeOK
  <2> QED BY <1>4, <2>2, <2>3, <2>4 DEF Write, identityVars, TypeOK
<1>5. ASSUME NEW w \in Writes, NEW k \in Keys, ReplayLegacyCreate(w, k)
      PROVE TypeOK'
  BY <1>5 DEF ReplayLegacyCreate, ReceiptsFor, Receipt, identityVars, TypeOK
<1>6. ASSUME NEW c \in Cases, LeaseExpires(c)
      PROVE TypeOK'
  <2>1. [attempt[c] EXCEPT !.live = FALSE] \in Attempt
    BY <1>6 DEF LeaseExpires, TypeOK, Attempt
  <2> QED BY <1>6, <2>1 DEF LeaseExpires, FenceColumns, TypeOK
<1>7. CASE UNCHANGED storeVars
  BY <1>7 DEF storeVars, TypeOK
<1> QED BY <1>1, <1>2, <1>3, <1>4, <1>5, <1>6, <1>7 DEF Next, WriteStep

(* The store is type correct.                                               *)
THEOREM TypeCorrect == Spec => []TypeOK
<1> QED BY InitTypeOK, NextTypeOK, PTL DEF Spec

-----------------------------------------------------------------------------
(* Identities.                                                              *)

(* An identity column without a thread has no owner either: reserve fills   *)
(* both and release_workflow_identity deletes both.                         *)
NoOrphans == \A c \in Cases : thread[c] = None => owner[c] = None

(* The fence, grant and lease operations leave the identity, the cases and  *)
(* the receipts alone.                                                      *)
LEMMA FenceStepFrame ==
  ASSUME NEW c \in Cases,
         \/ \E t \in Threads, o \in Owners : FenceStep(c, t, o)
         \/ LeaseExpires(c)
  PROVE  UNCHANGED FenceColumns
BY DEF FenceStep, ClaimWorkflowMutation, RefusedClaimMarksUncertain,
       AdvanceWorkflowMutation, ReleaseWorkflowMutation, RecoverWorkflowMutation,
       CloseAttempt, LeaseExpires

(* One case and one thread belong together, from the first reservation to   *)
(* the materialised case.                                                   *)
LEMMA InitIdentity == Init => IdentityOneToOne /\ NoOrphans
<1> SUFFICES ASSUME Init PROVE IdentityOneToOne /\ NoOrphans
  OBVIOUS
<1> USE StoreAssumption DEF StoreAssumption
<1>1. ASSUME NEW c \in Cases, cases[c].thread # None \/ cases[c].version > 0
      PROVE  \E r \in LegacyReceipts : r.write.case = c /\ cases[c].thread = r.write.thread
                                        /\ cases[c].thread \in Threads
  <2> DEFINE created == {r \in receipts : r.write.case = c}
  <2>1. cases[c] = LegacyRow(c)
    BY DEF Init
  <2>2. created # {}
    BY <1>1, <2>1 DEF LegacyRow
  <2>3. (CHOOSE r \in created : TRUE) \in created
    BY <2>2
  <2>4. cases[c].thread = (CHOOSE r \in created : TRUE).write.thread
    BY <2>1, <2>2 DEF LegacyRow
  <2>5. receipts \subseteq LegacyReceipts
    BY DEF Init
  <2>6. \A r \in LegacyReceipts : r.write.thread \in Threads
    BY LegacyAssumption DEF LegacyAssumption, Receipt, WriteRequest
  <2> QED BY <2>3, <2>4, <2>5, <2>6
<1>2. \A c \in Cases : thread[c] = cases[c].thread
  BY DEF Init
<1>3. IdentityOneToOne
  BY <1>1, <1>2, LegacyAssumption DEF LegacyAssumption, IdentityOneToOne
<1>4. NoOrphans
  BY DEF Init, NoOrphans
<1> QED BY <1>3, <1>4

(* Every step keeps one thread per case and the thread of a materialised    *)
(* case; NoOrphans is what reserve and release_workflow_identity need.      *)
LEMMA NextIdentity ==
  TypeOK /\ IdentityOneToOne /\ NoOrphans /\ [Next]_storeVars
    => IdentityOneToOne' /\ NoOrphans'
<1> SUFFICES ASSUME TypeOK, IdentityOneToOne, NoOrphans, [Next]_storeVars
             PROVE  IdentityOneToOne' /\ NoOrphans'
  OBVIOUS
<1> USE StoreAssumption DEF StoreAssumption
<1>1. ASSUME NEW c \in Cases, NEW t \in Threads, NEW o \in Owners,
             ReserveWorkflowIdentity(c, t, o)
      PROVE  IdentityOneToOne' /\ NoOrphans'
  BY <1>1 DEF ReserveWorkflowIdentity, ThreadFree, IdentityOneToOne, NoOrphans, TypeOK
<1>2. ASSUME NEW c \in Cases, NEW t \in Threads, NEW o \in Owners,
             ValidateOrClaimWorkflowIdentity(c, t, o)
      PROVE  IdentityOneToOne' /\ NoOrphans'
  BY <1>2 DEF ValidateOrClaimWorkflowIdentity, MayAdopt, IdentityOneToOne, NoOrphans, TypeOK
<1>3. ASSUME NEW c \in Cases, NEW t \in Threads, NEW o \in Owners,
             ReleaseWorkflowIdentity(c, t, o)
      PROVE  IdentityOneToOne' /\ NoOrphans'
  BY <1>3 DEF ReleaseWorkflowIdentity, MayRelease, IdentityOneToOne, NoOrphans, TypeOK
<1>4. ASSUME NEW c \in Cases,
             \/ \E t \in Threads, o \in Owners : FenceStep(c, t, o)
             \/ LeaseExpires(c)
      PROVE  IdentityOneToOne' /\ NoOrphans'
  BY <1>4, FenceStepFrame DEF FenceColumns, IdentityOneToOne, NoOrphans
<1>5. ASSUME NEW c \in Cases, NEW t \in Threads, NEW o \in Owners, GrantStep(c, t, o)
      PROVE  IdentityOneToOne' /\ NoOrphans'
  BY <1>5 DEF GrantStep, IssueWorkflowExecutionGrant, identityVars, IdentityOneToOne, NoOrphans
<1>6. ASSUME NEW w \in Writes, NEW k \in Keys, NEW g \in grants, Write(w, k, g)
      PROVE  IdentityOneToOne' /\ NoOrphans'
  <2>1. w.case \in Cases /\ w.thread \in Threads
    BY DEF WriteRequest
  <2>2. thread[w.case] # None
    BY <1>6, <2>1 DEF Write, MayWrite, CaseAccepts, IdentityOneToOne
  <2> QED BY <1>6, <2>1, <2>2 DEF Write, identityVars, IdentityOneToOne, NoOrphans, TypeOK
<1>7. ASSUME NEW w \in Writes, NEW k \in Keys, ReplayLegacyCreate(w, k)
      PROVE  IdentityOneToOne' /\ NoOrphans'
  BY <1>7 DEF ReplayLegacyCreate, identityVars, IdentityOneToOne, NoOrphans
<1>8. CASE UNCHANGED storeVars
  BY <1>8 DEF storeVars, IdentityOneToOne, NoOrphans
<1> QED BY <1>1, <1>2, <1>3, <1>4, <1>5, <1>6, <1>7, <1>8
        DEF Next, IdentityStep, WriteStep

(* Case and thread are one to one, whatever the callers do.                 *)
THEOREM IdentityIsOneToOne == Spec => []IdentityOneToOne
<1> QED BY InitTypeOK, NextTypeOK, InitIdentity, NextIdentity, PTL DEF Spec

-----------------------------------------------------------------------------
(* The fence.                                                               *)

(* Closing an attempt, claiming one or marking one uncertain keeps every    *)
(* attempt at the head of its row.                                          *)
LEMMA NextFence ==
  TypeOK /\ FenceAtHead /\ [Next]_storeVars => FenceAtHead'
<1> SUFFICES ASSUME TypeOK, FenceAtHead, [Next]_storeVars PROVE FenceAtHead'
  OBVIOUS
<1> USE StoreAssumption DEF StoreAssumption
<1>1. ASSUME NEW c \in Cases, NEW t \in Threads, NEW o \in Owners, IdentityStep(c, t, o)
      PROVE  FenceAtHead'
  BY <1>1 DEF IdentityStep, ReserveWorkflowIdentity, ValidateOrClaimWorkflowIdentity,
              ReleaseWorkflowIdentity, FenceAtHead, TypeOK
<1>2. ASSUME NEW c \in Cases, NEW t \in Threads, NEW o \in Owners, FenceStep(c, t, o)
      PROVE  FenceAtHead'
  <2>1. PICK h \in Heads, tok \in Tokens, req \in Requests :
          \/ \E exec \in Executions \cup {None} :
               ClaimWorkflowMutation(c, t, o, h, tok, req, exec)
          \/ RefusedClaimMarksUncertain(c, t, o, h, tok)
          \/ \E newHead \in Heads : CloseAttempt(c, newHead)
    BY <1>2 DEF FenceStep, AdvanceWorkflowMutation, ReleaseWorkflowMutation,
                RecoverWorkflowMutation
  <2>2. ASSUME NEW exec \in Executions \cup {None},
               ClaimWorkflowMutation(c, t, o, h, tok, req, exec)
        PROVE  FenceAtHead'
    BY <2>2 DEF ClaimWorkflowMutation, MayClaim, Owned, NewAttempt, FenceColumns,
                FenceAtHead, TypeOK
  <2>3. CASE RefusedClaimMarksUncertain(c, t, o, h, tok)
    <3>1. attempt[c] \in Attempt /\ attempt[c].expected = head[c] /\ head[c] \in {None, h}
      BY <2>3 DEF RefusedClaimMarksUncertain, MayMarkUncertain, ForeignAttempt, AtHead,
                  FenceAtHead, TypeOK
    <3>2. head[c] = h
      BY <3>1 DEF Attempt
    <3>3. [attempt[c] EXCEPT !.state = "uncertain"].expected = h
      BY <3>1, <3>2 DEF Attempt
    <3>4. /\ head' = head
          /\ attempt' = [attempt EXCEPT ![c] = [attempt[c] EXCEPT !.state = "uncertain"]]
      BY <2>3, <3>2 DEF RefusedClaimMarksUncertain, TypeOK
    <3> QED BY <2>3, <3>1, <3>2, <3>3, <3>4
            DEF RefusedClaimMarksUncertain, FenceColumns, FenceAtHead, TypeOK
  <2>4. CASE \E newHead \in Heads : CloseAttempt(c, newHead)
    BY <2>4 DEF CloseAttempt, FenceColumns, FenceAtHead, TypeOK
  <2> QED BY <2>1, <2>2, <2>3, <2>4
<1>3. ASSUME NEW c \in Cases, NEW t \in Threads, NEW o \in Owners, GrantStep(c, t, o)
      PROVE  FenceAtHead'
  BY <1>3 DEF GrantStep, IssueWorkflowExecutionGrant, identityVars, FenceAtHead
<1>4. CASE WriteStep
  BY <1>4 DEF WriteStep, Write, ReplayLegacyCreate, identityVars, FenceAtHead
<1>5. ASSUME NEW c \in Cases, LeaseExpires(c)
      PROVE  FenceAtHead'
  <2>1. attempt[c] \in Attempt
    BY <1>5 DEF LeaseExpires, TypeOK
  <2>2. [attempt[c] EXCEPT !.live = FALSE].expected = attempt[c].expected
    BY <2>1 DEF Attempt
  <2> QED BY <1>5, <2>2 DEF LeaseExpires, FenceColumns, FenceAtHead, TypeOK
<1>6. CASE UNCHANGED storeVars
  BY <1>6 DEF storeVars, FenceAtHead
<1> QED BY <1>1, <1>2, <1>3, <1>4, <1>5, <1>6 DEF Next

(* A live or expired attempt always fences the head its row stands at.      *)
THEOREM FenceStaysAtHead == Spec => []FenceAtHead
<1>1. Init => FenceAtHead
  BY DEF Init, FenceAtHead
<1> QED BY <1>1, InitTypeOK, NextTypeOK, NextFence, PTL DEF Spec

(* An owned identity is lost only to its own release: validate_or_claim     *)
(* adopts unowned rows and reserve fills missing ones.                      *)
THEOREM OwnerKept == Spec => OwnerIsNotReplaced
<1>1. TypeOK /\ NoOrphans /\ [Next]_storeVars =>
        [\A c \in Cases : owner[c] \in Owners => owner'[c] \in {owner[c], None}]_storeVars
  <2> SUFFICES ASSUME TypeOK, NoOrphans, Next, NEW d \in Cases, owner[d] \in Owners
               PROVE  owner'[d] \in {owner[d], None}
    OBVIOUS
  <2> USE StoreAssumption DEF StoreAssumption
  <2>1. ASSUME NEW c \in Cases, NEW t \in Threads, NEW o \in Owners, IdentityStep(c, t, o)
        PROVE  owner'[d] \in {owner[d], None}
    BY <2>1 DEF IdentityStep, ReserveWorkflowIdentity, ValidateOrClaimWorkflowIdentity,
                MayAdopt, ReleaseWorkflowIdentity, NoOrphans, TypeOK
  <2>2. ASSUME NEW c \in Cases,
               \/ \E t \in Threads, o \in Owners : FenceStep(c, t, o)
               \/ LeaseExpires(c)
        PROVE  owner'[d] \in {owner[d], None}
    BY <2>2, FenceStepFrame DEF FenceColumns
  <2>3. ASSUME NEW c \in Cases, NEW t \in Threads, NEW o \in Owners, GrantStep(c, t, o)
        PROVE  owner'[d] \in {owner[d], None}
    BY <2>3 DEF GrantStep, IssueWorkflowExecutionGrant, identityVars
  <2>4. CASE WriteStep
    BY <2>4 DEF WriteStep, Write, ReplayLegacyCreate, identityVars
  <2> QED BY <2>1, <2>2, <2>3, <2>4 DEF Next
<1> QED BY <1>1, InitTypeOK, NextTypeOK, InitIdentity, NextIdentity, PTL
        DEF Spec, OwnerIsNotReplaced

(* What FenceIsNotSeized demands of one case.                               *)
SameFence(d) ==
  /\ attempt'[d].token = attempt[d].token
  /\ attempt'[d].request = attempt[d].request
  /\ head'[d] = head[d]

(* An attempt is followed by none or by its own continuation: a claim that  *)
(* finds a foreign attempt, however long expired, does not take it over.    *)
THEOREM FenceNotSeized == Spec => FenceIsNotSeized
<1>1. TypeOK /\ FenceAtHead /\ [Next]_storeVars =>
        [\A c \in Cases : attempt[c] # None /\ attempt'[c] # None =>
           /\ attempt'[c].token = attempt[c].token
           /\ attempt'[c].request = attempt[c].request
           /\ head'[c] = head[c]]_storeVars
  <2> SUFFICES ASSUME TypeOK, FenceAtHead, Next, NEW d \in Cases,
                      attempt[d] # None, attempt'[d] # None
               PROVE  SameFence(d)
    BY DEF SameFence
  <2> USE StoreAssumption DEF StoreAssumption
  <2>1. attempt[d] \in Attempt /\ attempt[d].expected = head[d] /\ head[d] \in Heads
    BY DEF TypeOK, FenceAtHead, Attempt
  <2>2. ASSUME NEW c \in Cases, NEW t \in Threads, NEW o \in Owners, IdentityStep(c, t, o)
        PROVE  SameFence(d)
    BY <2>2, <2>1 DEF IdentityStep, ReserveWorkflowIdentity, ValidateOrClaimWorkflowIdentity,
                      ReleaseWorkflowIdentity, FenceAtHead, SameFence, TypeOK
  <2>3. ASSUME NEW c \in Cases, NEW t \in Threads, NEW o \in Owners, FenceStep(c, t, o)
        PROVE  SameFence(d)
    <3>1. PICK h \in Heads, tok \in Tokens, req \in Requests :
            \/ \E exec \in Executions \cup {None} :
                 ClaimWorkflowMutation(c, t, o, h, tok, req, exec)
            \/ RefusedClaimMarksUncertain(c, t, o, h, tok)
            \/ \E newHead \in Heads : CloseAttempt(c, newHead)
      BY <2>3 DEF FenceStep, AdvanceWorkflowMutation, ReleaseWorkflowMutation,
                  RecoverWorkflowMutation
    <3>2. ASSUME NEW exec \in Executions \cup {None},
                 ClaimWorkflowMutation(c, t, o, h, tok, req, exec)
          PROVE  SameFence(d)
      BY <3>2, <2>1 DEF ClaimWorkflowMutation, MayClaim, SameAttempt, AtHead, NewAttempt,
                        SameFence, TypeOK
    <3>3. CASE RefusedClaimMarksUncertain(c, t, o, h, tok)
      <4>1. [attempt[d] EXCEPT !.state = "uncertain"].token = attempt[d].token
            /\ [attempt[d] EXCEPT !.state = "uncertain"].request = attempt[d].request
        BY <2>1 DEF Attempt
      <4>2. attempt' = [attempt EXCEPT ![c] = [attempt[c] EXCEPT !.state = "uncertain"]]
        BY <3>3 DEF RefusedClaimMarksUncertain, TypeOK
      <4>3. head' = [head EXCEPT ![c] = h] /\ head[c] \in {None, h}
        BY <3>3 DEF RefusedClaimMarksUncertain, MayMarkUncertain, AtHead
      <4> QED BY <4>1, <4>2, <4>3, <2>1 DEF SameFence, TypeOK
    <3>4. ASSUME NEW newHead \in Heads, CloseAttempt(c, newHead)
          PROVE  SameFence(d)
      BY <3>4 DEF CloseAttempt, SameFence, TypeOK
    <3> QED BY <3>1, <3>2, <3>3, <3>4
  <2>4. ASSUME NEW c \in Cases, NEW t \in Threads, NEW o \in Owners, GrantStep(c, t, o)
        PROVE  SameFence(d)
    BY <2>4 DEF GrantStep, IssueWorkflowExecutionGrant, identityVars, SameFence
  <2>5. CASE WriteStep
    BY <2>5 DEF WriteStep, Write, ReplayLegacyCreate, identityVars, SameFence
  <2>6. ASSUME NEW c \in Cases, LeaseExpires(c)
        PROVE  SameFence(d)
    <3>1. [attempt[d] EXCEPT !.live = FALSE].token = attempt[d].token
          /\ [attempt[d] EXCEPT !.live = FALSE].request = attempt[d].request
      BY <2>1 DEF Attempt
    <3> QED BY <2>6, <3>1 DEF LeaseExpires, SameFence, TypeOK
  <2> QED BY <2>2, <2>3, <2>4, <2>5, <2>6 DEF Next
<1>2. Init => FenceAtHead
  BY DEF Init, FenceAtHead
<1> QED BY <1>1, <1>2, InitTypeOK, NextTypeOK, NextFence, PTL DEF Spec, FenceIsNotSeized

-----------------------------------------------------------------------------
(* Grants and receipts.                                                     *)

(* Identity, fence and lease operations touch neither table.                *)
LEMMA IdentityFenceFrame ==
  ASSUME NEW c \in Cases,
         \/ \E t \in Threads, o \in Owners : IdentityStep(c, t, o) \/ FenceStep(c, t, o)
         \/ LeaseExpires(c)
  PROVE  UNCHANGED <<grants, cases, receipts>>
<1>1. CASE \E t \in Threads, o \in Owners : IdentityStep(c, t, o)
  BY <1>1 DEF IdentityStep, ReserveWorkflowIdentity, ValidateOrClaimWorkflowIdentity,
              ReleaseWorkflowIdentity
<1> QED BY <1>1, FenceStepFrame DEF FenceColumns

(* What a write leaves behind: the grant it consumed and the receipt of its *)
(* key, which had none.                                                     *)
LEMMA WriteEffect ==
  ASSUME TypeOK, NEW w \in Writes, NEW k \in Keys, NEW g \in grants, Write(w, k, g)
  PROVE  \E used \in Grant, new \in Receipt :
           /\ grants' = (grants \ {g}) \cup {used} /\ receipts' = receipts \cup {new}
           /\ used.consumed /\ used.case = g.case /\ used.key = k /\ used.write = w
           /\ new.key = k /\ new.write = w
           /\ g.key = k /\ g.write = w /\ ~g.consumed
           /\ \A r \in receipts : r.key # k
<1> DEFINE used == [g EXCEPT !.consumed = TRUE]
           new == [key |-> k, write |-> w, legacy |-> FALSE]
<1>1. g \in Grant /\ g.key = k /\ g.write = w /\ ~g.consumed
  BY DEF TypeOK, Write, MayWrite, Consumable, GrantMatches
<1>2. used \in Grant /\ used.consumed /\ used.case = g.case /\ used.key = k /\ used.write = w
  BY <1>1 DEF Grant
<1>3. new \in Receipt /\ new.key = k /\ new.write = w
  BY DEF Receipt
<1>4. \A r \in receipts : r.key # k
  BY DEF Write, MayWrite, ReceiptsFor
<1>5. grants' = (grants \ {g}) \cup {used} /\ receipts' = receipts \cup {new}
  BY DEF Write
<1> HIDE DEF used, new
<1> QED BY <1>1, <1>2, <1>3, <1>4, <1>5

(* Renewing the hash of a legacy receipt keeps its key and its request.     *)
LEMMA ReplayEffect ==
  ASSUME TypeOK, NEW w \in Writes, NEW k \in Keys, ReplayLegacyCreate(w, k)
  PROVE  \E old \in receipts, new \in Receipt :
           /\ receipts' = (receipts \ {old}) \cup {new}
           /\ new.key = old.key /\ new.write = old.write
<1>1. PICK old \in ReceiptsFor(k) :
        receipts' = (receipts \ {old}) \cup {[old EXCEPT !.legacy = FALSE]}
  BY DEF ReplayLegacyCreate
<1> DEFINE new == [old EXCEPT !.legacy = FALSE]
<1>2. old \in receipts /\ old \in Receipt
  BY DEF ReceiptsFor, TypeOK
<1>3. new \in Receipt /\ new.key = old.key /\ new.write = old.write
  BY <1>2 DEF Receipt
<1> HIDE DEF new
<1>4. receipts' = (receipts \ {old}) \cup {new}
  BY <1>1 DEF new
<1> QED BY <1>2, <1>3, <1>4

(* A key is granted once: issue looks for any earlier grant of the key and  *)
(* a write replaces its grant by the consumed one.                          *)
LEMMA NextOneGrant ==
  TypeOK /\ OneGrantPerKey /\ [Next]_storeVars => OneGrantPerKey'
<1> SUFFICES ASSUME TypeOK, OneGrantPerKey, [Next]_storeVars PROVE OneGrantPerKey'
  OBVIOUS
<1>1. ASSUME NEW c \in Cases,
             \/ \E t \in Threads, o \in Owners : IdentityStep(c, t, o) \/ FenceStep(c, t, o)
             \/ LeaseExpires(c)
      PROVE  OneGrantPerKey'
  BY <1>1, IdentityFenceFrame DEF OneGrantPerKey
<1>2. ASSUME NEW c \in Cases, NEW t \in Threads, NEW o \in Owners, GrantStep(c, t, o)
      PROVE  OneGrantPerKey'
  <2>1. PICK exec \in Executions, w \in Writes, k \in Keys :
          IssueWorkflowExecutionGrant(c, t, o, exec, w, k)
    BY <1>2 DEF GrantStep
  <2> DEFINE b == GrantBinding(c, t, exec, w, k)
  <2>2. b.case = c /\ b.key = k
    BY DEF GrantBinding
  <2>3. grants' = grants \cup {b}
    BY <2>1 DEF IssueWorkflowExecutionGrant
  <2>4. \A g \in grants : ~(g.case = c /\ g.key = k)
    BY <2>1 DEF IssueWorkflowExecutionGrant, MayIssue, GrantsFor
  <2> HIDE DEF b
  <2> QED BY <2>2, <2>3, <2>4 DEF OneGrantPerKey
<1>3. ASSUME NEW w \in Writes, NEW k \in Keys, NEW g \in grants, Write(w, k, g)
      PROVE  OneGrantPerKey'
  <2>1. PICK used \in Grant, new \in Receipt :
           /\ grants' = (grants \ {g}) \cup {used}
           /\ used.case = g.case /\ used.key = k /\ g.key = k
    BY <1>3, WriteEffect
  <2> QED BY <2>1 DEF OneGrantPerKey
<1>4. ASSUME NEW w \in Writes, NEW k \in Keys, ReplayLegacyCreate(w, k)
      PROVE  OneGrantPerKey'
  BY <1>4 DEF ReplayLegacyCreate, OneGrantPerKey
<1>5. CASE UNCHANGED storeVars
  BY <1>5 DEF storeVars, OneGrantPerKey
<1> QED BY <1>1, <1>2, <1>3, <1>4, <1>5 DEF Next, WriteStep

(* One idempotency key of a case never carries two grants.                  *)
THEOREM OneGrant == Spec => []OneGrantPerKey
<1>1. Init => OneGrantPerKey
  BY DEF Init, OneGrantPerKey
<1> QED BY <1>1, InitTypeOK, NextTypeOK, NextOneGrant, PTL DEF Spec

(* At the start there are only the receipts of the older schema, one a key. *)
LEMMA InitAuthorised == Init => EffectsAreAuthorised
<1> SUFFICES ASSUME Init PROVE EffectsAreAuthorised
  OBVIOUS
<1>1. receipts \subseteq LegacyReceipts /\ grants = {}
  BY DEF Init
<1> QED BY <1>1, LegacyAssumption DEF LegacyAssumption, LegacyBorn, EffectsAreAuthorised

(* Every step keeps one consumed grant per effect and one effect per key:   *)
(* only Write touches grants and receipts together.                         *)
LEMMA NextAuthorised ==
  TypeOK /\ EffectsAreAuthorised /\ [Next]_storeVars => EffectsAreAuthorised'
<1> SUFFICES ASSUME TypeOK, EffectsAreAuthorised, [Next]_storeVars
             PROVE  EffectsAreAuthorised'
  OBVIOUS
<1>1. ASSUME NEW c \in Cases,
             \/ \E t \in Threads, o \in Owners : IdentityStep(c, t, o) \/ FenceStep(c, t, o)
             \/ LeaseExpires(c)
      PROVE  EffectsAreAuthorised'
  BY <1>1, IdentityFenceFrame DEF EffectsAreAuthorised, LegacyBorn
<1>2. ASSUME NEW c \in Cases, NEW t \in Threads, NEW o \in Owners, GrantStep(c, t, o)
      PROVE  EffectsAreAuthorised'
  <2>1. PICK exec \in Executions, w \in Writes, k \in Keys :
          IssueWorkflowExecutionGrant(c, t, o, exec, w, k)
    BY <1>2 DEF GrantStep
  <2> DEFINE b == GrantBinding(c, t, exec, w, k)
  <2>2. b.consumed = FALSE
    BY DEF GrantBinding
  <2>3. grants' = grants \cup {b} /\ receipts' = receipts
    BY <2>1 DEF IssueWorkflowExecutionGrant
  <2> HIDE DEF b
  <2> QED BY <2>2, <2>3 DEF EffectsAreAuthorised, LegacyBorn
<1>3. ASSUME NEW w \in Writes, NEW k \in Keys, NEW g \in grants, Write(w, k, g)
      PROVE  EffectsAreAuthorised'
  <2>1. PICK used \in Grant, new \in Receipt :
           /\ grants' = (grants \ {g}) \cup {used} /\ receipts' = receipts \cup {new}
           /\ used.consumed /\ used.key = k /\ used.write = w
           /\ new.key = k /\ new.write = w
           /\ ~g.consumed
           /\ \A r \in receipts : r.key # k
    BY <1>3, WriteEffect
  <2> QED BY <2>1 DEF EffectsAreAuthorised, LegacyBorn
<1>4. ASSUME NEW w \in Writes, NEW k \in Keys, ReplayLegacyCreate(w, k)
      PROVE  EffectsAreAuthorised'
  <2>1. PICK old \in receipts, new \in Receipt :
           /\ receipts' = (receipts \ {old}) \cup {new}
           /\ new.key = old.key /\ new.write = old.write
    BY <1>4, ReplayEffect
  <2>2. grants' = grants
    BY <1>4 DEF ReplayLegacyCreate
  <2> QED BY <2>1, <2>2 DEF EffectsAreAuthorised, LegacyBorn
<1>5. CASE UNCHANGED storeVars
  BY <1>5 DEF storeVars, EffectsAreAuthorised, LegacyBorn
<1> QED BY <1>1, <1>2, <1>3, <1>4, <1>5 DEF Next, WriteStep

(* Each effect is paid for by one consumed grant, each consumed grant has   *)
(* its effect, and a key has at most one effect.                            *)
THEOREM Authorised == Spec => []EffectsAreAuthorised
<1> QED BY InitTypeOK, NextTypeOK, InitAuthorised, NextAuthorised, PTL DEF Spec

-----------------------------------------------------------------------------
(* History.                                                                 *)

HistoryOf(c, rs) == {r \in rs : r.write.case = c}

(* The receipts rs are the history of case c, whose row is `row`.           *)
IsHistory(c, row, rs) ==
  /\ \A v \in 0 .. row.version - 1 : \E r \in HistoryOf(c, rs) : r.write.expected = v
  /\ \A r \in HistoryOf(c, rs) : r.write.expected < row.version
  /\ \A r, s \in HistoryOf(c, rs) : r.write.expected = s.write.expected => r = s
  /\ \A r \in HistoryOf(c, rs) :
       /\ r.write.action = "create_case" <=> r.write.expected = 0
       /\ r.write.action = "close_case" <=>
            row.closed /\ r.write.expected + 1 = row.version

(* The history of the store is the history of each of its cases.            *)
LEMMA HistoryByCase ==
  ReceiptsAreHistory <=> \A c \in Cases : IsHistory(c, cases[c], receipts)
BY DEF ReceiptsAreHistory, IsHistory, HistoryOf

(* A store of the older schema starts with the history of what it created.  *)
LEMMA InitHistory == Init => ReceiptsAreHistory
<1> SUFFICES ASSUME Init, NEW c \in Cases PROVE IsHistory(c, cases[c], receipts)
  BY HistoryByCase
<1>1. cases[c] = LegacyRow(c) /\ receipts \subseteq LegacyReceipts
  BY DEF Init
<1>2. \A r \in receipts : /\ r.write.expected = 0 /\ r.write.action = "create_case"
                          /\ \A s \in receipts : r.write.case = s.write.case => r = s
  BY <1>1, LegacyAssumption DEF LegacyAssumption
<1>3. CASE HistoryOf(c, receipts) = {}
  <2>1. cases[c].version = 0
    BY <1>1, <1>3 DEF LegacyRow, HistoryOf
  <2> QED BY <2>1, <1>3 DEF IsHistory
<1>4. CASE HistoryOf(c, receipts) # {}
  <2>1. cases[c].version = 1 /\ cases[c].closed = FALSE
    BY <1>1, <1>4 DEF LegacyRow, HistoryOf
  <2>2. \A r \in HistoryOf(c, receipts) :
          /\ r.write.expected = 0 /\ r.write.action = "create_case"
          /\ \A s \in HistoryOf(c, receipts) : r = s
    BY <1>2 DEF HistoryOf
  <2> QED BY <2>1, <2>2, <1>4 DEF IsHistory
<1> QED BY <1>3, <1>4

(* A write that compares and swaps the version extends the history by one.  *)
LEMMA WriteHistory ==
  ASSUME TypeOK, ReceiptsAreHistory,
         NEW w \in Writes, NEW k \in Keys, NEW g \in grants, Write(w, k, g),
         NEW c \in Cases
  PROVE  IsHistory(c, cases'[c], receipts')
<1> USE StoreAssumption DEF StoreAssumption
<1>1. w.case \in Cases /\ w.expected \in Nat /\ w.action \in Actions
  BY DEF WriteRequest
<1>2. PICK new \in Receipt : receipts' = receipts \cup {new} /\ new.write = w
  BY WriteEffect
<1>3. /\ cases[w.case].version = w.expected /\ ~cases[w.case].closed
      /\ w.action = "create_case" <=> w.expected = 0
  BY <1>1 DEF Write, MayWrite, CaseAccepts, TypeOK, CaseRow
<1>4. /\ cases'[w.case].version = w.expected + 1
      /\ cases'[w.case].closed = (w.action = "close_case")
      /\ \A d \in Cases : d # w.case => cases'[d] = cases[d]
  BY <1>1 DEF Write, TypeOK
<1>5. IsHistory(c, cases[c], receipts)
  BY HistoryByCase
<1>6. \A r \in receipts : r.write.expected \in Nat
  BY DEF TypeOK, Receipt, WriteRequest
<1>7. CASE c # w.case
  <2>1. HistoryOf(c, receipts') = HistoryOf(c, receipts) /\ cases'[c] = cases[c]
    BY <1>2, <1>4, <1>7 DEF HistoryOf
  <2> QED BY <2>1, <1>5 DEF IsHistory
<1>8. CASE c = w.case
  <2>1. HistoryOf(c, receipts') = HistoryOf(c, receipts) \cup {new}
    BY <1>2, <1>8 DEF HistoryOf
  <2>2. \A r \in HistoryOf(c, receipts) :
          /\ r.write.expected \in Nat /\ r.write.expected < w.expected
          /\ r.write.action # "close_case"
          /\ r.write.action = "create_case" <=> r.write.expected = 0
    BY <1>3, <1>5, <1>6, <1>8 DEF IsHistory, HistoryOf
  <2>3. \A v \in 0 .. cases'[c].version - 1 :
          \E r \in HistoryOf(c, receipts') : r.write.expected = v
    <3> SUFFICES ASSUME NEW v \in 0 .. w.expected
                 PROVE  \E r \in HistoryOf(c, receipts') : r.write.expected = v
      BY <1>1, <1>4, <1>8
    <3>1. CASE v = w.expected
      BY <3>1, <2>1, <1>2
    <3>2. CASE v # w.expected
      <4>1. v \in 0 .. cases[c].version - 1
        BY <3>2, <1>1, <1>3, <1>8
      <4> QED BY <4>1, <2>1, <1>5 DEF IsHistory
    <3> QED BY <3>1, <3>2
  <2>4. \A r \in HistoryOf(c, receipts') : r.write.expected < cases'[c].version
    BY <1>1, <1>2, <1>4, <1>8, <2>1, <2>2
  <2>5. \A r, s \in HistoryOf(c, receipts') : r.write.expected = s.write.expected => r = s
    BY <1>1, <1>2, <2>1, <2>2, <1>5 DEF IsHistory
  <2>6. \A r \in HistoryOf(c, receipts') :
          /\ r.write.action = "create_case" <=> r.write.expected = 0
          /\ r.write.action = "close_case" <=>
               cases'[c].closed /\ r.write.expected + 1 = cases'[c].version
    <3> SUFFICES ASSUME NEW r \in HistoryOf(c, receipts')
                 PROVE  /\ r.write.action = "create_case" <=> r.write.expected = 0
                        /\ r.write.action = "close_case" <=>
                             cases'[c].closed /\ r.write.expected + 1 = cases'[c].version
      OBVIOUS
    <3>1. CASE r = new
      BY <3>1, <1>2, <1>3, <1>4, <1>8
    <3>2. CASE r \in HistoryOf(c, receipts)
      <4>1. r.write.expected + 1 # cases'[c].version
        BY <3>2, <2>2, <1>1, <1>4, <1>8
      <4> QED BY <3>2, <4>1, <2>2
    <3> QED BY <3>1, <3>2, <2>1
  <2> QED BY <2>3, <2>4, <2>5, <2>6 DEF IsHistory
<1> QED BY <1>7, <1>8

(* A renewed legacy receipt stands for the same write.                      *)
LEMMA ReplayHistory ==
  ASSUME TypeOK, ReceiptsAreHistory,
         NEW w \in Writes, NEW k \in Keys, ReplayLegacyCreate(w, k), NEW c \in Cases
  PROVE  IsHistory(c, cases'[c], receipts')
<1>1. PICK old \in receipts, new \in Receipt :
         /\ receipts' = (receipts \ {old}) \cup {new}
         /\ new.key = old.key /\ new.write = old.write
  BY ReplayEffect
<1>2. cases' = cases
  BY DEF ReplayLegacyCreate
<1>3. IsHistory(c, cases[c], receipts)
  BY HistoryByCase
<1> QED BY <1>1, <1>2, <1>3 DEF IsHistory, HistoryOf

(* Every step keeps one receipt for each version of a case (_mutate,        *)
(* create_case and the renewal of a legacy request hash).                   *)
LEMMA NextHistory ==
  TypeOK /\ ReceiptsAreHistory /\ [Next]_storeVars => ReceiptsAreHistory'
<1> SUFFICES ASSUME TypeOK, ReceiptsAreHistory, [Next]_storeVars
             PROVE  ReceiptsAreHistory'
  OBVIOUS
<1>1. ASSUME NEW c \in Cases,
             \/ \E t \in Threads, o \in Owners : IdentityStep(c, t, o) \/ FenceStep(c, t, o)
             \/ LeaseExpires(c)
      PROVE  ReceiptsAreHistory'
  BY <1>1, IdentityFenceFrame DEF ReceiptsAreHistory
<1>2. ASSUME NEW c \in Cases, NEW t \in Threads, NEW o \in Owners, GrantStep(c, t, o)
      PROVE  ReceiptsAreHistory'
  BY <1>2 DEF GrantStep, IssueWorkflowExecutionGrant, ReceiptsAreHistory
<1>3. ASSUME NEW w \in Writes, NEW k \in Keys, NEW g \in grants, Write(w, k, g)
      PROVE  ReceiptsAreHistory'
  BY <1>3, WriteHistory DEF ReceiptsAreHistory, IsHistory, HistoryOf
<1>4. ASSUME NEW w \in Writes, NEW k \in Keys, ReplayLegacyCreate(w, k)
      PROVE  ReceiptsAreHistory'
  BY <1>4, ReplayHistory DEF ReceiptsAreHistory, IsHistory, HistoryOf
<1>5. CASE UNCHANGED storeVars
  BY <1>5 DEF storeVars, ReceiptsAreHistory
<1> QED BY <1>1, <1>2, <1>3, <1>4, <1>5 DEF Next, WriteStep

(* The receipts of a case are its history, without gap or repetition.       *)
THEOREM ReceiptsHistory == Spec => []ReceiptsAreHistory
<1> QED BY InitTypeOK, NextTypeOK, InitHistory, NextHistory, PTL DEF Spec

(* No receipt is lost, and a closed case is changed by no transaction.      *)
THEOREM PermanentHistory == Spec => HistoryIsPermanent
<1>1. TypeOK /\ [Next]_storeVars =>
        [/\ \A r \in receipts : \E s \in receipts' : s.key = r.key /\ s.write = r.write
         /\ \A c \in Cases : cases[c].closed => cases'[c] = cases[c]]_storeVars
  <2> SUFFICES ASSUME TypeOK, Next
               PROVE  /\ \A r \in receipts :
                           \E s \in receipts' : s.key = r.key /\ s.write = r.write
                      /\ \A c \in Cases : cases[c].closed => cases'[c] = cases[c]
    OBVIOUS
  <2> USE StoreAssumption DEF StoreAssumption
  <2>1. CASE UNCHANGED <<cases, receipts>>
    BY <2>1
  <2>2. ASSUME NEW w \in Writes, NEW k \in Keys, NEW g \in grants, Write(w, k, g)
        PROVE  /\ receipts \subseteq receipts'
               /\ \A c \in Cases : cases[c].closed => cases'[c] = cases[c]
    <3>1. receipts \subseteq receipts'
      BY <2>2 DEF Write
    <3>2. \A c \in Cases : cases[c].closed => cases'[c] = cases[c]
      BY <2>2 DEF Write, MayWrite, CaseAccepts, TypeOK
    <3> QED BY <3>1, <3>2
  <2>3. ASSUME NEW w \in Writes, NEW k \in Keys, ReplayLegacyCreate(w, k)
        PROVE  /\ \A r \in receipts :
                    \E s \in receipts' : s.key = r.key /\ s.write = r.write
               /\ cases' = cases
    <3>1. cases' = cases
      BY <2>3 DEF ReplayLegacyCreate
    <3> QED BY <2>3, <3>1, ReplayEffect
  <2>4. CASE \E c \in Cases, t \in Threads, o \in Owners : GrantStep(c, t, o)
    BY <2>4, <2>1 DEF GrantStep, IssueWorkflowExecutionGrant
  <2>5. CASE WriteStep
    BY <2>5, <2>2, <2>3 DEF WriteStep
  <2> QED BY <2>1, <2>4, <2>5, IdentityFenceFrame DEF Next
<1> QED BY <1>1, InitTypeOK, NextTypeOK, PTL DEF Spec, HistoryIsPermanent
=============================================================================

--------------------------- MODULE CampaignProofs ---------------------------
(* Theorems about Campaign, for every set of campaigns, rows, accounts and *)
(* every bound.                                                            *)
EXTENDS Campaign, TLAPS

LEMMA NoRequestType == NoRequest \in Request /\ WellFormed(NoRequest)
  BY DEF NoRequest, Request, PC, Event, WellFormed

LEMMA AuditRequestType ==
  ASSUME NEW e \in Event, NEW c \in Campaigns \cup {None},
         NEW q, q = [NoRequest EXCEPT !.pc = "audit", !.campaign = c, !.event = e]
  PROVE  q \in Request /\ WellFormed(q)
  BY NoRequestType DEF Request, PC, WellFormed

(* Replacing one actor's request by a well-formed one keeps them all so.   *)
LEMMA RequestUpdate ==
  ASSUME TypeOK, NEW a \in People, NEW q \in Request, WellFormed(q),
         req' = [req EXCEPT ![a] = q]
  PROVE  req' \in [People -> Request] /\ \A b \in People : WellFormed(req'[b])
  BY DEF TypeOK

LEMMA FinishType ==
  ASSUME TypeOK, NEW a \in People, Finish(a)
  PROVE  req' \in [People -> Request] /\ \A b \in People : WellFormed(req'[b])
  BY NoRequestType, RequestUpdate DEF Finish

LEMMA ThenAuditType ==
  ASSUME TypeOK, NEW a \in People, NEW e \in Event, NEW c \in Campaigns \cup {None},
         ThenAudit(a, e, c)
  PROVE  req' \in [People -> Request] /\ \A b \in People : WellFormed(req'[b])
  BY AuditRequestType, RequestUpdate DEF ThenAudit

(* RemediationFromDecisions yields well-formed actions, each justified by  *)
(* one of the decisions it is computed from.                               *)
LEMMA RemediationJustifiedByInput ==
  ASSUME NEW D \in SUBSET Decision
  PROVE  /\ RemediationFromDecisions(D) \subseteq PendingAction
         /\ \A x \in RemediationFromDecisions(D) : \E d \in D : Justifies(d, x)
  BY DEF RemediationFromDecisions, LatestDecisions, PendingAction, Decision, Justifies

LEMMA ResolvedReviewerType ==
  ASSUME NEW r \in LiveRow, NEW g \in [Rows -> Managers \cup {None}], NEW b \in BOOLEAN
  PROVE  ResolvedReviewers(r, g, b) \in [Rows -> People \cup {None}]
  BY CampaignAssumption DEF ResolvedReviewers, ResolveReviewer, LiveRow, People

LEMMA TypeInit == Init => TypeOK
  BY CampaignAssumption, NoRequestType DEF Init, TypeOK, CampaignRow

LEMMA TypeStep == TypeOK /\ [Next]_vars => TypeOK'
<1> SUFFICES ASSUME TypeOK, [Next]_vars PROVE TypeOK'
  OBVIOUS
<1> USE CampaignAssumption, NoRequestType
<1>p. Managers \subseteq People
  BY DEF People
<1>r. ASSUME NEW c \in Campaigns, campaign[c].status \notin {"absent", "deleted"}
      PROVE  campaign[c] \in LiveRow
  BY <1>r DEF TypeOK, CampaignRow, NoRow, DeletedRow
<1>1. ASSUME NEW m \in Managers, CampaignCreate(m) PROVE TypeOK'
  <2>1. PICK c \in Campaigns, s \in Scopes, p \in Managers, d \in {None} \cup Reviewers :
           /\ campaign' = [campaign EXCEPT ![c] =
                 [status |-> "draft", scope |-> s, pilot |-> p, default |-> d]]
           /\ ThenAudit(m, "campaign.created", c)
    BY <1>1 DEF CampaignCreate
  <2>2. campaign' \in [Campaigns -> CampaignRow]
    BY <2>1 DEF TypeOK, CampaignRow, LiveRow, People
  <2>3. QED
    BY <1>1, <1>p, <2>1, <2>2, ThenAuditType DEF CampaignCreate, TypeOK, Event
<1>2. ASSUME NEW m \in Managers, CampaignUpdate(m) PROVE TypeOK'
  <2>1. PICK c \in Campaigns, s \in Scopes, d \in {None} \cup Reviewers :
           /\ campaign[c].status = "draft"
           /\ req' = [req EXCEPT ![m] = [NoRequest EXCEPT !.pc = "update", !.campaign = c,
                         !.row = [campaign[c] EXCEPT !.scope = s, !.default = d]]]
    BY <1>2 DEF CampaignUpdate, Begin
  <2> DEFINE r == [campaign[c] EXCEPT !.scope = s, !.default = d]
             q == [NoRequest EXCEPT !.pc = "update", !.campaign = c, !.row = r]
  <2>2. r \in LiveRow
    BY <1>r, <2>1 DEF LiveRow, People
  <2>3. q \in Request /\ WellFormed(q)
    BY <2>2 DEF Request, PC, WellFormed
  <2>4. QED
    BY <1>2, <1>p, <2>1, <2>3, RequestUpdate DEF CampaignUpdate, TypeOK, tables
<1>3. ASSUME NEW m \in Managers, UpdateCommit(m) PROVE TypeOK'
  <2>1. req[m].campaign \in Campaigns /\ req[m].row \in LiveRow
    BY <1>3, <1>p DEF UpdateCommit, TypeOK, WellFormed
  <2>2. campaign' \in [Campaigns -> CampaignRow]
    BY <1>3, <2>1 DEF UpdateCommit, TypeOK, CampaignRow
  <2>3. QED
    BY <1>3, <1>p, <2>1, <2>2, ThenAuditType DEF UpdateCommit, TypeOK, Event
<1>4. ASSUME NEW m \in Managers, CampaignOpen(m) PROVE TypeOK'
  <2>1. PICK c \in Campaigns, b \in BOOLEAN, g \in [Rows -> Managers \cup {None}] :
           /\ campaign[c].status = "draft"
           /\ req' = [req EXCEPT ![m] =
                [NoRequest EXCEPT !.pc = "open", !.campaign = c,
                    !.row = [campaign[c] EXCEPT !.status = "open"],
                    !.reviewers = ResolvedReviewers(campaign[c], g, b)]]
    BY <1>4 DEF CampaignOpen, Begin
  <2> DEFINE r == [campaign[c] EXCEPT !.status = "open"]
             rev == ResolvedReviewers(campaign[c], g, b)
             q == [NoRequest EXCEPT !.pc = "open", !.campaign = c, !.row = r,
                                    !.reviewers = rev]
  <2>2. r \in LiveRow
    BY <1>r, <2>1 DEF LiveRow
  <2>3. rev \in [Rows -> People \cup {None}]
    BY <1>r, <2>1, ResolvedReviewerType
  <2> HIDE DEF r, rev
  <2>4. q \in Request /\ WellFormed(q)
    BY <2>2, <2>3 DEF Request, PC, WellFormed
  <2>5. req' = [req EXCEPT ![m] = q]
    BY <2>1 DEF r, rev
  <2>6. QED
    BY <1>4, <1>p, <2>4, <2>5, RequestUpdate DEF CampaignOpen, TypeOK, tables
<1>5. ASSUME NEW m \in Managers, OpenCommit(m) PROVE TypeOK'
  <2> DEFINE c == req[m].campaign
             r == req[m].row
             n == openings[c] + 1
  <2>1. c \in Campaigns /\ r \in LiveRow /\ req[m].reviewers \in [Rows -> People \cup {None}]
    BY <1>5, <1>p DEF OpenCommit, TypeOK, WellFormed, Request
  <2>2. r.scope \in Scopes /\ r \in CampaignRow
    BY <2>1 DEF LiveRow, CampaignRow
  <2>3. campaign' \in [Campaigns -> CampaignRow] /\ items' \subseteq ItemId
    BY <1>5, <2>1, <2>2 DEF OpenCommit, TypeOK
  <2>4. reviewer' \in [ItemId -> People \cup {None}]
    BY <1>5, <2>1 DEF OpenCommit, TypeOK, ItemId
  <2>5. contexts' \subseteq Campaigns \X Rows
    BY <1>5, <2>1, <2>2 DEF OpenCommit, CapturedContexts, TypeOK
  <2>6. audit' \subseteq Event \X (Campaigns \cup {None})
    BY <1>5, <2>1 DEF OpenCommit, TypeOK, Event
  <2>7. openings' \in [Campaigns -> 0..MaxOpenings]
    BY <1>5, <2>1 DEF OpenCommit, TypeOK
  <2>8. QED
    BY <1>5, <1>p, <2>3, <2>4, <2>5, <2>6, <2>7, FinishType DEF OpenCommit, TypeOK
<1>6. ASSUME NEW m \in Managers, CampaignClose(m) PROVE TypeOK'
  <2>1. PICK c \in Campaigns :
           /\ campaign[c].status = "open"
           /\ req' = [req EXCEPT ![m] =
                [NoRequest EXCEPT !.pc = "close.read", !.campaign = c,
                                  !.row = [campaign[c] EXCEPT !.status = "closed"]]]
    BY <1>6 DEF CampaignClose, Begin
  <2> DEFINE q == [NoRequest EXCEPT !.pc = "close.read", !.campaign = c,
                                    !.row = [campaign[c] EXCEPT !.status = "closed"]]
  <2>2. [campaign[c] EXCEPT !.status = "closed"] \in LiveRow
    BY <1>r, <2>1 DEF LiveRow
  <2>3. q \in Request /\ WellFormed(q)
    BY <2>2 DEF Request, PC, WellFormed
  <2>4. QED
    BY <1>6, <1>p, <2>1, <2>3, RequestUpdate DEF CampaignClose, TypeOK, tables
<1>7. ASSUME NEW m \in Managers, CloseRead(m) PROVE TypeOK'
  <2> DEFINE D == DecisionsOn(ItemsOf(req[m].campaign))
             q == [req[m] EXCEPT !.pc = "close", !.actions = RemediationFromDecisions(D)]
  <2>1. D \subseteq Decision
    BY DEF DecisionsOn, TypeOK
  <2>2. RemediationFromDecisions(D) \subseteq PendingAction
    BY <2>1, RemediationJustifiedByInput
  <2> HIDE DEF D
  <2>3. q \in Request /\ WellFormed(q)
    BY <1>7, <1>p, <2>2 DEF CloseRead, TypeOK, Request, PC, WellFormed
  <2>4. req' = [req EXCEPT ![m] = q] \/ Finish(m)
    BY <1>7 DEF CloseRead, D
  <2>5. QED
    BY <1>7, <1>p, <2>3, <2>4, RequestUpdate, FinishType DEF CloseRead, TypeOK, tables
<1>8. ASSUME NEW m \in Managers, CloseCommit(m) PROVE TypeOK'
  <2> DEFINE q == [req[m] EXCEPT !.pc = "remediate"]
  <2>1. req[m].campaign \in Campaigns /\ req[m].row \in LiveRow
    BY <1>8, <1>p DEF CloseCommit, TypeOK, WellFormed
  <2>2. campaign' \in [Campaigns -> CampaignRow]
    BY <1>8, <2>1 DEF CloseCommit, TypeOK, CampaignRow
  <2>3. q \in Request /\ WellFormed(q)
    BY <1>p, <2>1 DEF TypeOK, Request, PC, WellFormed
  <2>4. QED
    BY <1>8, <1>p, <2>2, <2>3, RequestUpdate DEF CloseCommit, TypeOK
<1>9. ASSUME NEW m \in Managers, RemediationInsert(m) PROVE TypeOK'
  <2>1. PICK x \in req[m].actions, n \in ActionIds :
           /\ remediation' = remediation \cup
                {[id |-> n, item |-> x.item, action |-> x.action, status |-> "pending"]}
           /\ req' = [req EXCEPT ![m] = [@ EXCEPT !.actions = req[m].actions \ {x}]]
    BY <1>9 DEF RemediationInsert
  <2> DEFINE q == [req[m] EXCEPT !.actions = req[m].actions \ {x}]
  <2>2. x \in PendingAction
    BY <1>p DEF TypeOK, Request
  <2>3. remediation' \subseteq RemediationAction
    <3>1. x.item \in ItemId /\ x.action \in {"revoke", "grant"} /\ remediation \subseteq RemediationAction
      BY <2>2 DEF TypeOK, PendingAction
    <3>2. [id |-> n, item |-> x.item, action |-> x.action, status |-> "pending"] \in RemediationAction
      BY <3>1 DEF RemediationAction, RemediationStatus
    <3> QED BY <2>1, <3>1, <3>2
  <2>4. q \in Request /\ WellFormed(q)
    <3>1. req[m] \in Request /\ WellFormed(req[m])
      BY <1>p DEF TypeOK
    <3>2. q \in Request
      BY <3>1 DEF Request
    <3>3. q.pc = req[m].pc /\ q.campaign = req[m].campaign /\ q.row = req[m].row
      BY <3>1 DEF Request
    <3> HIDE DEF q
    <3> QED BY <3>1, <3>2, <3>3 DEF WellFormed
  <2>5. QED
    BY <1>9, <1>p, <2>1, <2>3, <2>4, RequestUpdate DEF RemediationInsert, TypeOK
<1>10. ASSUME NEW m \in Managers, RemediationDone(m) PROVE TypeOK'
  <2>1. req[m].campaign \in Campaigns
    BY <1>10, <1>p DEF RemediationDone, TypeOK, WellFormed
  <2>2. QED
    BY <1>10, <1>p, <2>1, ThenAuditType DEF RemediationDone, TypeOK, tables, Event
<1>11. ASSUME NEW m \in Managers, CampaignCancel(m) PROVE TypeOK'
  <2>1. PICK c \in Campaigns :
           /\ campaign[c].status = "draft"
           /\ req' = [req EXCEPT ![m] =
                [NoRequest EXCEPT !.pc = "cancel", !.campaign = c,
                                  !.row = [campaign[c] EXCEPT !.status = "cancelled"]]]
    BY <1>11 DEF CampaignCancel, Begin
  <2> DEFINE q == [NoRequest EXCEPT !.pc = "cancel", !.campaign = c,
                                    !.row = [campaign[c] EXCEPT !.status = "cancelled"]]
  <2>2. [campaign[c] EXCEPT !.status = "cancelled"] \in LiveRow
    BY <1>r, <2>1 DEF LiveRow
  <2>3. q \in Request /\ WellFormed(q)
    BY <2>2 DEF Request, PC, WellFormed
  <2>4. QED
    BY <1>11, <1>p, <2>1, <2>3, RequestUpdate DEF CampaignCancel, TypeOK, tables
<1>12. ASSUME NEW m \in Managers, CancelCommit(m) PROVE TypeOK'
  <2>1. req[m].campaign \in Campaigns /\ req[m].row \in LiveRow
    BY <1>12, <1>p DEF CancelCommit, TypeOK, WellFormed
  <2>2. campaign' \in [Campaigns -> CampaignRow]
    BY <1>12, <2>1 DEF CancelCommit, TypeOK, CampaignRow
  <2>3. QED
    BY <1>12, <1>p, <2>1, <2>2, ThenAuditType DEF CancelCommit, TypeOK, Event
<1>13. ASSUME NEW m \in Managers, CampaignDelete(m) PROVE TypeOK'
  <2>1. PICK c \in Campaigns :
           req' = [req EXCEPT ![m] =
                [NoRequest EXCEPT !.pc = "delete", !.campaign = c,
                                  !.items = ItemsOf(c),
                                  !.decisions = DecisionsOn(ItemsOf(c)),
                                  !.contexts = contexts \cap ({c} \X Rows)]]
    BY <1>13 DEF CampaignDelete, Begin
  <2> DEFINE I == ItemsOf(c)
             D == DecisionsOn(I)
             K == contexts \cap ({c} \X Rows)
             q == [NoRequest EXCEPT !.pc = "delete", !.campaign = c, !.items = I,
                                    !.decisions = D, !.contexts = K]
  <2>2. I \subseteq ItemId /\ D \subseteq Decision /\ K \subseteq Campaigns \X Rows
    BY DEF ItemsOf, DecisionsOn, TypeOK
  <2>3. req' = [req EXCEPT ![m] = q]
    BY <2>1
  <2> HIDE DEF I, D, K
  <2>4. q \in Request /\ WellFormed(q)
    BY <2>2 DEF Request, PC, WellFormed
  <2>5. QED
    BY <1>13, <1>p, <2>3, <2>4, RequestUpdate DEF CampaignDelete, TypeOK, tables
<1>14. ASSUME NEW m \in Managers, DeleteCommit(m) PROVE TypeOK'
  <2>1. req[m].campaign \in Campaigns
    BY <1>14, <1>p DEF DeleteCommit, TypeOK, WellFormed
  <2>2. campaign' \in [Campaigns -> CampaignRow]
    BY <1>14, <2>1 DEF DeleteCommit, TypeOK, CampaignRow
  <2>3. reviewer' \in [ItemId -> People \cup {None}]
    BY <1>14 DEF DeleteCommit, TypeOK
  <2>4. audit' \subseteq Event \X (Campaigns \cup {None})
    BY <1>14, <2>1 DEF DeleteCommit, TypeOK, Event
  <2>5. QED
    BY <1>14, <1>p, <2>2, <2>3, <2>4, FinishType DEF DeleteCommit, TypeOK
<1>15. ASSUME NEW a \in People, ReviewDecision(a) PROVE TypeOK'
  <2>1. PICK i \in items, v \in DecisionValue, u \in DecisionIds :
           req' = [req EXCEPT ![a] =
              [NoRequest EXCEPT !.pc = "decide", !.campaign = i.campaign,
                 !.decisions = {[item |-> i, value |-> v, at |-> clock, uuid |-> u]}]]
    BY <1>15 DEF ReviewDecision, Begin
  <2> DEFINE D == {[item |-> i, value |-> v, at |-> clock, uuid |-> u]}
             q == [NoRequest EXCEPT !.pc = "decide", !.campaign = i.campaign, !.decisions = D]
  <2>2. D \subseteq Decision /\ i.campaign \in Campaigns
    BY DEF TypeOK, Decision, ItemId
  <2> HIDE DEF D
  <2>3. q \in Request /\ WellFormed(q)
    BY <2>2 DEF Request, PC, WellFormed
  <2>4. req' = [req EXCEPT ![a] = q]
    BY <2>1 DEF D
  <2>5. QED
    BY <1>15, <2>3, <2>4, RequestUpdate DEF ReviewDecision, TypeOK, tables
<1>16. ASSUME NEW a \in People, DecisionCommit(a) PROVE TypeOK'
  <2>1. req[a].campaign \in Campaigns /\ req[a].decisions \subseteq Decision
    BY <1>16 DEF DecisionCommit, TypeOK, WellFormed, Request
  <2>2. QED
    BY <1>16, <2>1, ThenAuditType DEF DecisionCommit, TypeOK, Event
<1>17. ASSUME NEW m \in Managers, ReassignReviews(m) PROVE TypeOK'
  <2>1. PICK from \in People, to \in People :
           req' = [req EXCEPT ![m] =
              [NoRequest EXCEPT !.pc = "reassign", !.reviewers = [x \in Rows |-> to],
                 !.items = {i \in items : /\ reviewer[i] = from
                                          /\ i \notin Decided(decisions)
                                          /\ campaign[i.campaign].status = "open"}]]
    BY <1>17 DEF ReassignReviews, Begin
  <2> DEFINE I == {i \in items : /\ reviewer[i] = from
                                 /\ i \notin Decided(decisions)
                                 /\ campaign[i.campaign].status = "open"}
             R == [x \in Rows |-> to]
             q == [NoRequest EXCEPT !.pc = "reassign", !.reviewers = R, !.items = I]
  <2>2. I \subseteq ItemId /\ R \in [Rows -> People \cup {None}]
    BY DEF TypeOK
  <2>3. req' = [req EXCEPT ![m] = q]
    BY <2>1
  <2> HIDE DEF I, R
  <2>4. q \in Request /\ WellFormed(q)
    BY <2>2 DEF Request, PC, WellFormed
  <2>5. QED
    BY <1>17, <1>p, <2>3, <2>4, RequestUpdate DEF ReassignReviews, TypeOK, tables
<1>18. ASSUME NEW m \in Managers, ReassignItem(m) PROVE TypeOK'
  <2>1. PICK i \in req[m].items :
           /\ items' = items \cup {i}
           /\ reviewer' = [reviewer EXCEPT ![i] = req[m].reviewers[i.row]]
           /\ req' = [req EXCEPT ![m] = [@ EXCEPT !.items = req[m].items \ {i}]]
    BY <1>18 DEF ReassignItem
  <2> DEFINE q == [req[m] EXCEPT !.items = req[m].items \ {i}]
  <2>2. i \in ItemId /\ req[m].reviewers[i.row] \in People \cup {None}
    BY <1>p DEF TypeOK, Request, ItemId
  <2>3. q \in Request /\ WellFormed(q)
    BY <1>18, <1>p DEF ReassignItem, TypeOK, Request, WellFormed
  <2>4. QED
    BY <1>18, <1>p, <2>1, <2>2, <2>3, RequestUpdate DEF ReassignItem, TypeOK
<1>19. ASSUME NEW m \in Managers, ReassignDone(m) PROVE TypeOK'
  BY <1>19, <1>p, ThenAuditType DEF ReassignDone, TypeOK, tables, Event
<1>20. ASSUME NEW m \in Managers, RemediationFollowUp(m) PROVE TypeOK'
  <2>1. PICK a \in remediation, s \in RemediationStatus :
           /\ remediation' = (remediation \ {a}) \cup {[a EXCEPT !.status = s]}
           /\ ThenAudit(m, "remediation.status_changed", a.item.campaign)
    BY <1>20 DEF RemediationFollowUp
  <2>2. a.item.campaign \in Campaigns /\ [a EXCEPT !.status = s] \in RemediationAction
    BY DEF TypeOK, RemediationAction, ItemId
  <2>3. remediation' \subseteq RemediationAction
    BY <2>1, <2>2 DEF TypeOK
  <2>4. QED
    BY <1>20, <1>p, <2>1, <2>2, <2>3, ThenAuditType DEF RemediationFollowUp, TypeOK, Event
<1>21. ASSUME NEW a \in People, RecordAudit(a) PROVE TypeOK'
  <2>1. req[a].event \in Event /\ req[a].campaign \in Campaigns \cup {None}
    BY DEF TypeOK, Request
  <2>2. audit' \subseteq Event \X (Campaigns \cup {None})
    BY <1>21, <2>1 DEF RecordAudit, TypeOK
  <2>3. QED
    BY <1>21, <2>2, FinishType DEF RecordAudit, TypeOK
<1>22. ASSUME NEW a \in People, Fail(a) PROVE TypeOK'
  BY <1>22, FinishType DEF Fail, TypeOK, tables
<1>23. ASSUME Tick PROVE TypeOK'
  BY <1>23 DEF Tick, TypeOK, tables
<1>24. CASE UNCHANGED vars
  BY <1>24 DEF vars, TypeOK
<1>25. QED
  BY <1>1, <1>2, <1>3, <1>4, <1>5, <1>6, <1>7, <1>8, <1>9, <1>10, <1>11, <1>12, <1>13,
     <1>14, <1>15, <1>16, <1>17, <1>18, <1>19, <1>20, <1>21, <1>22, <1>23, <1>24
  DEF Next, ManagerStep, ActorStep

(* Every reachable state is well typed: each handler writes rows of the    *)
(* tables' shapes and acts on the campaign it read.                        *)
THEOREM TypeCorrect == Spec => []TypeOK
  BY TypeInit, TypeStep, PTL DEF Spec

-----------------------------------------------------------------------------
(* Evidence: what remediation actions and review items rest on.            *)

Grows == decisions \subseteq decisions' /\ contexts \subseteq contexts' /\ audit \subseteq audit'

(* Support is never lost while the evidence tables only grow.              *)
LEMMA SupportKept ==
  ASSUME Grows
  PROVE  /\ \A a : Supported(a) => Supported(a)'
         /\ \A i : OpeningRecorded(i) => OpeningRecorded(i)'
  BY DEF Grows, Supported, OpeningRecorded, DeletionAudited, Justifies

OwnDeletion(q) ==
    q.pc = "delete" => /\ \A d \in q.decisions : d.item.campaign = q.campaign
                       /\ q.contexts \subseteq {q.campaign} \X Rows

(* One actor's new request carries evidence, the others keep theirs.       *)
LEMMA InFlightUpdate ==
  ASSUME TypeOK, InFlightEvidence, NEW a \in People, NEW q,
         req' = [req EXCEPT ![a] = q],
         \A x : Supported(x) => Supported(x)',
         \A i : OpeningRecorded(i) => OpeningRecorded(i)',
         \A x \in q.actions : Supported(x)',
         \A i \in q.items : OpeningRecorded(i)',
         OwnDeletion(q)
  PROVE  InFlightEvidence'
<1>1. ASSUME NEW b \in People
      PROVE  /\ \A x \in req'[b].actions : Supported(x)'
             /\ \A i \in req'[b].items : OpeningRecorded(i)'
             /\ OwnDeletion(req'[b])
  <2>1. CASE b = a
    BY <2>1 DEF TypeOK
  <2>2. CASE b # a
    BY <2>2 DEF TypeOK, InFlightEvidence, OwnDeletion
  <2>3. QED
    BY <2>1, <2>2
<1>2. QED
  BY <1>1 DEF InFlightEvidence, OwnDeletion

LEMMA NoRequestCarriesNothing ==
  ASSUME NEW e, NEW c,
         NEW q, q = [NoRequest EXCEPT !.pc = "audit", !.campaign = c, !.event = e]
  PROVE  /\ NoRequest.actions = {} /\ NoRequest.items = {} /\ OwnDeletion(NoRequest)
         /\ q.actions = {} /\ q.items = {} /\ OwnDeletion(q)
  BY DEF NoRequest, OwnDeletion

(* A request that ends, or has only its audit event left, carries nothing. *)
LEMMA FinishEvidence ==
  ASSUME TypeOK, InFlightEvidence, NEW a \in People, Finish(a),
         \A x : Supported(x) => Supported(x)',
         \A i : OpeningRecorded(i) => OpeningRecorded(i)'
  PROVE  InFlightEvidence'
  BY InFlightUpdate, NoRequestCarriesNothing DEF Finish

LEMMA ThenAuditEvidence ==
  ASSUME TypeOK, InFlightEvidence, NEW a \in People, NEW e, NEW c, ThenAudit(a, e, c),
         \A x : Supported(x) => Supported(x)',
         \A i : OpeningRecorded(i) => OpeningRecorded(i)'
  PROVE  InFlightEvidence'
  BY InFlightUpdate, NoRequestCarriesNothing DEF ThenAudit

(* A step that leaves items and remediation alone and keeps all support.   *)
LEMMA EvidenceKept ==
  ASSUME RemediationJustified, OpenIsAtomic, remediation' = remediation, items' = items,
         \A x : Supported(x) => Supported(x)',
         \A i : OpeningRecorded(i) => OpeningRecorded(i)'
  PROVE  RemediationJustified' /\ OpenIsAtomic'
  BY DEF RemediationJustified, OpenIsAtomic

LEMMA EvidenceInit == Init => EvidenceInv
  BY TypeInit DEF Init, EvidenceInv, RemediationJustified, OpenIsAtomic, InFlightEvidence,
     NoRequest

LEMMA EvidenceStep == EvidenceInv /\ [Next]_vars => EvidenceInv'
<1> SUFFICES ASSUME EvidenceInv, [Next]_vars PROVE EvidenceInv'
  OBVIOUS
<1>t. TypeOK'
  BY TypeStep DEF EvidenceInv
<1>i. TypeOK /\ RemediationJustified /\ OpenIsAtomic /\ InFlightEvidence
  BY DEF EvidenceInv
<1>p. Managers \subseteq People
  BY DEF People
<1> DEFINE Goal == RemediationJustified' /\ OpenIsAtomic' /\ InFlightEvidence'
           Keep == /\ \A x : Supported(x) => Supported(x)'
                   /\ \A i : OpeningRecorded(i) => OpeningRecorded(i)'
<1>k. ASSUME UNCHANGED <<decisions, contexts, audit>> PROVE Keep
  BY <1>k, SupportKept DEF Grows
<1>1. ASSUME NEW m \in Managers, CampaignCreate(m) PROVE Goal
  <2>1. PICK c : ThenAudit(m, "campaign.created", c)
    BY <1>1 DEF CampaignCreate
  <2>2. Keep /\ remediation' = remediation /\ items' = items
    BY <1>1, <1>k DEF CampaignCreate
  <2>3. QED
    BY <1>i, <1>p, <2>1, <2>2, ThenAuditEvidence, EvidenceKept
<1>2. ASSUME NEW m \in Managers,
             UpdateCommit(m) \/ CancelCommit(m) \/ RemediationDone(m) \/ ReassignDone(m)
      PROVE  Goal
  <2>1. Keep /\ remediation' = remediation /\ items' = items
    BY <1>2, <1>k DEF UpdateCommit, CancelCommit, RemediationDone, ReassignDone, tables
  <2>2. \E e, c : ThenAudit(m, e, c)
    BY <1>2 DEF UpdateCommit, CancelCommit, RemediationDone, ReassignDone
  <2>3. QED
    BY <1>i, <1>p, <2>1, <2>2, ThenAuditEvidence, EvidenceKept
<1>3. ASSUME NEW m \in Managers,
             CampaignUpdate(m) \/ CampaignOpen(m) \/ CampaignClose(m) \/ CampaignCancel(m)
      PROVE  Goal
  <2>1. Keep /\ remediation' = remediation /\ items' = items
    BY <1>3, <1>k DEF CampaignUpdate, CampaignOpen, CampaignClose, CampaignCancel, tables
  <2>2. \E q : /\ req' = [req EXCEPT ![m] = q]
               /\ q.actions = {} /\ q.items = {} /\ q.pc # "delete"
    <3>1. CASE CampaignUpdate(m)
      <4>1. PICK c, r :
               req' = [req EXCEPT ![m] =
                  [NoRequest EXCEPT !.pc = "update", !.campaign = c, !.row = r]]
        BY <3>1 DEF CampaignUpdate, Begin
      <4> DEFINE q == [NoRequest EXCEPT !.pc = "update", !.campaign = c, !.row = r]
      <4>2. q.actions = {} /\ q.items = {} /\ q.pc # "delete"
        BY DEF NoRequest
      <4>3. req' = [req EXCEPT ![m] = q]
        BY <4>1
      <4> HIDE DEF q
      <4>4. QED
        BY <4>2, <4>3
    <3>2. CASE CampaignOpen(m)
      <4>1. PICK c, r, rev :
               req' = [req EXCEPT ![m] =
                  [NoRequest EXCEPT !.pc = "open", !.campaign = c, !.row = r, !.reviewers = rev]]
        BY <3>2 DEF CampaignOpen, Begin
      <4> DEFINE q == [NoRequest EXCEPT !.pc = "open", !.campaign = c, !.row = r, !.reviewers = rev]
      <4>2. q.actions = {} /\ q.items = {} /\ q.pc # "delete"
        BY DEF NoRequest
      <4>3. req' = [req EXCEPT ![m] = q]
        BY <4>1
      <4> HIDE DEF q
      <4>4. QED
        BY <4>2, <4>3
    <3>3. CASE CampaignClose(m)
      <4>1. PICK c, r :
               req' = [req EXCEPT ![m] =
                  [NoRequest EXCEPT !.pc = "close.read", !.campaign = c, !.row = r]]
        BY <3>3 DEF CampaignClose, Begin
      <4> DEFINE q == [NoRequest EXCEPT !.pc = "close.read", !.campaign = c, !.row = r]
      <4>2. q.actions = {} /\ q.items = {} /\ q.pc # "delete"
        BY DEF NoRequest
      <4>3. req' = [req EXCEPT ![m] = q]
        BY <4>1
      <4> HIDE DEF q
      <4>4. QED
        BY <4>2, <4>3
    <3>4. CASE CampaignCancel(m)
      <4>1. PICK c, r :
               req' = [req EXCEPT ![m] =
                  [NoRequest EXCEPT !.pc = "cancel", !.campaign = c, !.row = r]]
        BY <3>4 DEF CampaignCancel, Begin
      <4> DEFINE q == [NoRequest EXCEPT !.pc = "cancel", !.campaign = c, !.row = r]
      <4>2. q.actions = {} /\ q.items = {} /\ q.pc # "delete"
        BY DEF NoRequest
      <4>3. req' = [req EXCEPT ![m] = q]
        BY <4>1
      <4> HIDE DEF q
      <4>4. QED
        BY <4>2, <4>3
    <3>5. QED
      BY <1>3, <3>1, <3>2, <3>3, <3>4
  <2>3. InFlightEvidence'
    BY <1>i, <1>p, <2>1, <2>2, InFlightUpdate DEF OwnDeletion
  <2>4. QED
    BY <1>i, <2>1, <2>3, EvidenceKept
<1>4. ASSUME NEW m \in Managers, OpenCommit(m) PROVE Goal
  <2> DEFINE c == req[m].campaign
             s == req[m].row.scope
             new == {i \in ItemId : /\ i.campaign = c /\ i.opening = openings[c] + 1
                                    /\ i.row \in ScopeRows[s]}
  <2>1. /\ Finish(m) /\ remediation' = remediation /\ items' = items \cup new
        /\ contexts' = contexts \cup ({c} \X ScopeRows[s])
        /\ audit' = audit \cup {<<"campaign.opened", c>>}
        /\ decisions' = decisions
    BY <1>4 DEF OpenCommit, CapturedContexts
  <2>2. Keep
    BY <2>1, SupportKept DEF Grows
  <2>3. \A i \in new : OpeningRecorded(i)'
    BY <2>1 DEF OpeningRecorded
  <2>4. RemediationJustified' /\ OpenIsAtomic'
    BY <1>i, <2>1, <2>2, <2>3 DEF RemediationJustified, OpenIsAtomic
  <2>5. QED
    BY <1>i, <1>p, <2>1, <2>2, <2>4, FinishEvidence
<1>5. ASSUME NEW m \in Managers, CloseRead(m) PROVE Goal
  <2> DEFINE D == DecisionsOn(ItemsOf(req[m].campaign))
             A == RemediationFromDecisions(D)
             q == [req[m] EXCEPT !.pc = "close", !.actions = A]
  <2>1. Keep /\ remediation' = remediation /\ items' = items /\ decisions' = decisions
    BY <1>5, <1>k DEF CloseRead, tables
  <2>2. D \subseteq decisions
    BY DEF DecisionsOn
  <2>3. \A x \in A : Supported(x)'
    BY <1>i, <2>1, <2>2, RemediationJustifiedByInput DEF TypeOK, Supported
  <2>4. req' = [req EXCEPT ![m] = q] \/ Finish(m)
    BY <1>5 DEF CloseRead
  <2> HIDE DEF A
  <2>5. q.actions = A /\ q.items = req[m].items /\ q.pc = "close"
    BY <1>i, <1>p DEF TypeOK, Request
  <2>6. \A i \in q.items : OpeningRecorded(i)'
    BY <1>i, <1>p, <2>1, <2>5 DEF InFlightEvidence
  <2> HIDE DEF q
  <2>7. InFlightEvidence'
    BY <1>i, <1>p, <2>1, <2>3, <2>4, <2>5, <2>6, InFlightUpdate, FinishEvidence DEF OwnDeletion
  <2>8. QED
    BY <1>i, <2>1, <2>7, EvidenceKept
<1>6. ASSUME NEW m \in Managers, CloseCommit(m) PROVE Goal
  <2> DEFINE q == [req[m] EXCEPT !.pc = "remediate"]
  <2>1. Keep /\ remediation' = remediation /\ items' = items
    BY <1>6, <1>k DEF CloseCommit
  <2>2. q.actions = req[m].actions /\ q.items = req[m].items /\ q.pc = "remediate"
    BY <1>i, <1>p DEF TypeOK, Request
  <2>3. req' = [req EXCEPT ![m] = q]
    BY <1>6 DEF CloseCommit
  <2> HIDE DEF q
  <2>4. (\A x \in q.actions : Supported(x)') /\ (\A i \in q.items : OpeningRecorded(i)')
    BY <1>i, <1>p, <2>1, <2>2 DEF InFlightEvidence
  <2>5. QED
    BY <1>i, <1>p, <2>1, <2>2, <2>3, <2>4, InFlightUpdate, EvidenceKept DEF OwnDeletion
<1>7. ASSUME NEW m \in Managers, RemediationInsert(m) PROVE Goal
  <2>1. PICK x \in req[m].actions, n \in ActionIds :
           /\ remediation' = remediation \cup
                {[id |-> n, item |-> x.item, action |-> x.action, status |-> "pending"]}
           /\ req' = [req EXCEPT ![m] = [@ EXCEPT !.actions = req[m].actions \ {x}]]
    BY <1>7 DEF RemediationInsert
  <2> DEFINE q == [req[m] EXCEPT !.actions = req[m].actions \ {x}]
             r == [id |-> n, item |-> x.item, action |-> x.action, status |-> "pending"]
  <2>2. Keep /\ items' = items
    BY <1>7, <1>k DEF RemediationInsert
  <2>3. Supported(x)
    BY <1>i, <1>p DEF InFlightEvidence
  <2>4. Supported(r)
    BY <2>3 DEF Supported, Justifies
  <2>5. \A a \in remediation' : Supported(a)'
    BY <1>i, <2>1, <2>2, <2>4 DEF RemediationJustified
  <2>6. /\ q.actions \subseteq req[m].actions /\ q.items = req[m].items
        /\ q.pc = "remediate"
    BY <1>7, <1>i, <1>p DEF RemediationInsert, TypeOK, Request
  <2>7. req' = [req EXCEPT ![m] = q]
    BY <2>1
  <2> HIDE DEF q
  <2>8. (\A y \in q.actions : Supported(y)') /\ (\A i \in q.items : OpeningRecorded(i)')
    BY <1>i, <1>p, <2>2, <2>6 DEF InFlightEvidence
  <2>9. InFlightEvidence'
    BY <1>i, <1>p, <2>2, <2>6, <2>7, <2>8, InFlightUpdate DEF OwnDeletion
  <2>10. QED
    BY <1>i, <2>2, <2>5, <2>9 DEF RemediationJustified, OpenIsAtomic
<1>8. ASSUME NEW m \in Managers, CampaignDelete(m) PROVE Goal
  <2>1. PICK c \in Campaigns :
           req' = [req EXCEPT ![m] =
                [NoRequest EXCEPT !.pc = "delete", !.campaign = c,
                                  !.items = ItemsOf(c),
                                  !.decisions = DecisionsOn(ItemsOf(c)),
                                  !.contexts = contexts \cap ({c} \X Rows)]]
    BY <1>8 DEF CampaignDelete, Begin
  <2> DEFINE I == ItemsOf(c)
             D == DecisionsOn(I)
             K == contexts \cap ({c} \X Rows)
             q == [NoRequest EXCEPT !.pc = "delete", !.campaign = c, !.items = I,
                                    !.decisions = D, !.contexts = K]
  <2>2. Keep /\ remediation' = remediation /\ items' = items
    BY <1>8, <1>k DEF CampaignDelete, tables
  <2>3. I \subseteq items /\ (\A d \in D : d.item.campaign = c) /\ K \subseteq {c} \X Rows
    BY DEF ItemsOf, DecisionsOn
  <2>4. req' = [req EXCEPT ![m] = q]
    BY <2>1
  <2> HIDE DEF I, D, K
  <2>5. /\ q.actions = {} /\ q.items = I /\ q.decisions = D /\ q.contexts = K
        /\ q.campaign = c
    BY DEF NoRequest
  <2> HIDE DEF q
  <2>6. OwnDeletion(q) /\ \A i \in q.items : OpeningRecorded(i)'
    BY <1>i, <2>2, <2>3, <2>5 DEF OwnDeletion, OpenIsAtomic
  <2>7. QED
    BY <1>i, <1>p, <2>2, <2>4, <2>5, <2>6, InFlightUpdate, EvidenceKept
<1>9. ASSUME NEW m \in Managers, DeleteCommit(m) PROVE Goal
  <2>c. PICK c : c = req[m].campaign
    OBVIOUS
  <2>1. /\ Finish(m) /\ remediation' = remediation
        /\ items' \subseteq items
        /\ audit' = audit \cup {<<"campaign.deleted", c>>}
        /\ decisions' = decisions \ req[m].decisions
        /\ contexts' = contexts \ req[m].contexts
    BY <1>9, <2>c DEF DeleteCommit
  <2>2. OwnDeletion(req[m]) /\ req[m].pc = "delete"
    BY <1>9, <1>i, <1>p DEF DeleteCommit, InFlightEvidence, OwnDeletion
  <2>3. DeletionAudited(c)' /\ \A d : DeletionAudited(d) => DeletionAudited(d)'
    BY <2>1 DEF DeletionAudited
  <2>4. \A x : Supported(x) => Supported(x)'
    BY <2>c, <2>1, <2>2, <2>3 DEF Supported, OwnDeletion, Justifies
  <2>5. \A i : OpeningRecorded(i) => OpeningRecorded(i)'
    <3> TAKE i
    <3> HAVE OpeningRecorded(i)
    <3>1. <<i.campaign, i.row>> \in req[m].contexts => i.campaign = c
      BY <2>c, <2>2 DEF OwnDeletion
    <3>2. QED
      BY <2>1, <2>3, <3>1 DEF OpeningRecorded
  <2>6. RemediationJustified' /\ OpenIsAtomic'
    BY <1>i, <2>1, <2>4, <2>5 DEF RemediationJustified, OpenIsAtomic
  <2>7. QED
    BY <1>i, <1>p, <2>1, <2>4, <2>5, <2>6, FinishEvidence
<1>10. ASSUME NEW a \in People, ReviewDecision(a) PROVE Goal
  <2>1. Keep /\ remediation' = remediation /\ items' = items
    BY <1>10, <1>k DEF ReviewDecision, tables
  <2>2. PICK c, D : req' = [req EXCEPT ![a] = [NoRequest EXCEPT !.pc = "decide",
                                                  !.campaign = c, !.decisions = D]]
    BY <1>10 DEF ReviewDecision, Begin
  <2> DEFINE q == [NoRequest EXCEPT !.pc = "decide", !.campaign = c, !.decisions = D]
  <2>3. q.actions = {} /\ q.items = {} /\ OwnDeletion(q)
    BY DEF NoRequest, OwnDeletion
  <2>4. QED
    BY <1>i, <2>1, <2>2, <2>3, InFlightUpdate, EvidenceKept
<1>11. ASSUME NEW a \in People, DecisionCommit(a) PROVE Goal
  <2>1. Keep /\ remediation' = remediation /\ items' = items
    BY <1>11, SupportKept DEF DecisionCommit, Grows
  <2>2. \E e, c : ThenAudit(a, e, c)
    BY <1>11 DEF DecisionCommit
  <2>3. QED
    BY <1>i, <2>1, <2>2, ThenAuditEvidence, EvidenceKept
<1>12. ASSUME NEW m \in Managers, ReassignReviews(m) PROVE Goal
  <2>1. Keep /\ remediation' = remediation /\ items' = items
    BY <1>12, <1>k DEF ReassignReviews, tables
  <2>2. PICK I, R : /\ I \subseteq items
                    /\ req' = [req EXCEPT ![m] = [NoRequest EXCEPT !.pc = "reassign",
                                                     !.reviewers = R, !.items = I]]
    <3>1. PICK from \in People, to \in People :
           req' = [req EXCEPT ![m] =
              [NoRequest EXCEPT !.pc = "reassign", !.reviewers = [x \in Rows |-> to],
                 !.items = {i \in items : /\ reviewer[i] = from
                                          /\ i \notin Decided(decisions)
                                          /\ campaign[i.campaign].status = "open"}]]
      BY <1>12 DEF ReassignReviews, Begin
    <3> DEFINE I == {i \in items : /\ reviewer[i] = from
                                   /\ i \notin Decided(decisions)
                                   /\ campaign[i.campaign].status = "open"}
               R == [x \in Rows |-> to]
    <3>2. req' = [req EXCEPT ![m] = [NoRequest EXCEPT !.pc = "reassign",
                                                     !.reviewers = R, !.items = I]]
      BY <3>1
    <3>3. I \subseteq items
      OBVIOUS
    <3> HIDE DEF I, R
    <3>4. QED
      BY <3>2, <3>3
  <2> DEFINE q == [NoRequest EXCEPT !.pc = "reassign", !.reviewers = R, !.items = I]
  <2>3. q.actions = {} /\ q.items = I /\ OwnDeletion(q)
    BY DEF NoRequest, OwnDeletion
  <2> HIDE DEF q
  <2>4. \A i \in q.items : OpeningRecorded(i)'
    BY <1>i, <2>1, <2>2, <2>3 DEF OpenIsAtomic
  <2>5. req' = [req EXCEPT ![m] = q]
    BY <2>2 DEF q
  <2>6. QED
    BY <1>i, <1>p, <2>1, <2>3, <2>4, <2>5, InFlightUpdate, EvidenceKept
<1>13. ASSUME NEW m \in Managers, ReassignItem(m) PROVE Goal
  <2>1. PICK i \in req[m].items :
           /\ items' = items \cup {i}
           /\ req' = [req EXCEPT ![m] = [@ EXCEPT !.items = req[m].items \ {i}]]
    BY <1>13 DEF ReassignItem
  <2> DEFINE q == [req[m] EXCEPT !.items = req[m].items \ {i}]
  <2>2. Keep /\ remediation' = remediation
    BY <1>13, <1>k DEF ReassignItem
  <2>3. /\ q.actions = req[m].actions /\ q.items \subseteq req[m].items
        /\ q.pc = "reassign"
    BY <1>13, <1>i, <1>p DEF ReassignItem, TypeOK, Request
  <2>4. req' = [req EXCEPT ![m] = q]
    BY <2>1
  <2> HIDE DEF q
  <2>5. (\A y \in q.actions : Supported(y)') /\ (\A j \in q.items : OpeningRecorded(j)')
    BY <1>i, <1>p, <2>2, <2>3 DEF InFlightEvidence
  <2>6. OpeningRecorded(i)
    BY <1>i, <1>p DEF InFlightEvidence
  <2>7. RemediationJustified' /\ OpenIsAtomic'
    BY <1>i, <2>1, <2>2, <2>6 DEF RemediationJustified, OpenIsAtomic
  <2>8. QED
    BY <1>i, <1>p, <2>2, <2>3, <2>4, <2>5, <2>7, InFlightUpdate DEF OwnDeletion
<1>14. ASSUME NEW m \in Managers, RemediationFollowUp(m) PROVE Goal
  <2>1. PICK a \in remediation, s \in RemediationStatus :
           /\ remediation' = (remediation \ {a}) \cup {[a EXCEPT !.status = s]}
           /\ ThenAudit(m, "remediation.status_changed", a.item.campaign)
    BY <1>14 DEF RemediationFollowUp
  <2>2. Keep /\ items' = items
    BY <1>14, <1>k DEF RemediationFollowUp
  <2> DEFINE b == [a EXCEPT !.status = s]
  <2>3. b.item = a.item /\ b.action = a.action
    BY <1>i DEF TypeOK, RemediationAction
  <2> HIDE DEF b
  <2>4. Supported(b)
    BY <1>i, <2>3 DEF RemediationJustified, Supported, Justifies
  <2>5. RemediationJustified' /\ OpenIsAtomic'
    BY <1>i, <2>1, <2>2, <2>4 DEF RemediationJustified, OpenIsAtomic, b
  <2>6. QED
    BY <1>i, <1>p, <2>1, <2>2, <2>5, ThenAuditEvidence
<1>15. ASSUME NEW a \in People, RecordAudit(a) \/ Fail(a) PROVE Goal
  <2>1. Keep /\ remediation' = remediation /\ items' = items
    BY <1>15, SupportKept DEF RecordAudit, Fail, tables, Grows
  <2>2. Finish(a)
    BY <1>15 DEF RecordAudit, Fail
  <2>3. QED
    BY <1>i, <2>1, <2>2, FinishEvidence, EvidenceKept
<1>16. ASSUME Tick \/ UNCHANGED vars PROVE Goal
  <2>1. Keep /\ remediation' = remediation /\ items' = items /\ req' = req
    BY <1>16, <1>k DEF Tick, vars, tables
  <2>2. QED
    BY <1>i, <2>1, EvidenceKept DEF InFlightEvidence
<1>17. Goal
  BY <1>1, <1>2, <1>3, <1>4, <1>5, <1>6, <1>7, <1>8, <1>9, <1>10, <1>11, <1>12, <1>13,
     <1>14, <1>15, <1>16
  DEF Next, ManagerStep, ActorStep
<1>18. QED
  BY <1>t, <1>17 DEF EvidenceInv

(* Nobody is told to change a system without a decision that says so,      *)
(* however many managers close, decide, reassign and delete at once and    *)
(* whichever requests die half-way.                                        *)
THEOREM RemediationRestsOnDecisions == Spec => []RemediationJustified
<1>1. EvidenceInv => RemediationJustified
  BY DEF EvidenceInv
<1>2. QED
  BY <1>1, EvidenceInit, EvidenceStep, PTL DEF Spec

(* The opening transaction is all or nothing to every later reader, for    *)
(* any number of concurrent openings, reassignments and deletions.         *)
THEOREM OpeningIsAtomic == Spec => []OpenIsAtomic
<1>1. EvidenceInv => OpenIsAtomic
  BY DEF EvidenceInv
<1>2. QED
  BY <1>1, EvidenceInit, EvidenceStep, PTL DEF Spec

LEMMA DecisionsStep ==
  ASSUME EvidenceInv, [Next]_vars, NEW d \in decisions, d \notin decisions'
  PROVE  campaign'[d.item.campaign].status = "deleted"
<1>1. PICK m \in Managers : DeleteCommit(m)
  BY DEF Next, ManagerStep, ActorStep, CampaignCreate, CampaignUpdate, UpdateCommit,
     CampaignOpen, OpenCommit, CampaignClose, CloseRead, CloseCommit, RemediationInsert,
     RemediationDone, CampaignCancel, CancelCommit, CampaignDelete, ReassignReviews,
     ReassignItem, ReassignDone, RemediationFollowUp, ReviewDecision, DecisionCommit,
     RecordAudit, Fail, Tick, vars, tables
<1>2. m \in People /\ req[m].campaign \in Campaigns
  BY <1>1 DEF DeleteCommit, EvidenceInv, TypeOK, WellFormed, People
<1>3. d.item.campaign = req[m].campaign
  BY <1>1, <1>2 DEF DeleteCommit, EvidenceInv, InFlightEvidence
<1>4. campaign'[req[m].campaign] = DeletedRow
  BY <1>1, <1>2 DEF DeleteCommit, EvidenceInv, TypeOK
<1>5. QED
  BY <1>3, <1>4 DEF DeletedRow

(* A decision disappears only in the transaction that deletes its own      *)
(* campaign, whatever was read before it and whoever interleaves.          *)
THEOREM DecisionsAreAppendOnly == Spec => DecisionsAppendOnly
<1>1. EvidenceInv /\ [Next]_vars =>
        [\A d \in decisions : d \notin decisions' =>
            campaign'[d.item.campaign].status = "deleted"]_vars
  BY DecisionsStep
<1>2. QED
  BY <1>1, EvidenceInit, EvidenceStep, PTL DEF Spec, DecisionsAppendOnly

-----------------------------------------------------------------------------
(* When one account manages campaigns: however many reviewers decide       *)
(* meanwhile, wherever its requests die and however often it repeats them. *)
(* With a second manager none of the three theorems holds.                 *)

OneManager == \E m : Managers = {m}

Others == {"idle", "decide", "audit"}

LEMMA QuietCarriesNothing ==
  ASSUME NEW q, q.pc \in Others
  PROVE  Current(q) /\ Asking(q) /\ Current(q)' /\ Asking(q)'
BY DEF Current, Asking, Others

LEMMA QuietRequests ==
  ASSUME NEW e, NEW c
  PROVE  /\ NoRequest.pc = "idle"
         /\ [NoRequest EXCEPT !.pc = "audit", !.campaign = c, !.event = e].pc = "audit"
BY DEF NoRequest

(* An actor's request changes, decisions do not grow: uuids stay apart.    *)
LEMMA DifferKept ==
  ASSUME TypeOK, DecisionsDiffer, NEW a \in People, NEW q, req' = [req EXCEPT ![a] = q],
         q.pc # "decide", decisions' \subseteq decisions
  PROVE  DecisionsDiffer'
<1>1. \A b \in People : req'[b] = IF b = a THEN q ELSE req[b]
  BY DEF TypeOK
<1>2. ASSUME NEW b \in People, req'[b].pc = "decide" PROVE b # a /\ req'[b] = req[b]
  BY <1>1, <1>2
<1>3. \A d, e \in decisions' : d.uuid = e.uuid => d = e
  BY DEF DecisionsDiffer
<1>4. ASSUME NEW b \in People, req'[b].pc = "decide", NEW d \in req'[b].decisions
      PROVE  /\ \A e \in decisions' : e.uuid # d.uuid
             /\ \A x \in People : req'[x].pc = "decide" =>
                   \A e \in req'[x].decisions : e.uuid = d.uuid => b = x /\ e = d
  <2>1. req[b].pc = "decide" /\ d \in req[b].decisions
    BY <1>2, <1>4
  <2>2. \A e \in decisions : e.uuid # d.uuid
    BY <2>1 DEF DecisionsDiffer
  <2>3. \A x \in People : req[x].pc = "decide" =>
           \A e \in req[x].decisions : e.uuid = d.uuid => b = x /\ e = d
    BY <2>1 DEF DecisionsDiffer
  <2> QED BY <1>2, <2>2, <2>3
<1> QED BY <1>3, <1>4 DEF DecisionsDiffer

(* The latest decisions ask for at most one action on an item.             *)
LEMMA OneActionEach ==
  ASSUME NEW D \in SUBSET Decision, \A d, e \in D : d.uuid = e.uuid => d = e
  PROVE  /\ \A x, y \in RemediationFromDecisions(D) : x.item = y.item => x = y
         /\ \A x \in RemediationFromDecisions(D) : x.item \in Decided(D)
<1>1. ASSUME NEW d \in LatestDecisions(D), NEW e \in LatestDecisions(D), d.item = e.item
      PROVE  d = e
  <2>1. d \in D /\ e \in D /\ Later(d, e) /\ Later(e, d)
    BY <1>1 DEF LatestDecisions
  <2>2. d.at \in Nat /\ e.at \in Nat /\ d.uuid \in Nat /\ e.uuid \in Nat
    <3>1. d \in Decision /\ e \in Decision
      BY <2>1
    <3>2. d.at \in 0..MaxClock /\ e.at \in 0..MaxClock /\ d.uuid \in DecisionIds /\ e.uuid \in DecisionIds
      BY <3>1 DEF Decision
    <3>3. d.at \in Nat /\ e.at \in Nat
      BY <3>2
    <3>4. DecisionIds \subseteq Nat
      BY CampaignAssumption
    <3> QED BY <3>2, <3>3, <3>4
  <2>3. d.uuid = e.uuid
    BY <2>1, <2>2 DEF Later
  <2> QED BY <2>1, <2>3
<1>2. ASSUME NEW x \in RemediationFromDecisions(D)
      PROVE  \E d \in LatestDecisions(D) :
                \/ d.value = "revoke" /\ x = [item |-> d.item, action |-> "revoke"]
                \/ d.value = "approve" /\ x = [item |-> d.item, action |-> "grant"]
  BY DEF RemediationFromDecisions
<1>3. ASSUME NEW x \in RemediationFromDecisions(D), NEW y \in RemediationFromDecisions(D),
             x.item = y.item
      PROVE  x = y
  <2>1. PICK d \in LatestDecisions(D) :
                \/ d.value = "revoke" /\ x = [item |-> d.item, action |-> "revoke"]
                \/ d.value = "approve" /\ x = [item |-> d.item, action |-> "grant"]
    BY <1>2
  <2>2. PICK e \in LatestDecisions(D) :
                \/ e.value = "revoke" /\ y = [item |-> e.item, action |-> "revoke"]
                \/ e.value = "approve" /\ y = [item |-> e.item, action |-> "grant"]
    BY <1>2
  <2>3. d.item = e.item
    BY <1>3, <2>1, <2>2
  <2>4. d = e
    BY <1>1, <2>3
  <2> QED BY <2>1, <2>2, <2>4
<1>4. ASSUME NEW x \in RemediationFromDecisions(D) PROVE x.item \in Decided(D)
  <2>1. PICK d \in LatestDecisions(D) : x.item = d.item
    BY <1>2
  <2> QED BY <2>1 DEF LatestDecisions, Decided
<1> QED BY <1>3, <1>4

Recorded == \A a \in remediation : campaign[a.item.campaign].status \in {"closed", "deleted"}

Only(m) == \A a \in People : req[a].pc \in Others \/ a = m

(* The parts of SoleManagerInv, for the manager m.                         *)
LEMMA SoleParts ==
  ASSUME NEW m, Managers = {m}
  PROVE  SoleManagerInv <=>
            /\ Only(m)
            /\ Current(req[m]) /\ Asking(req[m])
            /\ Recorded
            /\ DecisionsDiffer
            /\ ClosedFullyDecided /\ EvidenceOfOpenedCampaign /\ AskedOnce
BY DEF SoleManagerInv, Only, Others, Recorded

Stays == /\ Recorded' /\ ClosedFullyDecided' /\ EvidenceOfOpenedCampaign' /\ AskedOnce'

LEMMA SolePartsNext ==
  ASSUME NEW m, Managers = {m}, Only(m)', NEW q, q = req'[m], Current(q)', Asking(q)', DecisionsDiffer', Stays
  PROVE  SoleManagerInv'
<1>1. Current(req[m])'
  BY DEF Current
<1>2. Asking(req[m])'
  BY DEF Asking
<1> QED BY <1>1, <1>2 DEF SoleManagerInv, Only, Others, Recorded, Stays

(* The manager's request becomes q.                                        *)
LEMMA ManagerMoves ==
  ASSUME NEW m, Managers = {m}, TypeOK, SoleManagerInv, NEW q, req' = [req EXCEPT ![m] = q],
         q.pc # "decide", decisions' \subseteq decisions,
         Current(q)', Asking(q)', Stays
  PROVE  SoleManagerInv'
<1>p. m \in People
  BY DEF People
<1>1. \A b \in People : req'[b] = IF b = m THEN q ELSE req[b]
  BY DEF TypeOK
<1>2. Only(m) /\ DecisionsDiffer
  BY SoleParts
<1>3. Only(m)'
  BY <1>1, <1>2 DEF Only
<1>4. DecisionsDiffer'
  BY <1>2, <1>p, DifferKept
<1>5. q = req'[m]
  BY <1>1, <1>p
<1> QED BY <1>3, <1>4, <1>5, SolePartsNext

(* Nothing the properties speak of is written.                             *)
LEMMA TablesStay ==
  ASSUME SoleManagerInv, NEW m, Managers = {m}, UNCHANGED <<campaign, items, remediation>>,
         decisions \subseteq decisions'
  PROVE  Stays
<1>1. Recorded /\ ClosedFullyDecided /\ EvidenceOfOpenedCampaign /\ AskedOnce
  BY SoleParts
<1> QED BY <1>1 DEF Stays, Recorded, ClosedFullyDecided, EvidenceOfOpenedCampaign, AskedOnce,
        OneItemPerRow, OneActionPerItem, Decided

LEMMA CurrentGrows ==
  ASSUME NEW q, Current(q), Asking(q), UNCHANGED <<campaign, items, remediation>>,
         decisions \subseteq decisions'
  PROVE  Current(q)' /\ Asking(q)'
<1>1. Asking(q)'
  BY DEF Asking
<1>2. ItemsOf(q.campaign)' = ItemsOf(q.campaign)
  BY DEF ItemsOf
<1>3. Decided(decisions) \subseteq Decided(decisions')
  BY DEF Decided
<1>4. Current(q)'
  BY <1>2, <1>3 DEF Current
<1> QED BY <1>1, <1>4

(* A step that only changes what the manager's request carries.            *)
LEMMA ManagerReads ==
  ASSUME NEW m, Managers = {m}, TypeOK, SoleManagerInv, UNCHANGED tables,
         NEW q, req' = [req EXCEPT ![m] = q], q.pc # "decide", Current(q), Asking(q)
  PROVE  SoleManagerInv'
<1>1. UNCHANGED <<campaign, items, remediation, decisions>>
  BY DEF tables
<1>2. Stays
  BY <1>1, TablesStay
<1>3. Current(q)' /\ Asking(q)'
  BY <1>1, CurrentGrows
<1> QED BY <1>1, <1>2, <1>3, ManagerMoves

(* What a manager's request reads holds of the tables when it reads them.  *)
LEMMA SoleBegins ==
  ASSUME NEW m, Managers = {m}, TypeOK, SoleManagerInv,
         \/ CampaignUpdate(m) \/ CampaignOpen(m) \/ CampaignClose(m) \/ CloseRead(m)
         \/ CampaignCancel(m) \/ CampaignDelete(m) \/ ReassignReviews(m)
         \/ RemediationDone(m) \/ ReassignDone(m)
  PROVE  SoleManagerInv'
<1>p. m \in People
  BY DEF People
<1>i. /\ Current(req[m]) /\ Asking(req[m]) /\ Recorded /\ DecisionsDiffer
  BY SoleParts
<1>1. CASE CampaignUpdate(m)
  <2>1. PICK c \in Campaigns, s \in Scopes, d \in {None} \cup Reviewers :
           /\ campaign[c].status = "draft"
           /\ req' = [req EXCEPT ![m] = [NoRequest EXCEPT !.pc = "update", !.campaign = c,
                         !.row = [campaign[c] EXCEPT !.scope = s, !.default = d]]]
    BY <1>1 DEF CampaignUpdate, Begin
  <2>2. campaign[c] \in LiveRow
    BY <2>1 DEF TypeOK, CampaignRow, NoRow, DeletedRow
  <2>3. PICK r : r = [campaign[c] EXCEPT !.scope = s, !.default = d]
    OBVIOUS
  <2>4. r.status = "draft"
    BY <2>1, <2>2, <2>3 DEF LiveRow
  <2> DEFINE q == [NoRequest EXCEPT !.pc = "update", !.campaign = c, !.row = r]
  <2>5. q.pc = "update" /\ q.campaign = c /\ q.row = r
    BY DEF NoRequest
  <2>6. req' = [req EXCEPT ![m] = q]
    BY <2>1, <2>3
  <2> HIDE DEF q
  <2>7. Current(q) /\ Asking(q)
    BY <2>1, <2>4, <2>5 DEF Current, Asking
  <2> QED BY <1>1, <2>5, <2>6, <2>7, ManagerReads DEF CampaignUpdate
<1>r. ASSUME NEW c \in Campaigns, NEW to, campaign[c].status \in {"draft", "open"}
      PROVE  [campaign[c] EXCEPT !.status = to].status = to
  <2>1. campaign[c] \in LiveRow
    BY <1>r DEF TypeOK, CampaignRow, NoRow, DeletedRow
  <2> QED BY <2>1 DEF LiveRow
<1>2. ASSUME NEW q, UNCHANGED tables, req' = [req EXCEPT ![m] = q],
             \/ q.pc = "open" /\ campaign[q.campaign].status = "draft" /\ q.row.status = "open"
             \/ q.pc = "close.read" /\ campaign[q.campaign].status = "open" /\ q.row.status = "closed"
             \/ q.pc = "cancel" /\ campaign[q.campaign].status = "draft" /\ q.row.status = "cancelled"
      PROVE  SoleManagerInv'
  <2>1. Current(q) /\ Asking(q) /\ q.pc # "decide"
    BY <1>2 DEF Current, Asking
  <2> QED BY <1>2, <2>1, ManagerReads
<1>3. CASE CampaignOpen(m)
  <2>1. PICK c, rev :
           /\ c \in Campaigns
           /\ campaign[c].status = "draft"
           /\ req' = [req EXCEPT ![m] = [NoRequest EXCEPT !.pc = "open", !.campaign = c,
                         !.row = [campaign[c] EXCEPT !.status = "open"], !.reviewers = rev]]
    BY <1>3 DEF CampaignOpen, Begin
  <2> DEFINE q == [NoRequest EXCEPT !.pc = "open", !.campaign = c,
                      !.row = [campaign[c] EXCEPT !.status = "open"], !.reviewers = rev]
  <2>2. q.pc = "open" /\ q.campaign = c /\ q.row.status = "open"
    <3>1. q.pc = "open" /\ q.campaign = c /\ q.row = [campaign[c] EXCEPT !.status = "open"]
      BY DEF NoRequest
    <3> QED BY <1>r, <2>1, <3>1
  <2>3. req' = [req EXCEPT ![m] = q] /\ UNCHANGED tables
    BY <1>3, <2>1 DEF CampaignOpen
  <2> HIDE DEF q
  <2> QED BY <1>2, <2>1, <2>2, <2>3
<1>4. CASE CampaignClose(m)
  <2>1. PICK c \in Campaigns :
           /\ campaign[c].status = "open"
           /\ req' = [req EXCEPT ![m] = [NoRequest EXCEPT !.pc = "close.read", !.campaign = c,
                         !.row = [campaign[c] EXCEPT !.status = "closed"]]]
    BY <1>4 DEF CampaignClose, Begin
  <2> DEFINE q == [NoRequest EXCEPT !.pc = "close.read", !.campaign = c,
                      !.row = [campaign[c] EXCEPT !.status = "closed"]]
  <2>2. q.pc = "close.read" /\ q.campaign = c /\ q.row.status = "closed"
    <3>1. q.pc = "close.read" /\ q.campaign = c /\ q.row = [campaign[c] EXCEPT !.status = "closed"]
      BY DEF NoRequest
    <3> QED BY <1>r, <2>1, <3>1
  <2>3. req' = [req EXCEPT ![m] = q] /\ UNCHANGED tables
    BY <1>4, <2>1 DEF CampaignClose
  <2> HIDE DEF q
  <2> QED BY <1>2, <2>1, <2>2, <2>3
<1>5. CASE CampaignCancel(m)
  <2>1. PICK c \in Campaigns :
           /\ campaign[c].status = "draft"
           /\ req' = [req EXCEPT ![m] = [NoRequest EXCEPT !.pc = "cancel", !.campaign = c,
                         !.row = [campaign[c] EXCEPT !.status = "cancelled"]]]
    BY <1>5 DEF CampaignCancel, Begin
  <2> DEFINE q == [NoRequest EXCEPT !.pc = "cancel", !.campaign = c,
                      !.row = [campaign[c] EXCEPT !.status = "cancelled"]]
  <2>2. q.pc = "cancel" /\ q.campaign = c /\ q.row.status = "cancelled"
    <3>1. q.pc = "cancel" /\ q.campaign = c /\ q.row = [campaign[c] EXCEPT !.status = "cancelled"]
      BY DEF NoRequest
    <3> QED BY <1>r, <2>1, <3>1
  <2>3. req' = [req EXCEPT ![m] = q] /\ UNCHANGED tables
    BY <1>5, <2>1 DEF CampaignCancel
  <2> HIDE DEF q
  <2> QED BY <1>2, <2>1, <2>2, <2>3
<1>6. ASSUME NEW q, req' = [req EXCEPT ![m] = q], q.pc \in {"idle", "audit"}, UNCHANGED tables
      PROVE  SoleManagerInv'
  <2>1. Current(q) /\ Asking(q) /\ q.pc # "decide"
    BY <1>6, QuietCarriesNothing DEF Others
  <2> QED BY <1>6, <2>1, ManagerReads
<1>7. CASE CloseRead(m)
  <2> DEFINE c == req[m].campaign
             I == ItemsOf(c)
  <2>1. req[m].pc = "close.read" /\ UNCHANGED tables /\ c \in Campaigns /\ req[m] \in Request
    BY <1>7, <1>p DEF CloseRead, TypeOK, WellFormed
  <2>2. CASE ~(I \subseteq Decided(DecisionsOn(I)))
    <3>1. req' = [req EXCEPT ![m] = NoRequest]
      BY <1>7, <2>2 DEF CloseRead, Finish
    <3> QED BY <1>6, <2>1, <3>1, QuietRequests
  <2>3. CASE I \subseteq Decided(DecisionsOn(I))
    <3> DEFINE D == DecisionsOn(I)
               q == [req[m] EXCEPT !.pc = "close", !.actions = RemediationFromDecisions(D)]
    <3>1. req' = [req EXCEPT ![m] = q]
      BY <1>7, <2>3 DEF CloseRead
    <3>2. /\ q.pc = "close" /\ q.campaign = c /\ q.row = req[m].row
          /\ q.actions = RemediationFromDecisions(D)
      BY <2>1 DEF Request
    <3>3. D \in SUBSET Decision /\ \A d, e \in D : d.uuid = e.uuid => d = e
      BY <1>i DEF DecisionsOn, TypeOK, DecisionsDiffer
    <3>4. /\ \A x, y \in q.actions : x.item = y.item => x = y
          /\ \A x \in q.actions : x.item \in Decided(D)
      BY <3>2, <3>3, OneActionEach
    <3>5. \A x \in Decided(D) : x.campaign = c
      BY DEF Decided, DecisionsOn, ItemsOf
    <3>6. campaign[c].status = "open" /\ req[m].row.status = "closed"
      BY <1>i, <2>1 DEF Current
    <3>7. \A x \in q.actions : x.item.campaign = c /\ \A a \in remediation : a.item # x.item
      BY <1>i, <3>4, <3>5, <3>6 DEF Recorded
    <3>8. I \subseteq Decided(decisions)
      BY <2>3 DEF Decided, DecisionsOn
    <3> HIDE DEF q
    <3>9. Asking(q)
      BY <3>2, <3>4, <3>7 DEF Asking
    <3>10. Current(q)
      BY <3>2, <3>6, <3>8 DEF Current
    <3> QED BY <2>1, <3>1, <3>2, <3>9, <3>10, ManagerReads
  <2> QED BY <2>2, <2>3
<1>8. CASE CampaignDelete(m)
  <2>1. PICK c \in Campaigns :
           req' = [req EXCEPT ![m] = [NoRequest EXCEPT !.pc = "delete", !.campaign = c,
                      !.items = ItemsOf(c), !.decisions = DecisionsOn(ItemsOf(c)),
                      !.contexts = contexts \cap ({c} \X Rows)]]
    BY <1>8 DEF CampaignDelete, Begin
  <2>2. PICK I, D, X : I = ItemsOf(c) /\ D = DecisionsOn(I) /\ X = contexts \cap ({c} \X Rows)
    OBVIOUS
  <2> DEFINE q == [NoRequest EXCEPT !.pc = "delete", !.campaign = c, !.items = I,
                                    !.decisions = D, !.contexts = X]
  <2>3. q.pc = "delete" /\ q.campaign = c /\ q.items = I /\ q.decisions = D
    BY DEF NoRequest
  <2>4. req' = [req EXCEPT ![m] = q] /\ UNCHANGED tables
    BY <1>8, <2>1, <2>2 DEF CampaignDelete
  <2>5. \A d \in D : d.item.campaign = c
    BY <2>2 DEF DecisionsOn, ItemsOf
  <2> HIDE DEF q
  <2>6. Current(q) /\ Asking(q)
    BY <2>2, <2>3, <2>5 DEF Current, Asking
  <2> QED BY <2>3, <2>4, <2>6, ManagerReads
<1>9. CASE ReassignReviews(m)
  <2>1. PICK from \in People, to \in People :
           req' = [req EXCEPT ![m] =
              [NoRequest EXCEPT !.pc = "reassign", !.reviewers = [x \in Rows |-> to],
                 !.items = {i \in items : /\ reviewer[i] = from
                                          /\ i \notin Decided(decisions)
                                          /\ campaign[i.campaign].status = "open"}]]
    BY <1>9 DEF ReassignReviews, Begin
  <2>2. PICK I, R : /\ I = {i \in items : /\ reviewer[i] = from
                                          /\ i \notin Decided(decisions)
                                          /\ campaign[i.campaign].status = "open"}
                    /\ R = [x \in Rows |-> to]
    OBVIOUS
  <2> DEFINE q == [NoRequest EXCEPT !.pc = "reassign", !.reviewers = R, !.items = I]
  <2>3. q.pc = "reassign" /\ q.items = I
    BY DEF NoRequest
  <2>4. req' = [req EXCEPT ![m] = q] /\ UNCHANGED tables
    BY <1>9, <2>1, <2>2 DEF ReassignReviews
  <2> HIDE DEF q
  <2>5. Current(q) /\ Asking(q)
    BY <2>2, <2>3 DEF Current, Asking
  <2> QED BY <2>3, <2>4, <2>5, ManagerReads
<1>10. CASE RemediationDone(m) \/ ReassignDone(m)
  <2>1. UNCHANGED tables /\ \E e, c : ThenAudit(m, e, c)
    BY <1>10 DEF RemediationDone, ReassignDone
  <2>2. PICK e, c : req' = [req EXCEPT ![m] = [NoRequest EXCEPT !.pc = "audit", !.campaign = c,
                                                                !.event = e]]
    BY <2>1 DEF ThenAudit
  <2> QED BY <1>6, <2>1, <2>2, QuietRequests
<1> QED BY <1>1, <1>3, <1>4, <1>5, <1>7, <1>8, <1>9, <1>10

(* The row of a campaign without review items or actions is written.       *)
LEMMA UnopenedRow ==
  ASSUME TypeOK, SoleManagerInv, NEW m, Managers = {m},
         NEW c \in Campaigns, NEW r, campaign' = [campaign EXCEPT ![c] = r],
         campaign[c].status \in {"absent", "draft"},
         UNCHANGED <<items, remediation, decisions>>
  PROVE  Stays
<1>i. Recorded /\ ClosedFullyDecided /\ EvidenceOfOpenedCampaign /\ AskedOnce
  BY SoleParts
<1>1. \A d \in Campaigns : campaign'[d] = IF d = c THEN r ELSE campaign[d]
  BY DEF TypeOK
<1>2. \A i \in items : i.campaign \in Campaigns /\ i.campaign # c
  BY <1>i DEF EvidenceOfOpenedCampaign, TypeOK, ItemId
<1>3. \A a \in remediation : a.item.campaign \in Campaigns /\ a.item.campaign # c
  BY <1>i DEF Recorded, TypeOK, RemediationAction, ItemId
<1>4. Recorded'
  BY <1>i, <1>1, <1>3 DEF Recorded
<1>5. ClosedFullyDecided' /\ EvidenceOfOpenedCampaign'
  BY <1>i, <1>1, <1>2 DEF ClosedFullyDecided, EvidenceOfOpenedCampaign, Decided
<1>6. AskedOnce'
  BY <1>i DEF AskedOnce, OneItemPerRow, OneActionPerItem
<1> QED BY <1>4, <1>5, <1>6 DEF Stays

LEMMA SoleRowCommits ==
  ASSUME NEW m, Managers = {m}, TypeOK, SoleManagerInv,
         CampaignCreate(m) \/ UpdateCommit(m) \/ CancelCommit(m)
  PROVE  SoleManagerInv'
<1>p. m \in People
  BY DEF People
<1>i. Current(req[m])
  BY SoleParts
<1>1. PICK c, r : /\ c \in Campaigns
                  /\ campaign' = [campaign EXCEPT ![c] = r]
                  /\ campaign[c].status \in {"absent", "draft"}
  <2>1. CASE CampaignCreate(m)
    <3>1. NoRow.status = "absent"
      BY DEF NoRow
    <3> QED BY <2>1, <3>1 DEF CampaignCreate
  <2>2. CASE UpdateCommit(m)
    <3>1. req[m].campaign \in Campaigns /\ campaign[req[m].campaign].status = "draft"
      BY <1>i, <1>p, <2>2 DEF UpdateCommit, TypeOK, WellFormed, Current
    <3> QED BY <2>2, <3>1 DEF UpdateCommit
  <2>3. CASE CancelCommit(m)
    <3>1. req[m].campaign \in Campaigns /\ campaign[req[m].campaign].status = "draft"
      BY <1>i, <1>p, <2>3 DEF CancelCommit, TypeOK, WellFormed, Current
    <3> QED BY <2>3, <3>1 DEF CancelCommit
  <2> QED BY <2>1, <2>2, <2>3
<1>2. UNCHANGED <<items, remediation, decisions>> /\ \E e, d : ThenAudit(m, e, d)
  BY DEF CampaignCreate, UpdateCommit, CancelCommit
<1>3. Stays
  BY <1>1, <1>2, UnopenedRow
<1>4. PICK e, d : req' = [req EXCEPT ![m] = [NoRequest EXCEPT !.pc = "audit", !.campaign = d,
                                                              !.event = e]]
  BY <1>2 DEF ThenAudit
<1> DEFINE q == [NoRequest EXCEPT !.pc = "audit", !.campaign = d, !.event = e]
<1>5. q.pc = "audit" /\ req' = [req EXCEPT ![m] = q]
  BY <1>4, QuietRequests
<1> HIDE DEF q
<1>6. Current(q)' /\ Asking(q)' /\ q.pc # "decide"
  BY <1>5, QuietCarriesNothing DEF Others
<1> QED BY <1>2, <1>3, <1>5, <1>6, ManagerMoves

(* The opening: a draft has no items, so each row gets its first one.      *)
LEMMA SoleOpening ==
  ASSUME NEW m, Managers = {m}, TypeOK, SoleManagerInv, OpenCommit(m)
  PROVE  SoleManagerInv'
<1>p. m \in People
  BY DEF People
<1>i. /\ Current(req[m]) /\ Recorded /\ ClosedFullyDecided /\ EvidenceOfOpenedCampaign
      /\ OneItemPerRow /\ OneActionPerItem
  BY SoleParts DEF AskedOnce
<1> DEFINE c == req[m].campaign
           r == req[m].row
           n == openings[c] + 1
           new == {i \in ItemId : i.campaign = c /\ i.opening = n /\ i.row \in ScopeRows[r.scope]}
<1>1. /\ c \in Campaigns /\ campaign[c].status = "draft" /\ r.status = "open"
      /\ campaign' = [campaign EXCEPT ![c] = r] /\ items' = items \cup new
      /\ UNCHANGED <<remediation, decisions>> /\ req' = [req EXCEPT ![m] = NoRequest]
  BY <1>i, <1>p DEF OpenCommit, Finish, TypeOK, WellFormed, Current
<1>2. \A d \in Campaigns : campaign'[d] = IF d = c THEN r ELSE campaign[d]
  BY <1>1 DEF TypeOK
<1>3. \A i \in items : i.campaign \in Campaigns /\ i.campaign # c
  BY <1>i, <1>1 DEF EvidenceOfOpenedCampaign, TypeOK, ItemId
<1>4. \A i \in new : i \in ItemId /\ i.campaign = c /\ i.opening = n
  OBVIOUS
<1>5. Recorded'
  <2>1. \A a \in remediation : a.item.campaign \in Campaigns /\ a.item.campaign # c
    BY <1>i, <1>1 DEF Recorded, TypeOK, RemediationAction, ItemId
  <2> QED BY <1>i, <1>1, <1>2, <2>1 DEF Recorded
<1> HIDE DEF c, r, n, new
<1>6. ClosedFullyDecided' /\ EvidenceOfOpenedCampaign'
  BY <1>i, <1>1, <1>2, <1>3, <1>4 DEF ClosedFullyDecided, EvidenceOfOpenedCampaign
<1>7. AskedOnce'
  <2>1. ASSUME NEW i \in items', NEW j \in items', i.campaign = j.campaign, i.row = j.row
        PROVE  i = j
    <3>1. CASE i \in items /\ j \in items
      BY <1>i, <2>1, <3>1 DEF OneItemPerRow
    <3>2. CASE i \in new /\ j \in new
      BY <1>4, <2>1, <3>2 DEF ItemId
    <3> QED BY <1>1, <1>3, <1>4, <2>1, <3>1, <3>2
  <2> QED BY <1>i, <1>1, <2>1 DEF AskedOnce, OneItemPerRow, OneActionPerItem
<1>8. Stays
  BY <1>5, <1>6, <1>7 DEF Stays
<1>9. NoRequest.pc # "decide" /\ Current(NoRequest)' /\ Asking(NoRequest)'
  BY QuietRequests, QuietCarriesNothing DEF Others
<1> QED BY <1>1, <1>8, <1>9, ManagerMoves

(* The close: what it checked still holds, whatever reviewers did since.   *)
LEMMA SoleClose ==
  ASSUME NEW m, Managers = {m}, TypeOK, SoleManagerInv, CloseCommit(m)
  PROVE  SoleManagerInv'
<1>p. m \in People
  BY DEF People
<1>i. /\ Current(req[m]) /\ Asking(req[m]) /\ Recorded /\ ClosedFullyDecided
      /\ EvidenceOfOpenedCampaign /\ AskedOnce
  BY SoleParts
<1>0. PICK c, r, A : c = req[m].campaign /\ r = req[m].row /\ A = req[m].actions
  OBVIOUS
<1>1. /\ c \in Campaigns /\ campaign[c].status = "open" /\ r.status = "closed"
      /\ ItemsOf(c) \subseteq Decided(decisions)
      /\ campaign' = [campaign EXCEPT ![c] = r]
      /\ UNCHANGED <<items, remediation, decisions>>
      /\ req' = [req EXCEPT ![m] = [req[m] EXCEPT !.pc = "remediate"]]
  BY <1>0, <1>i, <1>p DEF CloseCommit, TypeOK, WellFormed, Current
<1>2. \A d \in Campaigns : campaign'[d] = IF d = c THEN r ELSE campaign[d]
  BY <1>1 DEF TypeOK
<1>3. /\ \A i \in items : i.campaign \in Campaigns
      /\ \A a \in remediation : a.item.campaign \in Campaigns
  BY DEF TypeOK, RemediationAction, ItemId
<1>4. Recorded'
  BY <1>i, <1>1, <1>2, <1>3 DEF Recorded
<1>5. ClosedFullyDecided'
  BY <1>i, <1>1, <1>2, <1>3 DEF ClosedFullyDecided, ItemsOf, Decided
<1>6. EvidenceOfOpenedCampaign'
  BY <1>i, <1>1, <1>2, <1>3 DEF EvidenceOfOpenedCampaign
<1>7. AskedOnce'
  BY <1>i, <1>1 DEF AskedOnce, OneItemPerRow, OneActionPerItem
<1> DEFINE q == [req[m] EXCEPT !.pc = "remediate"]
<1>8. q.pc = "remediate" /\ q.campaign = c /\ q.actions = A /\ req' = [req EXCEPT ![m] = q]
  BY <1>0, <1>1, <1>p DEF TypeOK, Request
<1>9. PICK q0 : q0 = q
  OBVIOUS
<1> HIDE DEF q
<1>10. campaign'[c].status = "closed"
  BY <1>1, <1>2
<1>11. Current(q0)'
  BY <1>8, <1>9, <1>10 DEF Current
<1>12. /\ \A x, y \in A : x.item = y.item => x = y
       /\ \A x \in A : x.item.campaign = c /\ \A a \in remediation : a.item # x.item
  BY <1>0, <1>i DEF Asking, CloseCommit
<1>13. Asking(q0)'
  BY <1>1, <1>8, <1>9, <1>12 DEF Asking
<1>14. q0.pc # "decide" /\ req' = [req EXCEPT ![m] = q0] /\ decisions' \subseteq decisions
  BY <1>1, <1>8, <1>9
<1>15. Stays
  BY <1>4, <1>5, <1>6, <1>7 DEF Stays
<1> QED BY <1>11, <1>13, <1>14, <1>15, ManagerMoves

(* One action is inserted: the others are for other items.                 *)
LEMMA SoleInsert ==
  ASSUME NEW m, Managers = {m}, TypeOK, SoleManagerInv, RemediationInsert(m)
  PROVE  SoleManagerInv'
<1>p. m \in People
  BY DEF People
<1>i. /\ Current(req[m]) /\ Asking(req[m]) /\ Recorded /\ ClosedFullyDecided
      /\ EvidenceOfOpenedCampaign /\ OneItemPerRow /\ OneActionPerItem
  BY SoleParts DEF AskedOnce
<1>0. PICK c, A : c = req[m].campaign /\ A = req[m].actions
  OBVIOUS
<1>1. PICK x \in A, n \in ActionIds :
         /\ remediation' = remediation \cup
              {[id |-> n, item |-> x.item, action |-> x.action, status |-> "pending"]}
         /\ req' = [req EXCEPT ![m] = [req[m] EXCEPT !.actions = A \ {x}]]
  BY <1>0 DEF RemediationInsert
<1>2. PICK new : new = [id |-> n, item |-> x.item, action |-> x.action, status |-> "pending"]
  OBVIOUS
<1>3. remediation' = remediation \cup {new} /\ new.item = x.item
  BY <1>1, <1>2
<1>4. UNCHANGED <<campaign, items, decisions>> /\ req[m].pc = "remediate" /\ campaign[c].status = "closed"
  BY <1>0, <1>i DEF RemediationInsert, Current
<1>5. /\ \A y, z \in A : y.item = z.item => y = z
      /\ \A y \in A : y.item.campaign = c /\ \A a \in remediation : a.item # y.item
  BY <1>0, <1>4, <1>i DEF Asking
<1>6. Recorded'
  BY <1>i, <1>3, <1>4, <1>5 DEF Recorded
<1>7. OneActionPerItem'
  BY <1>i, <1>3, <1>5 DEF OneActionPerItem
<1>8. Stays
  BY <1>i, <1>4, <1>6, <1>7 DEF Stays, ClosedFullyDecided, EvidenceOfOpenedCampaign, AskedOnce,
     OneItemPerRow, Decided
<1> DEFINE q == [req[m] EXCEPT !.actions = A \ {x}]
<1>9. q.pc = "remediate" /\ q.campaign = c /\ q.actions = A \ {x}
  BY <1>0, <1>4, <1>p DEF TypeOK, Request
<1>10. PICK q0 : q0 = q
  OBVIOUS
<1>11. req' = [req EXCEPT ![m] = q0]
  BY <1>1, <1>10
<1> HIDE DEF q
<1>12. Current(q0)'
  BY <1>4, <1>9, <1>10 DEF Current
<1>13. /\ \A y, z \in q0.actions : y.item = z.item => y = z
       /\ \A y \in q0.actions : y.item.campaign = c /\ \A a \in remediation' : a.item # y.item
  BY <1>3, <1>5, <1>9, <1>10
<1>14. Asking(q0)'
  BY <1>9, <1>10, <1>13 DEF Asking
<1>15. q0.pc # "decide" /\ decisions' \subseteq decisions
  BY <1>4, <1>9, <1>10
<1> QED BY <1>8, <1>11, <1>12, <1>14, <1>15, ManagerMoves

(* A deletion takes all of its campaign's items, and no other's decisions. *)
LEMMA SoleDelete ==
  ASSUME NEW m, Managers = {m}, TypeOK, SoleManagerInv, DeleteCommit(m)
  PROVE  SoleManagerInv'
<1>p. m \in People
  BY DEF People
<1>i. /\ Current(req[m]) /\ Recorded /\ ClosedFullyDecided
      /\ EvidenceOfOpenedCampaign /\ OneItemPerRow /\ OneActionPerItem
  BY SoleParts DEF AskedOnce
<1>0. PICK c, I, D : c = req[m].campaign /\ I = req[m].items /\ D = req[m].decisions
  OBVIOUS
<1>1. /\ c \in Campaigns /\ ItemsOf(c) \subseteq I /\ \A d \in D : d.item.campaign = c
      /\ items' = items \ I /\ decisions' = decisions \ D
      /\ campaign' = [campaign EXCEPT ![c] = DeletedRow]
      /\ UNCHANGED remediation /\ req' = [req EXCEPT ![m] = NoRequest]
  BY <1>0, <1>i, <1>p DEF DeleteCommit, Finish, TypeOK, WellFormed, Current
<1>2. \A d \in Campaigns : campaign'[d] = IF d = c THEN DeletedRow ELSE campaign[d]
  BY <1>1 DEF TypeOK
<1>3. DeletedRow.status = "deleted"
  BY DEF DeletedRow
<1>4. Recorded'
  <2>1. \A a \in remediation : a.item.campaign \in Campaigns
    BY DEF TypeOK, RemediationAction, ItemId
  <2> QED BY <1>i, <1>1, <1>2, <1>3, <2>1 DEF Recorded
<1>5. \A i \in items' : i \in items /\ i.campaign \in Campaigns /\ i.campaign # c
  BY <1>1 DEF ItemsOf, TypeOK, ItemId
<1>6. EvidenceOfOpenedCampaign'
  BY <1>i, <1>2, <1>5 DEF EvidenceOfOpenedCampaign
<1>7. ClosedFullyDecided'
  <2>1. ASSUME NEW i \in items', campaign'[i.campaign].status = "closed" PROVE i \in Decided(decisions')
    <3>1. i \in Decided(decisions)
      BY <1>i, <1>2, <1>5, <2>1 DEF ClosedFullyDecided
    <3>2. PICK d \in decisions : d.item = i
      BY <3>1 DEF Decided
    <3>3. d \in decisions'
      BY <1>1, <1>5, <3>2
    <3> QED BY <3>2, <3>3 DEF Decided
  <2> QED BY <2>1 DEF ClosedFullyDecided
<1>8. AskedOnce'
  BY <1>i, <1>1 DEF AskedOnce, OneItemPerRow, OneActionPerItem
<1>9. Stays
  BY <1>4, <1>6, <1>7, <1>8 DEF Stays
<1>10. NoRequest.pc # "decide" /\ Current(NoRequest)' /\ Asking(NoRequest)' /\ decisions' \subseteq decisions
  BY <1>1, QuietRequests, QuietCarriesNothing DEF Others
<1> QED BY <1>1, <1>9, <1>10, ManagerMoves

(* A reassigned item was there, so upserting it adds none.                 *)
LEMMA SoleReassign ==
  ASSUME NEW m, Managers = {m}, TypeOK, SoleManagerInv, ReassignItem(m)
  PROVE  SoleManagerInv'
<1>p. m \in People
  BY DEF People
<1>i. Current(req[m])
  BY SoleParts
<1>0. PICK I : I = req[m].items
  OBVIOUS
<1>1. PICK i \in I : /\ items' = items \cup {i}
                     /\ req' = [req EXCEPT ![m] = [req[m] EXCEPT !.items = I \ {i}]]
  BY <1>0 DEF ReassignItem
<1>2. req[m].pc = "reassign" /\ I \subseteq items /\ UNCHANGED <<campaign, remediation, decisions>>
  BY <1>0, <1>i DEF ReassignItem, Current
<1>3. items' = items
  BY <1>1, <1>2
<1>4. Stays
  BY <1>2, <1>3, TablesStay
<1> DEFINE q == [req[m] EXCEPT !.items = I \ {i}]
<1>5. q.pc = "reassign" /\ q.items = I \ {i}
  BY <1>2, <1>p DEF TypeOK, Request
<1>6. PICK q0 : q0 = q
  OBVIOUS
<1>7. req' = [req EXCEPT ![m] = q0]
  BY <1>1, <1>6
<1> HIDE DEF q
<1>8. Current(q0)' /\ Asking(q0)' /\ q0.pc # "decide" /\ decisions' \subseteq decisions
  BY <1>2, <1>3, <1>5, <1>6 DEF Current, Asking
<1> QED BY <1>4, <1>7, <1>8, ManagerMoves

(* The follow-up of an action keeps its item.                              *)
LEMMA SoleFollowUp ==
  ASSUME NEW m, Managers = {m}, TypeOK, SoleManagerInv, RemediationFollowUp(m)
  PROVE  SoleManagerInv'
<1>i. /\ Recorded /\ ClosedFullyDecided /\ EvidenceOfOpenedCampaign /\ OneItemPerRow /\ OneActionPerItem
  BY SoleParts DEF AskedOnce
<1>1. PICK a \in remediation, s \in RemediationStatus :
         /\ remediation' = (remediation \ {a}) \cup {[a EXCEPT !.status = s]}
         /\ ThenAudit(m, "remediation.status_changed", a.item.campaign)
  BY DEF RemediationFollowUp
<1>2. PICK b : b = [a EXCEPT !.status = s]
  OBVIOUS
<1>3. b.item = a.item /\ remediation' = (remediation \ {a}) \cup {b}
  BY <1>1, <1>2 DEF TypeOK, RemediationAction
<1>4. UNCHANGED <<campaign, items, decisions>>
  BY DEF RemediationFollowUp
<1>5. Recorded'
  BY <1>i, <1>3, <1>4 DEF Recorded
<1>6. OneActionPerItem'
  BY <1>i, <1>3 DEF OneActionPerItem
<1>7. Stays
  BY <1>i, <1>4, <1>5, <1>6 DEF Stays, ClosedFullyDecided, EvidenceOfOpenedCampaign, AskedOnce,
     OneItemPerRow, Decided
<1>8. PICK q : /\ q = [NoRequest EXCEPT !.pc = "audit", !.campaign = a.item.campaign,
                                        !.event = "remediation.status_changed"]
               /\ req' = [req EXCEPT ![m] = q]
  BY <1>1 DEF ThenAudit
<1>9. q.pc = "audit"
  BY <1>8, QuietRequests
<1>10. Current(q)' /\ Asking(q)' /\ q.pc # "decide" /\ decisions' \subseteq decisions
  BY <1>4, <1>9, QuietCarriesNothing DEF Others
<1> QED BY <1>7, <1>8, <1>10, ManagerMoves

(* Anybody's request becomes a quiet one, and decisions only grow.         *)
LEMMA ActorMoves ==
  ASSUME NEW m, Managers = {m}, TypeOK, SoleManagerInv, NEW a \in People, NEW q,
         req' = [req EXCEPT ![a] = q], q.pc \in Others,
         UNCHANGED <<campaign, items, remediation>>, decisions \subseteq decisions', DecisionsDiffer'
  PROVE  SoleManagerInv'
<1>p. m \in People
  BY DEF People
<1>1. \A b \in People : req'[b] = IF b = a THEN q ELSE req[b]
  BY DEF TypeOK
<1>2. Only(m) /\ Current(req[m]) /\ Asking(req[m])
  BY SoleParts
<1>3. Only(m)'
  BY <1>1, <1>2 DEF Only
<1>4. PICK r : r = req'[m]
  OBVIOUS
<1>5. Current(r)' /\ Asking(r)'
  <2>1. CASE a = m
    BY <1>1, <1>4, <1>p, <2>1, QuietCarriesNothing
  <2>2. CASE a # m
    <3>1. r = req[m]
      BY <1>1, <1>4, <1>p, <2>2
    <3> QED BY <1>2, <3>1, CurrentGrows
  <2> QED BY <2>1, <2>2
<1>6. Stays
  BY TablesStay
<1> QED BY <1>3, <1>4, <1>5, <1>6, SolePartsNext

LEMMA SoleActors ==
  ASSUME NEW m, Managers = {m}, TypeOK, SoleManagerInv, NEW a \in People, ActorStep(a)
  PROVE  SoleManagerInv'
<1>i. DecisionsDiffer
  BY SoleParts
<1>1. CASE ReviewDecision(a)
  <2>1. PICK i \in items, v \in DecisionValue, u \in DecisionIds :
           /\ \A d \in decisions : d.uuid # u
           /\ \A b \in People : \A d \in req[b].decisions : d.uuid # u
           /\ req' = [req EXCEPT ![a] = [NoRequest EXCEPT !.pc = "decide",
                         !.campaign = i.campaign,
                         !.decisions = {[item |-> i, value |-> v, at |-> clock, uuid |-> u]}]]
    BY <1>1 DEF ReviewDecision, Begin
  <2>2. PICK new : new = [item |-> i, value |-> v, at |-> clock, uuid |-> u]
    OBVIOUS
  <2> DEFINE q == [NoRequest EXCEPT !.pc = "decide", !.campaign = i.campaign, !.decisions = {new}]
  <2>3. q.pc = "decide" /\ q.decisions = {new}
    BY DEF NoRequest
  <2>4. PICK q0 : q0 = q
    OBVIOUS
  <2>5. req' = [req EXCEPT ![a] = q0] /\ q0.pc = "decide" /\ q0.decisions = {new} /\ new.uuid = u
    BY <2>1, <2>2, <2>3, <2>4
  <2>6. UNCHANGED <<campaign, items, remediation, decisions>>
    BY <1>1 DEF ReviewDecision, tables
  <2>7. \A b \in People : req'[b] = IF b = a THEN q0 ELSE req[b]
    BY <2>5 DEF TypeOK
  <2>8. ASSUME NEW b \in People, req'[b].pc = "decide", NEW d \in req'[b].decisions
        PROVE  /\ \A e \in decisions : e.uuid # d.uuid
               /\ \A x \in People : req'[x].pc = "decide" =>
                     \A e \in req'[x].decisions : e.uuid = d.uuid => b = x /\ e = d
    <3>1. CASE b = a
      <4>1. d = new
        BY <2>5, <2>7, <2>8, <3>1
      <4> QED BY <2>1, <2>5, <2>7, <3>1, <4>1
    <3>2. CASE b # a
      <4>1. req[b].pc = "decide" /\ d \in req[b].decisions /\ d.uuid # u
        BY <2>1, <2>7, <2>8, <3>2
      <4>2. /\ \A e \in decisions : e.uuid # d.uuid
            /\ \A x \in People : req[x].pc = "decide" =>
                  \A e \in req[x].decisions : e.uuid = d.uuid => b = x /\ e = d
        BY <1>i, <4>1 DEF DecisionsDiffer
      <4> QED BY <2>5, <2>7, <4>1, <4>2
    <3> QED BY <3>1, <3>2
  <2>9. DecisionsDiffer'
    BY <1>i, <2>6, <2>8 DEF DecisionsDiffer
  <2> QED BY <2>5, <2>6, <2>9, ActorMoves DEF Others
<1>2. CASE DecisionCommit(a)
  <2>1. PICK D : D = req[a].decisions
    OBVIOUS
  <2>2. /\ req[a].pc = "decide" /\ decisions' = decisions \cup D
        /\ UNCHANGED <<campaign, items, remediation>>
    BY <1>2, <2>1 DEF DecisionCommit
  <2>3. PICK q : /\ q.pc = "audit" /\ req' = [req EXCEPT ![a] = q]
    <3>1. PICK c : req' = [req EXCEPT ![a] = [NoRequest EXCEPT !.pc = "audit", !.campaign = c,
                                                 !.event = "review.decision_recorded"]]
      BY <1>2 DEF DecisionCommit, ThenAudit
    <3> QED BY <3>1, QuietRequests
  <2>4. \A b \in People : req'[b] = IF b = a THEN q ELSE req[b]
    BY <2>3 DEF TypeOK
  <2>5. /\ \A d, e \in D : d.uuid = e.uuid => d = e
        /\ \A d \in D : \A e \in decisions : e.uuid # d.uuid
    BY <1>i, <2>1, <2>2 DEF DecisionsDiffer
  <2>6. \A d, e \in decisions' : d.uuid = e.uuid => d = e
    BY <1>i, <2>2, <2>5 DEF DecisionsDiffer
  <2>7. ASSUME NEW b \in People, req'[b].pc = "decide", NEW d \in req'[b].decisions
        PROVE  /\ \A e \in decisions' : e.uuid # d.uuid
               /\ \A x \in People : req'[x].pc = "decide" =>
                     \A e \in req'[x].decisions : e.uuid = d.uuid => b = x /\ e = d
    <3>1. b # a /\ req[b].pc = "decide" /\ d \in req[b].decisions
      BY <2>3, <2>4, <2>7
    <3>2. /\ \A e \in decisions : e.uuid # d.uuid
          /\ \A x \in People : req[x].pc = "decide" =>
                \A e \in req[x].decisions : e.uuid = d.uuid => b = x /\ e = d
      BY <1>i, <3>1 DEF DecisionsDiffer
    <3>3. \A e \in D : e.uuid # d.uuid
      BY <2>1, <2>2, <3>1, <3>2
    <3> QED BY <2>2, <2>3, <2>4, <3>2, <3>3
  <2>8. DecisionsDiffer'
    BY <2>6, <2>7 DEF DecisionsDiffer
  <2> QED BY <2>2, <2>3, <2>8, ActorMoves DEF Others
<1>3. CASE RecordAudit(a) \/ Fail(a)
  <2>1. req' = [req EXCEPT ![a] = NoRequest] /\ UNCHANGED <<campaign, items, remediation, decisions>>
    BY <1>3 DEF RecordAudit, Fail, Finish, tables
  <2>2. NoRequest.pc = "idle"
    BY QuietRequests
  <2>3. DecisionsDiffer'
    BY <1>i, <2>1, <2>2, DifferKept
  <2> QED BY <2>1, <2>2, <2>3, ActorMoves DEF Others
<1> QED BY <1>1, <1>2, <1>3 DEF ActorStep

LEMMA SoleInit ==
  ASSUME NEW m, Managers = {m}, Init
  PROVE  SoleManagerInv
<1>1. NoRequest.pc = "idle" /\ m \in People
  BY QuietRequests DEF People
<1>2. \A a \in People : req[a] = NoRequest
  BY DEF Init
<1>3. Current(req[m]) /\ Asking(req[m]) /\ Only(m)
  BY <1>1, <1>2, QuietCarriesNothing DEF Only, Others
<1>4. DecisionsDiffer
  BY <1>1, <1>2 DEF Init, DecisionsDiffer
<1>5. Recorded /\ ClosedFullyDecided /\ EvidenceOfOpenedCampaign /\ AskedOnce
  BY DEF Init, Recorded, ClosedFullyDecided, EvidenceOfOpenedCampaign, AskedOnce, OneItemPerRow,
     OneActionPerItem
<1> QED BY <1>3, <1>4, <1>5, SoleParts

LEMMA SoleStep ==
  ASSUME NEW m, Managers = {m}, TypeOK, SoleManagerInv, [Next]_vars
  PROVE  SoleManagerInv'
<1>1. CASE ManagerStep(m)
  BY <1>1, SoleBegins, SoleRowCommits, SoleOpening, SoleClose, SoleInsert, SoleDelete, SoleReassign,
     SoleFollowUp DEF ManagerStep
<1>2. CASE Tick \/ UNCHANGED vars
  <2>1. UNCHANGED <<campaign, items, remediation, decisions, req>>
    BY <1>2 DEF Tick, tables, vars
  <2>2. Stays
    BY <2>1, TablesStay
  <2>3. Only(m) /\ Current(req[m]) /\ Asking(req[m]) /\ DecisionsDiffer
    BY SoleParts
  <2>4. PICK q : q = req[m]
    OBVIOUS
  <2>5. Current(q)' /\ Asking(q)' /\ q = req'[m]
    BY <2>1, <2>3, <2>4, CurrentGrows
  <2>6. Only(m)' /\ DecisionsDiffer'
    BY <2>1, <2>3 DEF Only, DecisionsDiffer
  <2> QED BY <2>2, <2>5, <2>6, SolePartsNext
<1> QED BY <1>1, <1>2, SoleActors DEF Next

LEMMA SoleManager ==
  ASSUME OneManager
  PROVE  Spec => []SoleManagerInv
<1>1. Init => SoleManagerInv
  BY SoleInit DEF OneManager
<1>2. TypeOK /\ SoleManagerInv /\ [Next]_vars => SoleManagerInv'
  BY SoleStep DEF OneManager
<1> QED BY <1>1, <1>2, TypeCorrect, PTL DEF Spec

(* For one manager and any number of reviewers, campaigns and failures: a  *)
(* closed campaign has no undecided item.                                  *)
THEOREM ClosedCampaignsAreDecided ==
  ASSUME OneManager
  PROVE  Spec => []ClosedFullyDecided
<1>1. SoleManagerInv => ClosedFullyDecided
  BY DEF SoleManagerInv
<1> QED BY <1>1, SoleManager, PTL

(* For one manager: review items belong to open or closed campaigns only.  *)
THEOREM EvidenceIsOfOpenedCampaigns ==
  ASSUME OneManager
  PROVE  Spec => []EvidenceOfOpenedCampaign
<1>1. SoleManagerInv => EvidenceOfOpenedCampaign
  BY DEF SoleManagerInv
<1> QED BY <1>1, SoleManager, PTL

(* For one manager, whatever it repeats or leaves half done: one item for  *)
(* a row, and one remediation action for an item.                          *)
THEOREM EverythingIsAskedOnce ==
  ASSUME OneManager
  PROVE  Spec => []AskedOnce
<1>1. SoleManagerInv => AskedOnce
  BY DEF SoleManagerInv
<1> QED BY <1>1, SoleManager, PTL
=============================================================================

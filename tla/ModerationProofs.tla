-------------------------- MODULE ModerationProofs --------------------------
(***************************************************************************)
(* Proofs about Moderation, for every number of reports, administrators    *)
(* and overlapping requests, with failing writes and restarts.             *)
(***************************************************************************)
EXTENDS Moderation, TLAPS

\* The steps of a request that carries a decision, and those of them that
\* follow the action.
Deciding == {"storeAction", "actionStored", "storeDecision", "decisionStored"}

Acted == {"actionStored", "storeDecision", "decisionStored"}

\* What a request holds at each of its steps.
RequestIsWhole ==
    \A h \in Handler :
       /\ req[h].step \in {"insertReport", "reportStored"} =>
             req[h].by \in User /\ req[h].report \in Report /\ req[h].message \in Message
       /\ req[h].step \in {"insertAudit", "auditStored"} =>
             req[h].by \in Admin /\ req[h].message \in Message /\ req[h].audit \in Audit
       /\ req[h].step \in Deciding =>
             /\ req[h].by \in Admin /\ req[h].report \in Report
             /\ req[h].message \in Message /\ req[h].audit \in Audit
             /\ req[h].action \in ResolutionAction
       /\ (/\ req[h].step \in {"storeAction", "actionStored"}
           /\ req[h].action \in {"warn_user", "suspend_user"}) =>
             req[h].copy \in Account
       /\ req[h].step \in {"storeProfile", "profileStored"} =>
             req[h].by \in User /\ req[h].copy \in Account

\* A new audit or report is one neither the table nor another request has;
\* what is stored of it, the request has.
AuditIsNew ==
    \A h \in Handler : req[h].step = "insertAudit" =>
       /\ storedAudits[req[h].audit] = None
       /\ \A g \in Handler :
             req[g].step = "insertAudit" /\ req[g].audit = req[h].audit => g = h

AuditFollows ==
    \A h \in Handler : req[h].step = "auditStored" =>
       storedAudits[req[h].audit] = AuditOf(h)

ReportIsNew ==
    \A h \in Handler : req[h].step = "insertReport" =>
       /\ storedReports[req[h].report] = None
       /\ \A g \in Handler :
             req[g].step = "insertReport" /\ req[g].report = req[h].report => g = h

ReportFollows ==
    \A h \in Handler : req[h].step = "reportStored" =>
       /\ storedReports[req[h].report] # None
       /\ storedReports[req[h].report].message = req[h].message

\* Memory has no audit and no report that is not stored.
AuditsAreStored ==
    \A x \in Audit : audits[x] # None => storedAudits[x] = audits[x]

ReportsAreStored ==
    \A r \in Report : reports[r] # None =>
       storedReports[r] # None /\ storedReports[r].message = reports[r].message

\* A decision under way is about the report's message, and its evidence is
\* stored.
DecisionIsFounded ==
    \A h \in Handler : req[h].step \in Deciding =>
       /\ storedAudits[req[h].audit] = AuditOf(h)
       /\ reports[req[h].report] # None
       /\ reports[req[h].report].message = req[h].message

\* A decided record names its administrator and evidence, which is stored.
HasEvidence(record, store) ==
    record # None /\ record.action # None =>
       /\ record.evidence # None /\ record.reviewer \in Admin
       /\ store[record.evidence] = [admin |-> record.reviewer, message |-> record.message]

RecordsHaveEvidence ==
    \A r \in Report : HasEvidence(reports[r], storedAudits)
                      /\ HasEvidence(storedReports[r], storedAudits)

\* The table has what the action did to message m.
Done(action, m) ==
    /\ action = "delete_message" => m \in storedDeleted
    /\ action = "warn_user" => storedAccount[Sender[m]].warnings > 0
    /\ action = "suspend_user" => storedAccount[Sender[m]].suspended

ActionIsDone ==
    \A h \in Handler :
       /\ req[h].step \in Acted => Done(req[h].action, req[h].message)
       /\ req[h].step = "storeAction" /\ req[h].action = "warn_user" =>
             req[h].copy.warnings > 0

\* A suspension memory has missed is still to be answered.
SuspensionIsOnItsWay ==
    \A u \in User \ overwritten :
       storedAccount[u].suspended =>
          \/ account[u].suspended
          \/ \E h \in Handler : /\ req[h].step = "actionStored"
                                /\ req[h].action = "suspend_user"
                                /\ Sender[req[h].message] = u

ModerationInv ==
    /\ TypeOK
    /\ RequestIsWhole
    /\ AuditIsNew /\ AuditFollows /\ AuditsAreStored
    /\ ReportIsNew /\ ReportFollows /\ ReportsAreStored
    /\ DecisionIsFounded /\ RecordsHaveEvidence
    /\ ActionIsDone /\ DecisionIsCarriedOut
    /\ SuspensionIsOnItsWay

\* An audit is not the absence of one.
LEMMA AuditIsNotNone ==
    ASSUME NEW a \in Admin, NEW m \in Message
    PROVE  [admin |-> a, message |-> m] # None
<1>1. [admin |-> a, message |-> m] \in AuditRecord
    BY DEF AuditRecord
<1>. QED  BY <1>1, NoneIsNoRecord

LEMMA InitEstablishesInv == Init => ModerationInv
<1> SUFFICES ASSUME Init
             PROVE  ModerationInv
    OBVIOUS
<1> USE ModerationConstants, NoneIsNoRecord
<1>1. Idle \in Request /\ Closed \in Dialog
    BY DEF Idle, Request, Step, Closed, Dialog
<1>2. [warnings |-> 0, suspended |-> FALSE] \in Account
    BY DEF Account
<1>3. TypeOK
    BY <1>1, <1>2 DEF Init, TypeOK
<1>4. \A h \in Handler : req[h].step = "idle"
    BY DEF Init, Idle
<1>5. RequestIsWhole /\ AuditIsNew /\ AuditFollows /\ ReportIsNew /\ ReportFollows
    BY <1>4 DEF RequestIsWhole, AuditIsNew, AuditFollows, ReportIsNew,
        ReportFollows, Deciding
<1>6. AuditsAreStored /\ ReportsAreStored /\ RecordsHaveEvidence /\ DecisionIsCarriedOut
    BY DEF Init, AuditsAreStored, ReportsAreStored, RecordsHaveEvidence, HasEvidence,
        DecisionIsCarriedOut
<1>7. DecisionIsFounded /\ ActionIsDone
    BY <1>4 DEF DecisionIsFounded, ActionIsDone, Deciding, Acted
<1>8. SuspensionIsOnItsWay
    BY DEF Init, SuspensionIsOnItsWay
<1>. QED  BY <1>3, <1>5, <1>6, <1>7, <1>8 DEF ModerationInv

\* A request that goes on to its next step keeps what it holds.
LEMMA ProceedMoves ==
    ASSUME TypeOK, NEW h \in Handler, NEW s \in Step, Proceed(h, s)
    PROVE  /\ req' \in [Handler -> Request]
           /\ req'[h] = [req[h] EXCEPT !.step = s]
           /\ \A g \in Handler : g # h => req'[g] = req[g]
<1>1. req \in [Handler -> Request]
    BY DEF TypeOK
<1>2. [req[h] EXCEPT !.step = s] \in Request
    BY <1>1 DEF Request
<1>. QED  BY <1>1, <1>2 DEF Proceed

\* So does one that is replaced.
LEMMA RequestReplaced ==
    ASSUME TypeOK, NEW h \in Handler, NEW q \in Request, req' = [req EXCEPT ![h] = q]
    PROVE  /\ req' \in [Handler -> Request]
           /\ req'[h] = q
           /\ \A g \in Handler : g # h => req'[g] = req[g]
BY DEF TypeOK

\* The request that a decision of administrator a becomes.
LEMMA DecisionIsRequest ==
    ASSUME ModerationInv, NEW a \in Reviewer, NEW r \in Report,
           NEW step \in Step, NEW action \in ResolutionAction,
           reports[r] # None
    PROVE  /\ Decision(a, r, step, action) \in Request
           /\ Decision(a, r, step, action).step = step
           /\ Decision(a, r, step, action).by = a
           /\ Decision(a, r, step, action).report = r
           /\ Decision(a, r, step, action).message = reports[r].message
           /\ Decision(a, r, step, action).audit = dialog[a].audit
           /\ Decision(a, r, step, action).action = action
<1>1. reports[r] \in ReportRecord /\ dialog[a] \in Dialog
    BY DEF ModerationInv, TypeOK
<1>2. reports[r].message \in Message /\ dialog[a].audit \in Audit \union {None} /\ a \in User
    BY <1>1, ModerationConstants DEF ReportRecord, Dialog
<1>. QED  BY <1>2 DEF Decision, Idle, Request

\* The record of a decision.
LEMMA DecidedReports ==
    ASSUME TypeOK, NEW d, d.report \in Report, d.by \in Admin, d.audit \in Audit,
           d.action \in ResolutionAction, reports[d.report] # None
    PROVE  /\ Decided(d) \in [Report -> ReportRecord \union {None}]
           /\ Decided(d)[d.report] \in ReportRecord
           /\ Decided(d)[d.report].message = reports[d.report].message
           /\ Decided(d)[d.report].action = d.action
           /\ Decided(d)[d.report].reviewer = d.by
           /\ Decided(d)[d.report].evidence = d.audit
           /\ \A r \in Report : r # d.report => Decided(d)[r] = reports[r]
<1>1. reports[d.report] \in ReportRecord
    BY DEF TypeOK
<1>2. [reports[d.report] EXCEPT !.action = d.action, !.reviewer = d.by, !.evidence = d.audit]
         \in ReportRecord
    BY <1>1 DEF ReportRecord
<1>. QED  BY <1>1, <1>2 DEF TypeOK, Decided, ReportRecord

\* A step that only opens or closes dialogs.
LEMMA PageStepKeepsInv ==
    ASSUME ModerationInv, dialog' \in [Reviewer -> Dialog],
           UNCHANGED <<memory, tables, req, overwritten>>
    PROVE  ModerationInv'
<1>0. UNCHANGED <<deleted, account, reports, audits, storedDeleted, storedAccount,
                  storedReports, storedAudits, req, overwritten>>
    BY DEF memory, tables
<1>1. TypeOK'
    BY <1>0 DEF ModerationInv, TypeOK
<1>2. RequestIsWhole' /\ AuditIsNew' /\ AuditFollows' /\ AuditsAreStored'
    BY <1>0 DEF ModerationInv, RequestIsWhole, AuditIsNew, AuditFollows,
        AuditsAreStored, AuditOf
<1>3. ReportIsNew' /\ ReportFollows' /\ ReportsAreStored'
    BY <1>0 DEF ModerationInv, ReportIsNew, ReportFollows, ReportsAreStored
<1>4. DecisionIsFounded' /\ RecordsHaveEvidence'
    BY <1>0 DEF ModerationInv, DecisionIsFounded, RecordsHaveEvidence, AuditOf
<1>5. ActionIsDone' /\ DecisionIsCarriedOut'
    BY <1>0 DEF ModerationInv, ActionIsDone, DecisionIsCarriedOut, Done
<1>6. SuspensionIsOnItsWay'
    BY <1>0 DEF ModerationInv, SuspensionIsOnItsWay
<1>. QED  BY <1>1, <1>2, <1>3, <1>4, <1>5, <1>6 DEF ModerationInv

\* The parts of the invariant about what is stored for a request.
StoredInv ==
    /\ RequestIsWhole
    /\ AuditIsNew /\ AuditFollows /\ AuditsAreStored
    /\ ReportIsNew /\ ReportFollows /\ ReportsAreStored
    /\ DecisionIsFounded /\ RecordsHaveEvidence
    /\ ActionIsDone /\ DecisionIsCarriedOut

\* A request that is answered, or that only changes a profile.
Harmless(q) ==
    \/ q.step \in {"idle", "ok", "failed"}
    \/ q.step \in {"storeProfile", "profileStored"} /\ q.by \in User /\ q.copy \in Account

\* A step after which one request is harmless and the tables are as before.
LEMMA HarmlessStepKeeps ==
    ASSUME ModerationInv, NEW h \in Handler, Harmless(req'[h]),
           \A g \in Handler : g # h => req'[g] = req[g],
           UNCHANGED <<tables, reports, audits>>
    PROVE  StoredInv'
<1>0. UNCHANGED <<storedDeleted, storedAccount, storedReports, storedAudits, reports, audits>>
    BY DEF tables
<1>1. RequestIsWhole'
    BY DEF ModerationInv, RequestIsWhole, Harmless, Deciding
<1>2. /\ req'[h].step \notin {"insertAudit", "auditStored", "insertReport", "reportStored"}
      /\ req'[h].step \notin Deciding /\ req'[h].step \notin Acted
    BY DEF Harmless, Deciding, Acted
<1>3. AuditIsNew' /\ AuditFollows' /\ AuditsAreStored'
    BY <1>0, <1>2 DEF ModerationInv, AuditIsNew, AuditFollows, AuditsAreStored, AuditOf
<1>4. ReportIsNew' /\ ReportFollows' /\ ReportsAreStored'
    BY <1>0, <1>2 DEF ModerationInv, ReportIsNew, ReportFollows, ReportsAreStored
<1>5. DecisionIsFounded' /\ RecordsHaveEvidence'
    BY <1>0, <1>2 DEF ModerationInv, DecisionIsFounded, RecordsHaveEvidence, AuditOf
<1>6. ActionIsDone' /\ DecisionIsCarriedOut'
    BY <1>0, <1>2 DEF ModerationInv, ActionIsDone, DecisionIsCarriedOut, Done, Deciding
<1>. QED  BY <1>1, <1>3, <1>4, <1>5, <1>6 DEF StoredInv

\* A step that neither suspends, nor stores a suspension, nor ends one's way.
LEMMA SuspensionStaysOnItsWay ==
    ASSUME ModerationInv, UNCHANGED <<storedAccount, overwritten>>,
           \A u \in User : account[u].suspended => account'[u].suspended,
           \A g \in Handler :
              req[g].step = "actionStored" /\ req[g].action = "suspend_user" =>
                 /\ req'[g].step = "actionStored" /\ req'[g].action = "suspend_user"
                 /\ req'[g].message = req[g].message
    PROVE  SuspensionIsOnItsWay'
BY DEF ModerationInv, SuspensionIsOnItsWay

LEMMA CreateReportKeepsInv ==
    ASSUME ModerationInv, NEW h \in Handler, NEW u \in Reporter, NEW m \in Message,
           CreateReport(h, u, m)
    PROVE  ModerationInv'
<1>1. PICK r \in Report :
         /\ NewReport(r)
         /\ req' = [req EXCEPT ![h] = [Idle EXCEPT !.step = "insertReport", !.by = u,
                                          !.report = r, !.message = m]]
    BY DEF CreateReport
<1> DEFINE q == [Idle EXCEPT !.step = "insertReport", !.by = u, !.report = r, !.message = m]
<1>2. /\ q \in Request /\ q.step = "insertReport" /\ q.by = u /\ q.report = r
      /\ q.message = m /\ u \in User
    BY ModerationConstants DEF Idle, Request, Step
<1> HIDE DEF q
<1>3. /\ req' \in [Handler -> Request]
      /\ req'[h] = q
      /\ \A g \in Handler : g # h => req'[g] = req[g]
    BY <1>1, <1>2, RequestReplaced DEF ModerationInv, q
<1>4. /\ UNCHANGED <<deleted, account, reports, audits, storedDeleted, storedAccount,
                     storedReports, storedAudits, dialog, overwritten>>
      /\ req[h].step = "idle"
    BY DEF CreateReport, memory, tables
<1>5. TypeOK'
    BY <1>3, <1>4 DEF ModerationInv, TypeOK
<1>6. RequestIsWhole' /\ AuditIsNew' /\ AuditFollows' /\ AuditsAreStored'
    BY <1>2, <1>3, <1>4 DEF ModerationInv, RequestIsWhole, AuditIsNew, AuditFollows,
        AuditsAreStored, AuditOf, Deciding
<1>7. ReportIsNew' /\ ReportFollows' /\ ReportsAreStored'
    BY <1>1, <1>2, <1>3, <1>4 DEF ModerationInv, ReportIsNew, ReportFollows,
        ReportsAreStored, NewReport
<1>8. DecisionIsFounded' /\ RecordsHaveEvidence'
    BY <1>2, <1>3, <1>4 DEF ModerationInv, DecisionIsFounded, RecordsHaveEvidence, AuditOf, Deciding
<1>9. ActionIsDone' /\ DecisionIsCarriedOut'
    BY <1>2, <1>3, <1>4 DEF ModerationInv, ActionIsDone, DecisionIsCarriedOut, Done, Acted
<1>10. SuspensionIsOnItsWay'
    BY <1>3, <1>4, SuspensionStaysOnItsWay
<1>. QED  BY <1>5, <1>6, <1>7, <1>8, <1>9, <1>10 DEF ModerationInv

\* The record of a report that is not decided yet.
LEMMA NewRecordIsPending ==
    ASSUME ModerationInv, NEW h \in Handler,
           req[h].step \in {"insertReport", "reportStored"}
    PROVE  /\ NewRecord(h) \in ReportRecord /\ NewRecord(h) # None
           /\ NewRecord(h).message = req[h].message
           /\ NewRecord(h).action = None
           /\ req[h].report \in Report
<1>1. req[h].by \in User /\ req[h].message \in Message /\ req[h].report \in Report
    BY DEF ModerationInv, RequestIsWhole
<1>. QED  BY <1>1, NoneIsNoRecord DEF NewRecord, ReportRecord

LEMMA InsertReportKeepsInv ==
    ASSUME ModerationInv, NEW h \in Handler, InsertReport(h)
    PROVE  ModerationInv'
<1>0. /\ UNCHANGED <<deleted, account, reports, audits, storedDeleted, storedAccount,
                     storedAudits, dialog, overwritten>>
      /\ req[h].step = "insertReport"
    BY DEF InsertReport, memory
<1>1. Idle \in Request /\ Idle.step = "idle"
    BY DEF Idle, Request, Step
<1>2. CASE req' = [req EXCEPT ![h] = Idle] /\ UNCHANGED storedReports
    <2>1. /\ req' \in [Handler -> Request]
          /\ req'[h] = Idle
          /\ \A g \in Handler : g # h => req'[g] = req[g]
        BY <1>1, <1>2, RequestReplaced DEF ModerationInv
    <2>2. TypeOK'
        BY <1>0, <1>2, <2>1 DEF ModerationInv, TypeOK
    <2>3. StoredInv'
        BY <1>0, <1>1, <1>2, <2>1, HarmlessStepKeeps DEF Harmless, tables
    <2>4. SuspensionIsOnItsWay'
        BY <1>0, <2>1, SuspensionStaysOnItsWay
    <2>. QED  BY <2>2, <2>3, <2>4 DEF StoredInv, ModerationInv
<1>3. CASE /\ storedReports' = [storedReports EXCEPT ![req[h].report] = NewRecord(h)]
           /\ Proceed(h, "reportStored")
    <2>1. /\ req' \in [Handler -> Request]
          /\ req'[h] = [req[h] EXCEPT !.step = "reportStored"]
          /\ \A g \in Handler : g # h => req'[g] = req[g]
        BY <1>3, ProceedMoves DEF ModerationInv, Step
    <2>2. /\ req'[h].step = "reportStored" /\ req'[h].report = req[h].report
          /\ req'[h].message = req[h].message /\ req'[h].by = req[h].by
          /\ \A g \in Handler : g # h => req'[g] = req[g]
        BY <2>1 DEF ModerationInv, TypeOK, Request
    <2>3. /\ NewRecord(h) \in ReportRecord /\ NewRecord(h) # None
          /\ NewRecord(h).message = req[h].message
          /\ NewRecord(h).action = None
          /\ req[h].report \in Report
        BY <1>0, NewRecordIsPending
    <2>4. storedReports \in [Report -> ReportRecord \union {None}]
        BY DEF ModerationInv, TypeOK
    <2>5. storedReports' \in [Report -> ReportRecord \union {None}]
        BY <1>3, <2>3, <2>4
    <2>6. /\ storedReports'[req[h].report] = NewRecord(h)
          /\ \A r \in Report : r # req[h].report => storedReports'[r] = storedReports[r]
          /\ storedReports[req[h].report] = None
        BY <1>0, <1>3, <2>3, <2>4 DEF ModerationInv, ReportIsNew
    <2>7. TypeOK'
        BY <1>0, <2>1, <2>5 DEF ModerationInv, TypeOK
    <2>8. /\ RequestIsWhole'
          /\ AuditIsNew' /\ AuditFollows' /\ AuditsAreStored'
        <3>1. RequestIsWhole'
            BY <1>0, <2>1, <2>2 DEF ModerationInv, RequestIsWhole, Deciding
        <3>2. AuditIsNew' /\ AuditFollows' /\ AuditsAreStored'
            BY <1>0, <2>2 DEF ModerationInv, AuditIsNew, AuditFollows,
                AuditsAreStored, AuditOf
        <3>. QED  BY <3>1, <3>2
    <2>9. ReportIsNew' /\ ReportFollows'
        <3>1. ASSUME NEW g \in Handler, g # h,
                     req[g].step \in {"insertReport", "reportStored"}
              PROVE  req[g].report # req[h].report /\ req[g].report \in Report
            BY <1>0, <2>6, <3>1 DEF ModerationInv, ReportIsNew, ReportFollows,
                RequestIsWhole
        <3>2. ReportIsNew'
            BY <2>2, <2>6, <3>1 DEF ModerationInv, ReportIsNew
        <3>3. ReportFollows'
            BY <2>2, <2>3, <2>6, <3>1 DEF ModerationInv, ReportFollows
        <3>. QED  BY <3>2, <3>3
    <2>10. ReportsAreStored'
        BY <1>0, <2>3, <2>6 DEF ModerationInv, ReportsAreStored
    <2>11. DecisionIsFounded'
        BY <1>0, <2>1, <2>2 DEF ModerationInv, DecisionIsFounded, AuditOf, Deciding
    <2>12. RecordsHaveEvidence'
        <3>1. \A r \in Report : storedReports'[r] = NewRecord(h)
                                \/ storedReports'[r] = storedReports[r]
            BY <2>6
        <3>. QED  BY ZenonT(60), <1>0, <2>3, <3>1 DEF ModerationInv, RecordsHaveEvidence, HasEvidence
    <2>13. ActionIsDone'
        BY ZenonT(60), <1>0, <2>1, <2>2 DEF ModerationInv, ActionIsDone, Done, Acted
    <2>14. DecisionIsCarriedOut'
        BY <1>0, <2>3, <2>6, NoneIsNoRecord DEF ModerationInv, DecisionIsCarriedOut,
            ResolutionAction
    <2>15. SuspensionIsOnItsWay'
        BY <1>0, <2>1, SuspensionStaysOnItsWay
    <2>. QED
        BY <2>7, <2>8, <2>9, <2>10, <2>11, <2>12, <2>13, <2>14, <2>15 DEF ModerationInv
<1>. QED  BY <1>2, <1>3 DEF InsertReport

LEMMA FinishReportKeepsInv ==
    ASSUME ModerationInv, NEW h \in Handler, FinishReport(h)
    PROVE  ModerationInv'
<1>0. /\ UNCHANGED <<deleted, account, audits, storedDeleted, storedAccount,
                     storedReports, storedAudits, dialog, overwritten>>
      /\ req[h].step = "reportStored"
      /\ reports' = [reports EXCEPT ![req[h].report] = NewRecord(h)]
      /\ req' = [req EXCEPT ![h] = Idle]
    BY DEF FinishReport, tables
<1>1. Idle \in Request /\ Idle.step = "idle"
    BY DEF Idle, Request, Step
<1>2. /\ req' \in [Handler -> Request]
      /\ req'[h] = Idle
      /\ \A g \in Handler : g # h => req'[g] = req[g]
    BY <1>0, <1>1, RequestReplaced DEF ModerationInv
<1>3. /\ NewRecord(h) \in ReportRecord /\ NewRecord(h) # None
      /\ NewRecord(h).message = req[h].message
      /\ NewRecord(h).action = None
      /\ req[h].report \in Report
    BY <1>0, NewRecordIsPending
<1>4. reports \in [Report -> ReportRecord \union {None}]
    BY DEF ModerationInv, TypeOK
<1>5. /\ reports'[req[h].report] = NewRecord(h)
      /\ \A r \in Report : r # req[h].report => reports'[r] = reports[r]
      /\ reports' \in [Report -> ReportRecord \union {None}]
    BY <1>0, <1>3, <1>4
<1>6. TypeOK'
    BY <1>0, <1>2, <1>5 DEF ModerationInv, TypeOK
<1>7. RequestIsWhole' /\ AuditIsNew' /\ AuditFollows' /\ AuditsAreStored'
    BY <1>0, <1>1, <1>2 DEF ModerationInv, RequestIsWhole, AuditIsNew, AuditFollows,
        AuditsAreStored, AuditOf, Deciding
<1>8. ReportIsNew' /\ ReportFollows'
    BY <1>0, <1>1, <1>2 DEF ModerationInv, ReportIsNew, ReportFollows
<1>9. ReportsAreStored'
    BY <1>0, <1>3, <1>5 DEF ModerationInv, ReportsAreStored, ReportFollows
<1>10. DecisionIsFounded'
    <2> SUFFICES ASSUME NEW g \in Handler, req'[g].step \in Deciding
                 PROVE  /\ storedAudits'[req'[g].audit] = AuditOf(g)'
                        /\ reports'[req'[g].report] # None
                        /\ reports'[req'[g].report].message = req'[g].message
        BY DEF DecisionIsFounded
    <2>1. req'[g] = req[g] /\ req[g].step \in Deciding
        BY <1>1, <1>2 DEF Deciding
    <2>2. /\ req[g].report \in Report /\ reports[req[g].report] # None
          /\ reports[req[g].report].message = req[g].message
          /\ storedAudits[req[g].audit] = AuditOf(g)
        BY <2>1 DEF ModerationInv, RequestIsWhole, DecisionIsFounded
    <2>3. CASE req[g].report = req[h].report
        BY <1>0, <1>3, <1>5, <2>1, <2>2, <2>3 DEF ModerationInv, ReportsAreStored,
            ReportFollows, AuditOf
    <2>4. CASE req[g].report # req[h].report
        BY <1>0, <1>5, <2>1, <2>2, <2>4 DEF AuditOf
    <2>. QED  BY <2>3, <2>4
<1>11. RecordsHaveEvidence'
    <2>1. \A r \in Report : reports'[r] = NewRecord(h) \/ reports'[r] = reports[r]
        BY <1>5
    <2>. QED  BY ZenonT(60), <1>0, <1>3, <2>1 DEF ModerationInv, RecordsHaveEvidence, HasEvidence
<1>12. ActionIsDone' /\ DecisionIsCarriedOut'
    BY <1>0, <1>1, <1>2 DEF ModerationInv, ActionIsDone, DecisionIsCarriedOut, Done, Acted
<1>13. SuspensionIsOnItsWay'
    BY <1>0, <1>2, SuspensionStaysOnItsWay
<1>. QED
    BY <1>6, <1>7, <1>8, <1>9, <1>10, <1>11, <1>12, <1>13 DEF ModerationInv

LEMMA DialogStepsKeepInv ==
    ASSUME ModerationInv, NEW a \in Reviewer,
           \/ \E r \in Report : OpenReview(a, r)
           \/ \E m \in Message : OpenMessage(a, m)
           \/ CloseDialog(a)
    PROVE  ModerationInv'
<1>1. dialog \in [Reviewer -> Dialog] /\ reports \in [Report -> ReportRecord \union {None}]
    BY DEF ModerationInv, TypeOK
<1>2. dialog[a] \in Dialog
    BY <1>1
<1>3. ASSUME NEW r \in Report, OpenReview(a, r)
      PROVE  dialog' \in [Reviewer -> Dialog]
    <2>1. reports[r].message \in Message
        BY <1>1, <1>3 DEF OpenReview, Visible, ReportRecord
    <2>2. [dialog[a] EXCEPT !.report = r, !.message = reports[r].message] \in Dialog
        BY <1>2, <2>1 DEF Dialog
    <2>. QED  BY <1>1, <1>3, <2>2 DEF OpenReview
<1>4. ASSUME NEW m \in Message, OpenMessage(a, m)
      PROVE  dialog' \in [Reviewer -> Dialog]
    <2>1. [dialog[a] EXCEPT !.message = m] \in Dialog
        BY <1>2 DEF Dialog
    <2>. QED  BY <1>1, <1>4, <2>1 DEF OpenMessage
<1>5. ASSUME CloseDialog(a)
      PROVE  dialog' \in [Reviewer -> Dialog]
    BY <1>1, <1>5 DEF CloseDialog, Closed, Dialog
<1>6. UNCHANGED <<memory, tables, req, overwritten>>
    BY DEF OpenReview, OpenMessage, CloseDialog
<1>. QED  BY <1>3, <1>4, <1>5, <1>6, PageStepKeepsInv

\* A dialog with another set of requests under way.
LEMMA BusyDialog ==
    ASSUME ModerationInv, NEW a \in Reviewer, NEW b \in SUBSET {"revealing", "resolving"},
           dialog' = [dialog EXCEPT ![a].busy = b]
    PROVE  dialog' \in [Reviewer -> Dialog]
<1>1. dialog \in [Reviewer -> Dialog] /\ dialog[a] \in Dialog
    BY DEF ModerationInv, TypeOK
<1>2. [dialog[a] EXCEPT !.busy = b] \in Dialog
    BY <1>1 DEF Dialog
<1>. QED  BY <1>1, <1>2

LEMMA RevealKeepsInv ==
    ASSUME ModerationInv, NEW h \in Handler, NEW a \in Reviewer, Reveal(h, a)
    PROVE  ModerationInv'
<1>0. /\ UNCHANGED <<deleted, account, reports, audits, storedDeleted, storedAccount,
                     storedReports, storedAudits, overwritten>>
      /\ req[h].step = "idle"
      /\ dialog' = [dialog EXCEPT ![a].busy = @ \union {"revealing"}]
    BY DEF Reveal, memory, tables
<1>1. dialog[a] \in Dialog /\ a \in User /\ a \in Admin
    BY ModerationConstants DEF ModerationInv, TypeOK
<1>2. dialog' \in [Reviewer -> Dialog]
    <2>1. dialog[a].busy \union {"revealing"} \in SUBSET {"revealing", "resolving"}
        BY <1>1 DEF Dialog
    <2>. QED  BY <1>0, <2>1, BusyDialog
<1>3. CASE req' = [req EXCEPT ![h] = [Idle EXCEPT !.step = "failed", !.by = a]]
    <2>1. [Idle EXCEPT !.step = "failed", !.by = a] \in Request
        BY <1>1 DEF Idle, Request, Step
    <2>2. /\ req' \in [Handler -> Request]
          /\ req'[h] = [Idle EXCEPT !.step = "failed", !.by = a]
          /\ \A g \in Handler : g # h => req'[g] = req[g]
        BY <1>3, <2>1, RequestReplaced DEF ModerationInv
    <2>3. TypeOK'
        BY <1>0, <1>2, <2>2 DEF ModerationInv, TypeOK
    <2>4. StoredInv'
        BY <1>0, <2>2, HarmlessStepKeeps DEF Harmless, tables, Idle
    <2>5. SuspensionIsOnItsWay'
        BY <1>0, <2>2, SuspensionStaysOnItsWay
    <2>. QED  BY <2>3, <2>4, <2>5 DEF StoredInv, ModerationInv
<1>4. ASSUME NEW x \in Audit, NewAudit(x), dialog[a].message # None,
             req' = [req EXCEPT ![h] = [Idle EXCEPT !.step = "insertAudit", !.by = a,
                                   !.message = dialog[a].message, !.audit = x]]
      PROVE  ModerationInv'
    <2> DEFINE q == [Idle EXCEPT !.step = "insertAudit", !.by = a,
                                 !.message = dialog[a].message, !.audit = x]
    <2>1. dialog[a].message \in Message
        BY <1>1, <1>4 DEF Dialog
    <2>2. /\ q \in Request /\ q.step = "insertAudit" /\ q.by = a /\ q.audit = x
          /\ q.message \in Message
        BY <1>1, <2>1 DEF Idle, Request, Step
    <2> HIDE DEF q
    <2>3. /\ req' \in [Handler -> Request]
          /\ req'[h] = q
          /\ \A g \in Handler : g # h => req'[g] = req[g]
        BY <1>4, <2>2, RequestReplaced DEF ModerationInv, q
    <2>4. TypeOK'
        BY <1>0, <1>2, <2>3 DEF ModerationInv, TypeOK
    <2>5. RequestIsWhole'
        BY <1>1, <2>2, <2>3 DEF ModerationInv, RequestIsWhole, Deciding
    <2>6. AuditIsNew' /\ AuditFollows' /\ AuditsAreStored'
        BY <1>0, <1>4, <2>2, <2>3 DEF ModerationInv, AuditIsNew, AuditFollows,
            AuditsAreStored, AuditOf, NewAudit
    <2>7. ReportIsNew' /\ ReportFollows' /\ ReportsAreStored'
        BY <1>0, <2>2, <2>3 DEF ModerationInv, ReportIsNew, ReportFollows, ReportsAreStored
    <2>8. DecisionIsFounded' /\ RecordsHaveEvidence'
        BY <1>0, <2>2, <2>3 DEF ModerationInv, DecisionIsFounded, RecordsHaveEvidence,
            AuditOf, Deciding
    <2>9. ActionIsDone' /\ DecisionIsCarriedOut'
        BY <1>0, <2>2, <2>3 DEF ModerationInv, ActionIsDone, DecisionIsCarriedOut,
            Done, Acted
    <2>10. SuspensionIsOnItsWay'
        BY <1>0, <2>3, SuspensionStaysOnItsWay
    <2>. QED
        BY <2>4, <2>5, <2>6, <2>7, <2>8, <2>9, <2>10 DEF ModerationInv
<1>. QED  BY <1>3, <1>4 DEF Reveal, RevealForm

LEMMA InsertAuditKeepsInv ==
    ASSUME ModerationInv, NEW h \in Handler, InsertAudit(h)
    PROVE  ModerationInv'
<1>0. /\ UNCHANGED <<deleted, account, reports, audits, storedDeleted, storedAccount,
                     storedReports, dialog, overwritten>>
      /\ req[h].step = "insertAudit"
      /\ storedAudits' = [storedAudits EXCEPT ![req[h].audit] = AuditOf(h)]
      /\ Proceed(h, "auditStored")
    BY DEF InsertAudit, memory
<1>1. /\ req' \in [Handler -> Request]
      /\ req'[h] = [req[h] EXCEPT !.step = "auditStored"]
      /\ \A g \in Handler : g # h => req'[g] = req[g]
    BY <1>0, ProceedMoves DEF ModerationInv, Step
<1>2. /\ req'[h].step = "auditStored" /\ req'[h].audit = req[h].audit
      /\ req'[h].message = req[h].message /\ req'[h].by = req[h].by
      /\ \A g \in Handler : g # h => req'[g] = req[g]
    BY <1>1 DEF ModerationInv, TypeOK, Request
<1>3. /\ AuditOf(h) \in AuditRecord /\ AuditOf(h) # None /\ req[h].audit \in Audit
    BY <1>0, NoneIsNoRecord DEF ModerationInv, RequestIsWhole, AuditOf, AuditRecord
<1>4. storedAudits \in [Audit -> AuditRecord \union {None}]
    BY DEF ModerationInv, TypeOK
<1>5. /\ storedAudits' \in [Audit -> AuditRecord \union {None}]
      /\ storedAudits'[req[h].audit] = AuditOf(h)
      /\ \A x \in Audit : x # req[h].audit => storedAudits'[x] = storedAudits[x]
      /\ storedAudits[req[h].audit] = None
    BY <1>0, <1>3, <1>4 DEF ModerationInv, AuditIsNew
<1>6. \A x \in Audit : storedAudits[x] # None => storedAudits'[x] = storedAudits[x]
    BY <1>5
<1>7. TypeOK'
    BY <1>0, <1>1, <1>5 DEF ModerationInv, TypeOK
<1>8. RequestIsWhole'
    BY <1>0, <1>2 DEF ModerationInv, RequestIsWhole, Deciding
<1>9. AuditIsNew'
    <2>1. ASSUME NEW g \in Handler, g # h, req[g].step = "insertAudit"
          PROVE  req[g].audit # req[h].audit /\ req[g].audit \in Audit
        BY <1>0, <2>1 DEF ModerationInv, AuditIsNew, RequestIsWhole
    <2>. QED  BY <1>2, <1>5, <2>1 DEF ModerationInv, AuditIsNew
<1>10. AuditFollows'
    <2>1. ASSUME NEW g \in Handler, g # h, req[g].step = "auditStored"
          PROVE  storedAudits'[req[g].audit] = AuditOf(g)
        <3>1. storedAudits[req[g].audit] = AuditOf(g) /\ req[g].audit \in Audit
            BY <2>1 DEF ModerationInv, AuditFollows, RequestIsWhole
        <3>2. AuditOf(g) # None
            BY <2>1, NoneIsNoRecord DEF ModerationInv, RequestIsWhole, AuditOf, AuditRecord
        <3>. QED  BY <1>6, <3>1, <3>2
    <2>. QED  BY <1>2, <1>5, <2>1 DEF AuditFollows, AuditOf
<1>11. AuditsAreStored'
    BY <1>0, <1>6 DEF ModerationInv, AuditsAreStored
<1>12. ReportIsNew' /\ ReportFollows' /\ ReportsAreStored'
    BY <1>0, <1>2 DEF ModerationInv, ReportIsNew, ReportFollows, ReportsAreStored
<1>13. DecisionIsFounded'
    <2> SUFFICES ASSUME NEW g \in Handler, req'[g].step \in Deciding
                 PROVE  /\ storedAudits'[req'[g].audit] = AuditOf(g)'
                        /\ reports'[req'[g].report] # None
                        /\ reports'[req'[g].report].message = req'[g].message
        BY DEF DecisionIsFounded
    <2>1. req'[g] = req[g] /\ req[g].step \in Deciding
        BY <1>2 DEF Deciding
    <2>2. /\ storedAudits[req[g].audit] = AuditOf(g) /\ req[g].audit \in Audit
          /\ reports[req[g].report] # None
          /\ reports[req[g].report].message = req[g].message
        BY <2>1 DEF ModerationInv, RequestIsWhole, DecisionIsFounded
    <2>3. AuditOf(g) # None
        BY <2>1, NoneIsNoRecord DEF ModerationInv, RequestIsWhole, AuditOf, AuditRecord
    <2>. QED  BY <1>0, <1>6, <2>1, <2>2, <2>3 DEF AuditOf
<1>14. RecordsHaveEvidence'
    <2>1. ASSUME NEW record \in ReportRecord \union {None}, HasEvidence(record, storedAudits)
          PROVE  HasEvidence(record, storedAudits')
        <3> SUFFICES ASSUME record # None, record.action # None
                     PROVE  /\ record.evidence # None /\ record.reviewer \in Admin
                            /\ storedAudits'[record.evidence] =
                                  [admin |-> record.reviewer, message |-> record.message]
            BY DEF HasEvidence
        <3>1. /\ record.evidence \in Audit /\ record.reviewer \in Admin
              /\ record.message \in Message
              /\ storedAudits[record.evidence] =
                    [admin |-> record.reviewer, message |-> record.message]
            BY <2>1 DEF HasEvidence, ReportRecord
        <3>2. storedAudits[record.evidence] # None
            BY <3>1, AuditIsNotNone
        <3>. QED  BY <1>6, <3>1, <3>2, ModerationConstants
    <2>2. \A r \in Report : /\ reports[r] \in ReportRecord \union {None}
                            /\ storedReports[r] \in ReportRecord \union {None}
        BY DEF ModerationInv, TypeOK
    <2>. QED  BY <1>0, <2>1, <2>2 DEF ModerationInv, RecordsHaveEvidence
<1>15. ActionIsDone' /\ DecisionIsCarriedOut'
    BY <1>0, <1>2 DEF ModerationInv, ActionIsDone, DecisionIsCarriedOut, Done, Acted
<1>16. SuspensionIsOnItsWay'
    BY <1>0, <1>1, SuspensionStaysOnItsWay
<1>. QED
    BY <1>7, <1>8, <1>9, <1>10, <1>11, <1>12, <1>13, <1>14, <1>15, <1>16 DEF ModerationInv

LEMMA FinishRevealKeepsInv ==
    ASSUME ModerationInv, NEW h \in Handler, FinishReveal(h)
    PROVE  ModerationInv'
<1>0. /\ UNCHANGED <<deleted, account, reports, storedDeleted, storedAccount,
                     storedReports, storedAudits, dialog, overwritten>>
      /\ req[h].step = "auditStored"
      /\ audits' = [audits EXCEPT ![req[h].audit] = AuditOf(h)]
      /\ Proceed(h, "ok")
    BY DEF FinishReveal, tables
<1>1. /\ req' \in [Handler -> Request]
      /\ req'[h] = [req[h] EXCEPT !.step = "ok"]
      /\ \A g \in Handler : g # h => req'[g] = req[g]
    BY <1>0, ProceedMoves DEF ModerationInv, Step
<1>2. /\ req'[h].step = "ok"
      /\ \A g \in Handler : g # h => req'[g] = req[g]
    BY <1>1 DEF ModerationInv, TypeOK, Request
<1>3. AuditOf(h) \in AuditRecord /\ req[h].audit \in Audit
    BY <1>0 DEF ModerationInv, RequestIsWhole, AuditOf, AuditRecord
<1>4. /\ audits' \in [Audit -> AuditRecord \union {None}]
      /\ audits'[req[h].audit] = AuditOf(h)
      /\ \A x \in Audit : x # req[h].audit => audits'[x] = audits[x]
    BY <1>0, <1>3 DEF ModerationInv, TypeOK
<1>5. TypeOK'
    BY <1>0, <1>1, <1>4 DEF ModerationInv, TypeOK
<1>6. RequestIsWhole'
    BY <1>2 DEF ModerationInv, RequestIsWhole, Deciding
<1>7. AuditIsNew' /\ AuditFollows'
    BY <1>0, <1>2 DEF ModerationInv, AuditIsNew, AuditFollows, AuditOf
<1>8. AuditsAreStored'
    BY <1>0, <1>4 DEF ModerationInv, AuditsAreStored, AuditFollows
<1>9. ReportIsNew' /\ ReportFollows' /\ ReportsAreStored'
    BY <1>0, <1>2 DEF ModerationInv, ReportIsNew, ReportFollows, ReportsAreStored
<1>10. DecisionIsFounded' /\ RecordsHaveEvidence'
    BY <1>0, <1>2 DEF ModerationInv, DecisionIsFounded, RecordsHaveEvidence, AuditOf,
        Deciding
<1>11. ActionIsDone' /\ DecisionIsCarriedOut'
    BY <1>0, <1>2 DEF ModerationInv, ActionIsDone, DecisionIsCarriedOut, Done, Acted
<1>12. SuspensionIsOnItsWay'
    BY <1>0, <1>1, SuspensionStaysOnItsWay
<1>. QED
    BY <1>5, <1>6, <1>7, <1>8, <1>9, <1>10, <1>11, <1>12 DEF ModerationInv

\* What a submitted decision is founded on.
LEMMA SubmittedDecision ==
    ASSUME ModerationInv, NEW h \in Handler, NEW a \in Reviewer,
           NEW action \in ResolutionAction, Submit(h, a),
           MayResolve(a, dialog[a].report, dialog[a].audit, action)
    PROVE  /\ req[h].step = "idle"
           /\ dialog' \in [Reviewer -> Dialog]
           /\ dialog[a].report \in Report /\ dialog[a].audit \in Audit
           /\ a \in Admin
           /\ reports[dialog[a].report] \in ReportRecord
           /\ reports[dialog[a].report] # None
           /\ reports[dialog[a].report].message \in Message
           /\ storedAudits[dialog[a].audit] =
                 [admin |-> a, message |-> reports[dialog[a].report].message]
<1>1. /\ dialog[a] \in Dialog /\ reports \in [Report -> ReportRecord \union {None}]
      /\ a \in Admin
    BY ModerationConstants DEF ModerationInv, TypeOK
<1>2. dialog' \in [Reviewer -> Dialog]
    <2>1. dialog[a].busy \union {"resolving"} \in SUBSET {"revealing", "resolving"}
        BY <1>1 DEF Dialog
    <2>. QED  BY <2>1, BusyDialog DEF Submit
<1>3. dialog[a].report \in Report /\ dialog[a].audit \in Audit
    BY <1>1 DEF Submit, DecisionForm, Dialog
<1>4. /\ reports[dialog[a].report] \in ReportRecord
      /\ reports[dialog[a].report] # None
      /\ reports[dialog[a].report].message \in Message
    BY <1>1, <1>3 DEF MayResolve, Pending, ReportRecord
<1>5. audits[dialog[a].audit] = [admin |-> a, message |-> reports[dialog[a].report].message]
    BY DEF MayResolve, MatchingAudit
<1>6. audits[dialog[a].audit] # None
    <2>1. audits[dialog[a].audit] \in AuditRecord
        BY <1>1, <1>4, <1>5 DEF AuditRecord
    <2>. QED  BY <2>1, NoneIsNoRecord
<1>7. storedAudits[dialog[a].audit] = audits[dialog[a].audit]
    BY <1>3, <1>6 DEF ModerationInv, AuditsAreStored
<1>. QED  BY <1>1, <1>2, <1>3, <1>4, <1>5, <1>7 DEF Submit

\* A step that starts to carry out a decision leaves the tables alone, and
\* the reports, or decides the one at hand.
LEMMA DecidingStepKeeps ==
    ASSUME ModerationInv, NEW h \in Handler, req[h].step = "idle",
           req'[h].step \in {"storeAction", "storeDecision"},
           req'[h].by \in Admin, req'[h].report \in Report, req'[h].message \in Message,
           req'[h].audit \in Audit, req'[h].action \in ResolutionAction,
           req'[h].step = "storeAction" /\ req'[h].action \in {"warn_user", "suspend_user"} =>
              req'[h].copy \in Account,
           req'[h].step = "storeAction" /\ req'[h].action = "warn_user" =>
              req'[h].copy.warnings > 0,
           req'[h].step = "storeDecision" => req'[h].action = "dismiss",
           storedAudits[req'[h].audit] = [admin |-> req'[h].by, message |-> req'[h].message],
           reports'[req'[h].report] # None,
           reports'[req'[h].report].message = req'[h].message,
           \A g \in Handler : g # h => req'[g] = req[g],
           \A r \in Report : reports[r] # None =>
              reports'[r] # None /\ reports'[r].message = reports[r].message,
           ReportsAreStored', RecordsHaveEvidence',
           UNCHANGED <<tables, audits>>
    PROVE  StoredInv'
<1>0. UNCHANGED <<storedDeleted, storedAccount, storedReports, storedAudits>>
    BY DEF tables
<1>1. RequestIsWhole'
    BY DEF ModerationInv, RequestIsWhole, Deciding
<1>2. AuditIsNew' /\ AuditFollows' /\ AuditsAreStored'
    BY <1>0 DEF ModerationInv, AuditIsNew, AuditFollows, AuditsAreStored, AuditOf
<1>3. ReportIsNew' /\ ReportFollows'
    BY <1>0 DEF ModerationInv, ReportIsNew, ReportFollows
<1>4. DecisionIsFounded'
    <2> SUFFICES ASSUME NEW g \in Handler, req'[g].step \in Deciding
                 PROVE  /\ storedAudits'[req'[g].audit] = AuditOf(g)'
                        /\ reports'[req'[g].report] # None
                        /\ reports'[req'[g].report].message = req'[g].message
        BY DEF DecisionIsFounded
    <2>1. CASE g = h
        BY <1>0, <2>1 DEF AuditOf
    <2>2. CASE g # h
        <3>1. req'[g] = req[g] /\ req[g].report \in Report
            BY <2>2 DEF ModerationInv, RequestIsWhole
        <3>. QED  BY <1>0, <2>2, <3>1 DEF ModerationInv, DecisionIsFounded, AuditOf
    <2>. QED  BY <2>1, <2>2
<1>5. ActionIsDone' /\ DecisionIsCarriedOut'
    BY <1>0 DEF ModerationInv, ActionIsDone, DecisionIsCarriedOut, Done, Acted
<1>. QED  BY <1>1, <1>2, <1>3, <1>4, <1>5 DEF StoredInv

LEMMA DismissKeepsInv ==
    ASSUME ModerationInv, NEW h \in Handler, NEW a \in Reviewer, Dismiss(h, a)
    PROVE  ModerationInv'
<1> DEFINE r == dialog[a].report
           d == Decision(a, r, "storeDecision", "dismiss")
<1>0. /\ UNCHANGED <<deleted, account, audits, storedDeleted, storedAccount,
                     storedReports, storedAudits, overwritten>>
      /\ Submit(h, a)
      /\ MayResolve(a, r, dialog[a].audit, "dismiss")
      /\ reports' = Decided(d)
      /\ req' = [req EXCEPT ![h] = d]
    BY DEF Dismiss, tables
<1>1. "dismiss" \in ResolutionAction /\ "storeDecision" \in Step
    BY DEF ResolutionAction, Step
<1>2. /\ req[h].step = "idle"
      /\ dialog' \in [Reviewer -> Dialog]
      /\ r \in Report /\ dialog[a].audit \in Audit /\ a \in Admin
      /\ reports[r] \in ReportRecord /\ reports[r] # None
      /\ reports[r].message \in Message
      /\ storedAudits[dialog[a].audit] = [admin |-> a, message |-> reports[r].message]
    BY <1>0, <1>1, SubmittedDecision
<1>3. /\ d \in Request /\ d.step = "storeDecision" /\ d.by = a /\ d.report = r
      /\ d.message = reports[r].message /\ d.audit = dialog[a].audit
      /\ d.action = "dismiss"
    BY <1>1, <1>2, DecisionIsRequest
<1> HIDE DEF d, r
<1>4. /\ req' \in [Handler -> Request]
      /\ req'[h] = d
      /\ \A g \in Handler : g # h => req'[g] = req[g]
    BY <1>0, <1>3, RequestReplaced DEF ModerationInv
<1>5. /\ reports' \in [Report -> ReportRecord \union {None}]
      /\ reports'[r] \in ReportRecord
      /\ reports'[r].message = reports[r].message
      /\ reports'[r].reviewer = a
      /\ reports'[r].evidence = dialog[a].audit
      /\ \A s \in Report : s # r => reports'[s] = reports[s]
    <2>1. d.report \in Report /\ d.by \in Admin /\ d.audit \in Audit
          /\ d.action \in ResolutionAction /\ reports[d.report] # None
        BY <1>1, <1>2, <1>3
    <2>. QED  BY <1>0, <1>3, <2>1, DecidedReports DEF ModerationInv
<1>6. TypeOK'
    BY <1>0, <1>2, <1>4, <1>5 DEF ModerationInv, TypeOK
<1>7. /\ reports'[r] # None
      /\ \A s \in Report : reports[s] # None =>
            reports'[s] # None /\ reports'[s].message = reports[s].message
    BY <1>2, <1>5, NoneIsNoRecord
<1>8. ReportsAreStored'
    BY <1>0, <1>2, <1>5, <1>7 DEF ModerationInv, ReportsAreStored
<1>9. RecordsHaveEvidence'
    <2>1. HasEvidence(reports'[r], storedAudits)
        BY <1>2, <1>5, ModerationConstants DEF HasEvidence
    <2>2. \A s \in Report : HasEvidence(reports'[s], storedAudits)
        BY <1>5, <2>1 DEF ModerationInv, RecordsHaveEvidence
    <2>. QED  BY <1>0, <2>2 DEF ModerationInv, RecordsHaveEvidence
<1>10. StoredInv'
    BY <1>0, <1>1, <1>2, <1>3, <1>4, <1>5, <1>7, <1>8, <1>9, DecidingStepKeeps DEF tables
<1>11. SuspensionIsOnItsWay'
    BY <1>0, <1>2, <1>4, SuspensionStaysOnItsWay
<1>. QED  BY <1>6, <1>10, <1>11 DEF StoredInv, ModerationInv

LEMMA DeleteReportedKeepsInv ==
    ASSUME ModerationInv, NEW h \in Handler, NEW a \in Reviewer, DeleteReported(h, a)
    PROVE  ModerationInv'
<1> DEFINE r == dialog[a].report
           d == Decision(a, r, "storeAction", "delete_message")
<1>0. /\ UNCHANGED <<account, reports, audits, storedDeleted, storedAccount,
                     storedReports, storedAudits, overwritten>>
      /\ Submit(h, a)
      /\ MayResolve(a, r, dialog[a].audit, "delete_message")
      /\ deleted' = deleted \union {reports[r].message}
      /\ req' = [req EXCEPT ![h] = d]
    BY DEF DeleteReported, tables
<1>1. "delete_message" \in ResolutionAction /\ "storeAction" \in Step
    BY DEF ResolutionAction, Step
<1>2. /\ req[h].step = "idle"
      /\ dialog' \in [Reviewer -> Dialog]
      /\ r \in Report /\ dialog[a].audit \in Audit /\ a \in Admin
      /\ reports[r] # None
      /\ reports[r].message \in Message
      /\ storedAudits[dialog[a].audit] = [admin |-> a, message |-> reports[r].message]
    BY <1>0, <1>1, SubmittedDecision
<1>3. /\ d \in Request /\ d.step = "storeAction" /\ d.by = a /\ d.report = r
      /\ d.message = reports[r].message /\ d.audit = dialog[a].audit
      /\ d.action = "delete_message"
    BY <1>1, <1>2, DecisionIsRequest
<1> HIDE DEF d, r
<1>4. /\ req' \in [Handler -> Request]
      /\ req'[h] = d
      /\ \A g \in Handler : g # h => req'[g] = req[g]
    BY <1>0, <1>3, RequestReplaced DEF ModerationInv
<1>5. TypeOK'
    BY <1>0, <1>2, <1>4 DEF ModerationInv, TypeOK
<1>6. ReportsAreStored' /\ RecordsHaveEvidence'
    BY <1>0 DEF ModerationInv, ReportsAreStored, RecordsHaveEvidence
<1>7. StoredInv'
    BY <1>0, <1>1, <1>2, <1>3, <1>4, <1>6, DecidingStepKeeps DEF tables
<1>8. SuspensionIsOnItsWay'
    BY <1>0, <1>2, <1>4, SuspensionStaysOnItsWay
<1>. QED  BY <1>5, <1>7, <1>8 DEF StoredInv, ModerationInv

LEMMA SanctionKeepsInv ==
    ASSUME ModerationInv, NEW h \in Handler, NEW a \in Reviewer,
           NEW action \in ResolutionAction, Sanction(h, a, action)
    PROVE  ModerationInv'
<1> DEFINE r == dialog[a].report
           u == Sender[reports[r].message]
           copy == IF action = "warn_user"
                      THEN [account[u] EXCEPT !.warnings = @ + 1]
                      ELSE [account[u] EXCEPT !.suspended = TRUE]
           d == Decision(a, r, "storeAction", action)
           q == [d EXCEPT !.copy = copy]
<1>0. /\ UNCHANGED <<deleted, account, reports, audits, storedDeleted, storedAccount,
                     storedReports, storedAudits, overwritten>>
      /\ Submit(h, a)
      /\ MayResolve(a, r, dialog[a].audit, action)
      /\ copy.warnings <= MaxWarnings
      /\ req' = [req EXCEPT ![h] = q]
    BY DEF Sanction, memory, tables
<1>1. "storeAction" \in Step
    BY DEF Step
<1>2. /\ req[h].step = "idle"
      /\ dialog' \in [Reviewer -> Dialog]
      /\ r \in Report /\ dialog[a].audit \in Audit /\ a \in Admin
      /\ reports[r] # None
      /\ reports[r].message \in Message
      /\ storedAudits[dialog[a].audit] = [admin |-> a, message |-> reports[r].message]
    BY <1>0, SubmittedDecision
<1>3. /\ d \in Request /\ d.step = "storeAction" /\ d.by = a /\ d.report = r
      /\ d.message = reports[r].message /\ d.audit = dialog[a].audit
      /\ d.action = action
    BY <1>1, <1>2, DecisionIsRequest
<1>4. copy \in Account /\ (action = "warn_user" => copy.warnings > 0)
    <2>1. account[u] \in Account
        BY <1>2, ModerationConstants DEF ModerationInv, TypeOK
    <2> HIDE DEF u
    <2>2. /\ account[u].warnings \in Nat /\ account[u].warnings <= MaxWarnings
          /\ account[u].suspended \in BOOLEAN
          /\ MaxWarnings \in Nat
        BY <2>1, ModerationConstants DEF Account
    <2>3. CASE action = "warn_user"
        <3>1. /\ copy = [account[u] EXCEPT !.warnings = account[u].warnings + 1]
              /\ copy.warnings = account[u].warnings + 1
            BY <2>1, <2>3 DEF Account
        <3>2. account[u].warnings + 1 \in 0 .. MaxWarnings
            BY <1>0, <2>2, <3>1
        <3>. QED  BY <2>1, <2>2, <3>1, <3>2 DEF Account
    <2>4. CASE action # "warn_user"
        BY <2>1, <2>4 DEF Account
    <2>. QED  BY <2>3, <2>4
<1> HIDE DEF d, r, u, copy
<1>5. /\ q \in Request /\ q.step = "storeAction" /\ q.by = a /\ q.report = r
      /\ q.message = reports[r].message /\ q.audit = dialog[a].audit
      /\ q.action = action /\ q.copy = copy
    BY <1>3, <1>4 DEF Request
<1> HIDE DEF q
<1>6. /\ req' \in [Handler -> Request]
      /\ req'[h] = q
      /\ \A g \in Handler : g # h => req'[g] = req[g]
    BY <1>0, <1>5, RequestReplaced DEF ModerationInv
<1>7. TypeOK'
    BY <1>0, <1>2, <1>6 DEF ModerationInv, TypeOK
<1>8. ReportsAreStored' /\ RecordsHaveEvidence'
    BY <1>0 DEF ModerationInv, ReportsAreStored, RecordsHaveEvidence
<1>9. StoredInv'
    BY <1>0, <1>2, <1>4, <1>5, <1>6, <1>8, DecidingStepKeeps DEF tables
<1>10. SuspensionIsOnItsWay'
    BY <1>0, <1>2, <1>6, SuspensionStaysOnItsWay
<1>. QED  BY <1>7, <1>9, <1>10 DEF StoredInv, ModerationInv

LEMMA StoreActionKeepsInv ==
    ASSUME ModerationInv, NEW h \in Handler, StoreAction(h)
    PROVE  ModerationInv'
<1> DEFINE u == Sender[req[h].message]
<1>0. /\ UNCHANGED <<deleted, account, reports, audits, storedReports, storedAudits,
                     dialog, overwritten>>
      /\ req[h].step = "storeAction"
      /\ Proceed(h, "actionStored")
    BY DEF StoreAction, memory
<1>1. /\ req' \in [Handler -> Request]
      /\ req'[h] = [req[h] EXCEPT !.step = "actionStored"]
      /\ \A g \in Handler : g # h => req'[g] = req[g]
    BY <1>0, ProceedMoves DEF ModerationInv, Step
<1>2. /\ req'[h].step = "actionStored" /\ req'[h].audit = req[h].audit
      /\ req'[h].message = req[h].message /\ req'[h].by = req[h].by
      /\ req'[h].report = req[h].report /\ req'[h].action = req[h].action
      /\ req'[h].copy = req[h].copy
      /\ \A g \in Handler : g # h => req'[g] = req[g]
    BY <1>1 DEF ModerationInv, TypeOK, Request
<1>3. /\ req[h].message \in Message /\ u \in User
      /\ req[h].action \in ResolutionAction
      /\ req[h].action \in {"warn_user", "suspend_user"} => req[h].copy \in Account
      /\ req[h].action = "warn_user" => req[h].copy.warnings > 0
    BY <1>0, ModerationConstants DEF ModerationInv, RequestIsWhole, ActionIsDone, Deciding
<1>4. /\ storedAccount \in [User -> Account]
      /\ storedDeleted \subseteq Message
    BY DEF ModerationInv, TypeOK
<1> HIDE DEF u
<1>5. /\ storedDeleted' = IF req[h].action = "delete_message"
                             THEN storedDeleted \union {req[h].message} ELSE storedDeleted
      /\ req[h].action = "warn_user" => storedAccount' =
            [storedAccount EXCEPT ![u] = [storedAccount[u] EXCEPT !.warnings = req[h].copy.warnings]]
      /\ req[h].action = "suspend_user" => storedAccount' =
            [storedAccount EXCEPT ![u] = [storedAccount[u] EXCEPT !.suspended = TRUE]]
      /\ req[h].action \notin {"warn_user", "suspend_user"} => storedAccount' = storedAccount
    BY DEF StoreAction, u
<1>6. /\ storedAccount' \in [User -> Account]
      /\ req[h].action = "warn_user" => storedAccount'[u].warnings > 0
      /\ req[h].action = "suspend_user" => storedAccount'[u].suspended
      /\ \A v \in User :
            /\ storedAccount[v].warnings > 0 => storedAccount'[v].warnings > 0
            /\ storedAccount[v].suspended => storedAccount'[v].suspended
            /\ storedAccount'[v].suspended =>
                  storedAccount[v].suspended \/ (req[h].action = "suspend_user" /\ v = u)
    <2>1. storedAccount[u] \in Account
        BY <1>3, <1>4
    <2>2. CASE req[h].action = "warn_user"
        <3>1. [storedAccount[u] EXCEPT !.warnings = req[h].copy.warnings] \in Account
            BY <1>3, <2>1, <2>2 DEF Account
        <3>2. /\ [storedAccount[u] EXCEPT !.warnings = req[h].copy.warnings].warnings > 0
              /\ [storedAccount[u] EXCEPT !.warnings = req[h].copy.warnings].suspended
                    = storedAccount[u].suspended
            BY <1>3, <2>1, <2>2 DEF Account
        <3>. QED  BY <1>3, <1>4, <1>5, <2>2, <3>1, <3>2
    <2>3. CASE req[h].action = "suspend_user"
        <3>1. [storedAccount[u] EXCEPT !.suspended = TRUE] \in Account
            BY <2>1 DEF Account
        <3>2. /\ [storedAccount[u] EXCEPT !.suspended = TRUE].suspended
              /\ [storedAccount[u] EXCEPT !.suspended = TRUE].warnings
                    = storedAccount[u].warnings
            BY <2>1 DEF Account
        <3>. QED  BY <1>3, <1>4, <1>5, <2>3, <3>1, <3>2
    <2>4. CASE req[h].action \notin {"warn_user", "suspend_user"}
        BY <1>4, <1>5, <2>4
    <2>. QED  BY <2>2, <2>3, <2>4
<1>7. TypeOK'
    BY <1>0, <1>1, <1>3, <1>4, <1>5, <1>6 DEF ModerationInv, TypeOK
<1>8. RequestIsWhole'
    BY <1>0, <1>2 DEF ModerationInv, RequestIsWhole, Deciding
<1>9. AuditIsNew' /\ AuditFollows' /\ AuditsAreStored'
    BY <1>0, <1>2 DEF ModerationInv, AuditIsNew, AuditFollows, AuditsAreStored, AuditOf
<1>10. ReportIsNew' /\ ReportFollows' /\ ReportsAreStored'
    BY <1>0, <1>2 DEF ModerationInv, ReportIsNew, ReportFollows, ReportsAreStored
<1>11. DecisionIsFounded' /\ RecordsHaveEvidence'
    BY <1>0, <1>2 DEF ModerationInv, DecisionIsFounded, RecordsHaveEvidence, AuditOf, Deciding
<1>12. ASSUME NEW action, NEW m \in Message, Done(action, m)
       PROVE  Done(action, m)'
    BY <1>5, <1>6, <1>12, ModerationConstants DEF Done
<1>13. ActionIsDone'
    <2> SUFFICES ASSUME NEW g \in Handler
                 PROVE  /\ req'[g].step \in Acted => Done(req[g].action, req[g].message)'
                        /\ req'[g].step = "storeAction" /\ req'[g].action = "warn_user" =>
                              req'[g].copy.warnings > 0
        BY DEF ActionIsDone, Done
    <2>1. CASE g = h
        BY <1>2, <1>3, <1>5, <1>6, <2>1 DEF Done, u
    <2>2. CASE g # h
        <3>1. req'[g] = req[g] /\ (req[g].step \in Acted => req[g].message \in Message)
            BY <1>2, <2>2 DEF ModerationInv, RequestIsWhole, Acted, Deciding
        <3>. QED  BY <1>12, <3>1 DEF ModerationInv, ActionIsDone, Done
    <2>. QED  BY <2>1, <2>2
<1>14. DecisionIsCarriedOut'
    <2>1. ASSUME NEW r \in Report, storedReports[r] # None
          PROVE  Sender[storedReports[r].message] \in User
        BY <2>1, ModerationConstants DEF ModerationInv, TypeOK, ReportRecord
    <2>. QED  BY <1>0, <1>5, <1>6, <2>1 DEF ModerationInv, DecisionIsCarriedOut
<1>15. SuspensionIsOnItsWay'
    BY <1>0, <1>2, <1>6 DEF ModerationInv, SuspensionIsOnItsWay, u
<1>. QED
    BY <1>7, <1>8, <1>9, <1>10, <1>11, <1>13, <1>14, <1>15 DEF ModerationInv

LEMMA FinishActionKeepsInv ==
    ASSUME ModerationInv, NEW h \in Handler, FinishAction(h)
    PROVE  ModerationInv'
<1> DEFINE u == Sender[req[h].message]
           q == [req[h] EXCEPT !.step = "storeDecision", !.copy = None]
           r == req[h].report
<1>0. /\ UNCHANGED <<deleted, audits, storedDeleted, storedAccount, storedReports,
                     storedAudits, dialog, overwritten>>
      /\ req[h].step = "actionStored"
      /\ reports' = Decided(req[h])
      /\ req' = [req EXCEPT ![h] = q]
    BY DEF FinishAction, tables
<1>1. /\ q \in Request /\ q.step = "storeDecision" /\ q.by = req[h].by
      /\ q.report = req[h].report /\ q.message = req[h].message
      /\ q.audit = req[h].audit /\ q.action = req[h].action
    BY DEF ModerationInv, TypeOK, Request, Step
<1>2. /\ req[h].by \in Admin /\ r \in Report /\ req[h].message \in Message
      /\ req[h].audit \in Audit /\ req[h].action \in ResolutionAction
      /\ req[h].action \in {"warn_user", "suspend_user"} => req[h].copy \in Account
      /\ u \in User
      /\ storedAudits[req[h].audit] = AuditOf(h)
      /\ reports[r] # None /\ reports[r].message = req[h].message
      /\ Done(req[h].action, req[h].message)
    BY <1>0, ModerationConstants DEF ModerationInv, RequestIsWhole, DecisionIsFounded,
        ActionIsDone, Deciding, Acted
<1> HIDE DEF q
<1>3. /\ req' \in [Handler -> Request]
      /\ req'[h] = q
      /\ \A g \in Handler : g # h => req'[g] = req[g]
    BY <1>0, <1>1, RequestReplaced DEF ModerationInv
<1>4. /\ reports' \in [Report -> ReportRecord \union {None}]
      /\ reports'[r] \in ReportRecord
      /\ reports'[r].message = reports[r].message
      /\ reports'[r].reviewer = req[h].by
      /\ reports'[r].evidence = req[h].audit
      /\ \A s \in Report : s # r => reports'[s] = reports[s]
    BY <1>0, <1>2, DecidedReports DEF ModerationInv
<1> HIDE DEF r, u
<1>5. account \in [User -> Account]
    BY DEF ModerationInv, TypeOK
<1>6. /\ req[h].action = "warn_user" => account' =
            [account EXCEPT ![u] = [account[u] EXCEPT !.warnings = req[h].copy.warnings]]
      /\ req[h].action = "suspend_user" => account' =
            [account EXCEPT ![u] = [account[u] EXCEPT !.suspended = TRUE]]
      /\ req[h].action \notin {"warn_user", "suspend_user"} => account' = account
    BY DEF FinishAction, u
<1>7. /\ account' \in [User -> Account]
      /\ \A v \in User : account[v].suspended => account'[v].suspended
      /\ req[h].action = "suspend_user" => account'[u].suspended
    <2>1. account[u] \in Account
        BY <1>2, <1>5
    <2>2. CASE req[h].action = "warn_user"
        <3>1. [account[u] EXCEPT !.warnings = req[h].copy.warnings] \in Account
            BY <1>2, <2>1, <2>2 DEF Account
        <3>2. [account[u] EXCEPT !.warnings = req[h].copy.warnings].suspended
                 = account[u].suspended
            BY <2>1 DEF Account
        <3>. QED  BY <1>2, <1>5, <1>6, <2>2, <3>1, <3>2
    <2>3. CASE req[h].action = "suspend_user"
        <3>1. /\ [account[u] EXCEPT !.suspended = TRUE] \in Account
              /\ [account[u] EXCEPT !.suspended = TRUE].suspended
            BY <2>1 DEF Account
        <3>. QED  BY <1>2, <1>5, <1>6, <2>3, <3>1
    <2>4. CASE req[h].action \notin {"warn_user", "suspend_user"}
        BY <1>5, <1>6, <2>4
    <2>. QED  BY <2>2, <2>3, <2>4
<1>8. TypeOK'
    BY <1>0, <1>3, <1>4, <1>7 DEF ModerationInv, TypeOK
<1>9. /\ reports'[r] # None
      /\ \A s \in Report : reports[s] # None =>
            reports'[s] # None /\ reports'[s].message = reports[s].message
    BY <1>2, <1>4, NoneIsNoRecord
<1>10. RequestIsWhole'
    BY <1>1, <1>2, <1>3 DEF ModerationInv, RequestIsWhole, Deciding, r
<1>11. AuditIsNew' /\ AuditFollows' /\ AuditsAreStored'
    BY <1>0, <1>1, <1>3 DEF ModerationInv, AuditIsNew, AuditFollows, AuditsAreStored, AuditOf
<1>12. ReportIsNew' /\ ReportFollows'
    BY <1>0, <1>1, <1>3 DEF ModerationInv, ReportIsNew, ReportFollows
<1>13. ReportsAreStored'
    BY <1>0, <1>2, <1>4, <1>9 DEF ModerationInv, ReportsAreStored
<1>14. DecisionIsFounded'
    <2> SUFFICES ASSUME NEW g \in Handler, req'[g].step \in Deciding
                 PROVE  /\ storedAudits'[req'[g].audit] = AuditOf(g)'
                        /\ reports'[req'[g].report] # None
                        /\ reports'[req'[g].report].message = req'[g].message
        BY DEF DecisionIsFounded
    <2>1. CASE g = h
        BY <1>0, <1>1, <1>2, <1>3, <1>4, <1>9, <2>1 DEF AuditOf, r
    <2>2. CASE g # h
        <3>1. req'[g] = req[g] /\ req[g].report \in Report
            BY <1>3, <2>2 DEF ModerationInv, RequestIsWhole
        <3>. QED  BY <1>0, <1>9, <2>2, <3>1 DEF ModerationInv, DecisionIsFounded, AuditOf
    <2>. QED  BY <2>1, <2>2
<1>15. RecordsHaveEvidence'
    <2>1. HasEvidence(reports'[r], storedAudits)
        BY <1>2, <1>4, ModerationConstants DEF HasEvidence, AuditOf
    <2>2. \A s \in Report : HasEvidence(reports'[s], storedAudits)
        BY <1>4, <2>1 DEF ModerationInv, RecordsHaveEvidence
    <2>. QED  BY <1>0, <2>2 DEF ModerationInv, RecordsHaveEvidence
<1>16. ActionIsDone' /\ DecisionIsCarriedOut'
    BY <1>0, <1>1, <1>2, <1>3 DEF ModerationInv, ActionIsDone, DecisionIsCarriedOut,
        Done, Acted
<1>17. SuspensionIsOnItsWay'
    BY <1>0, <1>1, <1>3, <1>7 DEF ModerationInv, SuspensionIsOnItsWay, u
<1>. QED
    BY <1>8, <1>10, <1>11, <1>12, <1>13, <1>14, <1>15, <1>16, <1>17 DEF ModerationInv

LEMMA StoreDecisionKeepsInv ==
    ASSUME ModerationInv, NEW h \in Handler, StoreDecision(h)
    PROVE  ModerationInv'
<1> DEFINE r == req[h].report
           record == [storedReports[r] EXCEPT !.action = req[h].action,
                                 !.reviewer = req[h].by, !.evidence = req[h].audit]
<1>0. /\ UNCHANGED <<deleted, account, reports, audits, storedDeleted, storedAccount,
                     storedAudits, dialog, overwritten>>
      /\ req[h].step = "storeDecision"
      /\ storedReports' = [storedReports EXCEPT ![r] = record]
      /\ Proceed(h, "decisionStored")
    BY DEF StoreDecision, memory
<1>1. /\ req' \in [Handler -> Request]
      /\ req'[h] = [req[h] EXCEPT !.step = "decisionStored"]
      /\ \A g \in Handler : g # h => req'[g] = req[g]
    BY <1>0, ProceedMoves DEF ModerationInv, Step
<1>2. /\ req'[h].step = "decisionStored" /\ req'[h].audit = req[h].audit
      /\ req'[h].message = req[h].message /\ req'[h].by = req[h].by
      /\ req'[h].report = req[h].report /\ req'[h].action = req[h].action
      /\ \A g \in Handler : g # h => req'[g] = req[g]
    BY <1>1 DEF ModerationInv, TypeOK, Request
<1>3. /\ req[h].by \in Admin /\ r \in Report /\ req[h].message \in Message
      /\ req[h].audit \in Audit /\ req[h].action \in ResolutionAction
      /\ storedAudits[req[h].audit] = AuditOf(h)
      /\ reports[r] # None /\ reports[r].message = req[h].message
      /\ Done(req[h].action, req[h].message)
    BY <1>0 DEF ModerationInv, RequestIsWhole, DecisionIsFounded, ActionIsDone,
        Deciding, Acted
<1> HIDE DEF r
<1>4. /\ storedReports[r] # None /\ storedReports[r] \in ReportRecord
      /\ storedReports[r].message = req[h].message
      /\ storedReports \in [Report -> ReportRecord \union {None}]
    BY <1>3 DEF ModerationInv, TypeOK, ReportsAreStored
<1>5. /\ record \in ReportRecord /\ record.message = req[h].message
      /\ record.action = req[h].action /\ record.reviewer = req[h].by
      /\ record.evidence = req[h].audit
    BY <1>3, <1>4 DEF ReportRecord
<1> HIDE DEF record
<1>6. /\ storedReports' \in [Report -> ReportRecord \union {None}]
      /\ storedReports'[r] = record
      /\ \A s \in Report : s # r => storedReports'[s] = storedReports[s]
      /\ record # None
    BY <1>0, <1>3, <1>4, <1>5, NoneIsNoRecord
<1>7. TypeOK'
    BY <1>0, <1>1, <1>6 DEF ModerationInv, TypeOK
<1>8. RequestIsWhole'
    BY <1>0, <1>2 DEF ModerationInv, RequestIsWhole, Deciding
<1>9. AuditIsNew' /\ AuditFollows' /\ AuditsAreStored'
    BY <1>0, <1>2 DEF ModerationInv, AuditIsNew, AuditFollows, AuditsAreStored, AuditOf
<1>10. ReportIsNew'
    <2>1. ASSUME NEW g \in Handler, req[g].step = "insertReport"
          PROVE  req[g].report # r /\ req[g].report \in Report
        BY <1>4, <2>1 DEF ModerationInv, ReportIsNew, RequestIsWhole
    <2>. QED  BY <1>2, <1>6, <2>1 DEF ModerationInv, ReportIsNew
<1>11. ReportFollows'
    <2>1. ASSUME NEW g \in Handler, req[g].step = "reportStored"
          PROVE  /\ req[g].report \in Report /\ storedReports[req[g].report] # None
                 /\ storedReports[req[g].report].message = req[g].message
        BY <2>1 DEF ModerationInv, ReportFollows, RequestIsWhole
    <2>. QED  BY <1>2, <1>4, <1>5, <1>6, <2>1 DEF ReportFollows
<1>12. ReportsAreStored'
    BY <1>0, <1>3, <1>5, <1>6 DEF ModerationInv, ReportsAreStored
<1>13. DecisionIsFounded'
    BY <1>0, <1>2 DEF ModerationInv, DecisionIsFounded, AuditOf, Deciding
<1>14. RecordsHaveEvidence'
    <2>1. HasEvidence(record, storedAudits)
        BY <1>3, <1>5, ModerationConstants DEF HasEvidence, AuditOf
    <2>2. \A s \in Report : HasEvidence(storedReports'[s], storedAudits)
        BY <1>6, <2>1 DEF ModerationInv, RecordsHaveEvidence
    <2>. QED  BY <1>0, <2>2 DEF ModerationInv, RecordsHaveEvidence
<1>15. ActionIsDone'
    BY <1>0, <1>2 DEF ModerationInv, ActionIsDone, Done, Acted
<1>16. DecisionIsCarriedOut'
    BY <1>0, <1>3, <1>5, <1>6 DEF ModerationInv, DecisionIsCarriedOut, Done
<1>17. SuspensionIsOnItsWay'
    BY <1>0, <1>2, SuspensionStaysOnItsWay
<1>. QED
    BY <1>7, <1>8, <1>9, <1>10, <1>11, <1>12, <1>13, <1>14, <1>15, <1>16, <1>17
    DEF ModerationInv

\* The request is answered or refused; memory and tables are as before.
LEMMA AnswerKeepsInv ==
    ASSUME ModerationInv, NEW h \in Handler,
           \/ \E a \in Reviewer, action \in ResolutionAction : RefuseResolution(h, a, action)
           \/ FinishResolution(h) \/ PageAnswered(h)
    PROVE  ModerationInv'
<1>0. UNCHANGED <<deleted, account, reports, audits, storedDeleted, storedAccount,
                  storedReports, storedAudits, overwritten>>
    BY DEF RefuseResolution, FinishResolution, PageAnswered, memory, tables
<1>1. dialog \in [Reviewer -> Dialog] /\ Reviewer \subseteq User
    BY ModerationConstants DEF ModerationInv, TypeOK
<1> DEFINE Quiet == /\ req' \in [Handler -> Request]
                    /\ req'[h].step \in {"idle", "ok", "failed"}
                    /\ req[h].step # "actionStored"
                    /\ \A g \in Handler : g # h => req'[g] = req[g]
                    /\ dialog' \in [Reviewer -> Dialog]
<1>2. ASSUME NEW a \in Reviewer, NEW action \in ResolutionAction,
             RefuseResolution(h, a, action)
      PROVE  Quiet
    <2> DEFINE q == [Idle EXCEPT !.step = "failed", !.by = a, !.report = dialog[a].report,
                                 !.action = action]
    <2>1. dialog[a] \in Dialog
        BY <1>1
    <2>2. q \in Request /\ q.step = "failed"
        BY <1>1, <2>1 DEF Idle, Request, Step, Dialog
    <2> HIDE DEF q
    <2>3. req' = [req EXCEPT ![h] = q] /\ req[h].step = "idle"
        BY <1>2 DEF RefuseResolution, Submit, q
    <2>4. dialog[a].busy \union {"resolving"} \in SUBSET {"revealing", "resolving"}
        BY <2>1 DEF Dialog
    <2>5. dialog' \in [Reviewer -> Dialog]
        BY <1>2, <2>4, BusyDialog DEF RefuseResolution, Submit
    <2>. QED  BY <2>2, <2>3, <2>5, RequestReplaced DEF ModerationInv
<1>3. ASSUME FinishResolution(h)
      PROVE  Quiet
    <2>1. req[h].step = "decisionStored" /\ Proceed(h, "ok") /\ dialog' = dialog
        BY <1>3 DEF FinishResolution
    <2>2. /\ req' \in [Handler -> Request]
          /\ req'[h] = [req[h] EXCEPT !.step = "ok"]
          /\ \A g \in Handler : g # h => req'[g] = req[g]
        BY <2>1, ProceedMoves DEF ModerationInv, Step
    <2>3. req'[h].step = "ok"
        BY <2>2 DEF ModerationInv, TypeOK, Request
    <2>. QED  BY <1>1, <2>1, <2>2, <2>3
<1>4. ASSUME PageAnswered(h)
      PROVE  Quiet
    <2> DEFINE b == req[h].by
    <2>1. Idle \in Request /\ Idle.step = "idle"
        BY DEF Idle, Request, Step
    <2>2. req' = [req EXCEPT ![h] = Idle] /\ req[h].step \in {"ok", "failed"}
        BY <1>4 DEF PageAnswered
    <2>3. dialog' \in [Reviewer -> Dialog]
        <3>1. req[h].audit \in Audit \union {None}
            BY DEF ModerationInv, TypeOK, Request
        <3>2. dialog' = [dialog EXCEPT ![b] = Answered(dialog[b], req[h])]
            BY <1>4 DEF PageAnswered
        <3>3. ASSUME NEW d \in Dialog
              PROVE  Answered(d, req[h]) \in Dialog
            BY <3>1 DEF Answered, Dialog, Closed
        <3> HIDE DEF b
        <3>. QED  BY <1>1, <3>2, <3>3
    <2>. QED  BY <2>1, <2>2, <2>3, RequestReplaced DEF ModerationInv
<1>5. Quiet
    BY <1>2, <1>3, <1>4
<1>6. TypeOK'
    BY <1>0, <1>5 DEF ModerationInv, TypeOK
<1>7. StoredInv'
    BY <1>0, <1>5, HarmlessStepKeeps DEF Harmless, tables
<1>8. SuspensionIsOnItsWay'
    BY <1>0, <1>5, SuspensionStaysOnItsWay
<1>. QED  BY <1>6, <1>7, <1>8 DEF StoredInv, ModerationInv

\* The sender deletes a message.
LEMMA DeleteOwnKeepsInv ==
    ASSUME ModerationInv, NEW m \in Message, DeleteOwn(m)
    PROVE  ModerationInv'
<1>0. /\ UNCHANGED <<account, reports, audits, storedAccount, storedReports,
                     storedAudits, req, dialog, overwritten>>
      /\ deleted' = deleted \union {m}
      /\ storedDeleted' = storedDeleted \union {m}
    BY DEF DeleteOwn
<1>1. TypeOK'
    BY <1>0 DEF ModerationInv, TypeOK
<1>2. RequestIsWhole' /\ AuditIsNew' /\ AuditFollows' /\ AuditsAreStored'
    BY <1>0 DEF ModerationInv, RequestIsWhole, AuditIsNew, AuditFollows,
        AuditsAreStored, AuditOf
<1>3. ReportIsNew' /\ ReportFollows' /\ ReportsAreStored'
    BY <1>0 DEF ModerationInv, ReportIsNew, ReportFollows, ReportsAreStored
<1>4. DecisionIsFounded' /\ RecordsHaveEvidence'
    BY <1>0 DEF ModerationInv, DecisionIsFounded, RecordsHaveEvidence, AuditOf
<1>5. ActionIsDone' /\ DecisionIsCarriedOut'
    BY <1>0 DEF ModerationInv, ActionIsDone, DecisionIsCarriedOut, Done
<1>6. SuspensionIsOnItsWay'
    BY <1>0 DEF ModerationInv, SuspensionIsOnItsWay
<1>. QED  BY <1>1, <1>2, <1>3, <1>4, <1>5, <1>6 DEF ModerationInv

\* A profile is changed.
LEMMA ProfileStepsKeepInv ==
    ASSUME ModerationInv, NEW h \in Handler,
           \/ \E u \in Editor : UpdateProfile(h, u)
           \/ StoreProfile(h) \/ FinishProfile(h)
    PROVE  ModerationInv'
<1>2. ASSUME NEW u \in Editor, UpdateProfile(h, u)
      PROVE  ModerationInv'
    <2> DEFINE q == [Idle EXCEPT !.step = "storeProfile", !.by = u, !.copy = account[u]]
    <2>0. /\ UNCHANGED <<deleted, account, reports, audits, storedDeleted, storedAccount,
                         storedReports, storedAudits, dialog, overwritten>>
          /\ req[h].step = "idle"
          /\ req' = [req EXCEPT ![h] = q]
        BY <1>2 DEF UpdateProfile, memory, tables
    <2>1. u \in User /\ account[u] \in Account
        BY ModerationConstants DEF ModerationInv, TypeOK
    <2>2. /\ q \in Request /\ q.step = "storeProfile" /\ q.by \in User
          /\ q.copy \in Account
        BY <2>1 DEF Idle, Request, Step
    <2> HIDE DEF q
    <2>3. /\ req' \in [Handler -> Request]
          /\ req'[h] = q
          /\ \A g \in Handler : g # h => req'[g] = req[g]
        BY <2>0, <2>2, RequestReplaced DEF ModerationInv
    <2>4. TypeOK'
        BY <2>0, <2>3 DEF ModerationInv, TypeOK
    <2>5. StoredInv'
        BY <2>0, <2>2, <2>3, HarmlessStepKeeps DEF Harmless, tables
    <2>6. SuspensionIsOnItsWay'
        BY <2>0, <2>3, SuspensionStaysOnItsWay
    <2>. QED  BY <2>4, <2>5, <2>6 DEF StoredInv, ModerationInv
<1>3. ASSUME StoreProfile(h)
      PROVE  ModerationInv'
    <2>0. /\ UNCHANGED <<deleted, account, reports, audits, storedDeleted, storedAccount,
                         storedReports, storedAudits, dialog, overwritten>>
          /\ req[h].step = "storeProfile"
          /\ Proceed(h, "profileStored")
        BY <1>3 DEF StoreProfile, memory, tables
    <2>1. /\ req' \in [Handler -> Request]
          /\ req'[h] = [req[h] EXCEPT !.step = "profileStored"]
          /\ \A g \in Handler : g # h => req'[g] = req[g]
        BY <2>0, ProceedMoves DEF ModerationInv, Step
    <2>2. /\ req'[h].step = "profileStored" /\ req'[h].by \in User
          /\ req'[h].copy \in Account
        BY <2>0, <2>1 DEF ModerationInv, TypeOK, Request, RequestIsWhole
    <2>3. TypeOK'
        BY <2>0, <2>1 DEF ModerationInv, TypeOK
    <2>4. StoredInv'
        BY <2>0, <2>1, <2>2, HarmlessStepKeeps DEF Harmless, tables
    <2>5. SuspensionIsOnItsWay'
        BY <2>0, <2>1, SuspensionStaysOnItsWay
    <2>. QED  BY <2>3, <2>4, <2>5 DEF StoredInv, ModerationInv
<1>4. ASSUME FinishProfile(h)
      PROVE  ModerationInv'
    <2> DEFINE b == req[h].by
    <2>0. /\ UNCHANGED <<deleted, reports, audits, storedDeleted, storedAccount,
                         storedReports, storedAudits, dialog>>
          /\ req[h].step = "profileStored"
          /\ account' = [account EXCEPT ![b] = req[h].copy]
          /\ overwritten' = IF account' = account THEN overwritten
                            ELSE overwritten \union {b}
          /\ req' = [req EXCEPT ![h] = Idle]
        BY <1>4 DEF FinishProfile, tables
    <2>1. Idle \in Request /\ Idle.step = "idle"
        BY DEF Idle, Request, Step
    <2>2. /\ req' \in [Handler -> Request]
          /\ req'[h] = Idle
          /\ \A g \in Handler : g # h => req'[g] = req[g]
        BY <2>0, <2>1, RequestReplaced DEF ModerationInv
    <2>3. b \in User /\ req[h].copy \in Account
        BY <2>0 DEF ModerationInv, RequestIsWhole
    <2> HIDE DEF b
    <2>4. account \in [User -> Account] /\ overwritten \subseteq User
        BY DEF ModerationInv, TypeOK
    <2>5. account' \in [User -> Account] /\ overwritten' \subseteq User
        BY <2>0, <2>3, <2>4
    <2>6. TypeOK'
        BY <2>0, <2>2, <2>5 DEF ModerationInv, TypeOK
    <2>7. StoredInv'
        BY <2>0, <2>1, <2>2, HarmlessStepKeeps DEF Harmless, tables
    <2>8. SuspensionIsOnItsWay'
        <3>1. CASE account' = account
            BY <2>0, <2>2, <3>1, SuspensionStaysOnItsWay
        <3>2. CASE account' # account
            <4>1. /\ overwritten' = overwritten \union {b}
                  /\ \A v \in User : v # b => account'[v] = account[v]
                BY <2>0, <2>4, <3>2
            <4>. QED
                BY <2>0, <2>2, <4>1 DEF ModerationInv, SuspensionIsOnItsWay
        <3>. QED  BY <3>1, <3>2
    <2>. QED  BY <2>6, <2>7, <2>8 DEF StoredInv, ModerationInv
<1>. QED  BY <1>2, <1>3, <1>4

LEMMA DbFailsKeepsInv ==
    ASSUME ModerationInv, NEW h \in Handler, DbFails(h)
    PROVE  ModerationInv'
<1> DEFINE q == IF req[h].step \in {"insertReport", "reportStored",
                                    "storeProfile", "profileStored"}
                   THEN Idle ELSE [req[h] EXCEPT !.step = "failed", !.copy = None]
           sanction == /\ req[h].step = "actionStored"
                       /\ req[h].action \in {"warn_user", "suspend_user"}
<1>0. /\ UNCHANGED <<deleted, account, reports, audits, storedDeleted, storedAccount,
                     storedReports, storedAudits, dialog>>
      /\ req' = [req EXCEPT ![h] = q]
      /\ overwritten' = IF sanction THEN overwritten \union {Sender[req[h].message]}
                        ELSE overwritten
    BY DEF DbFails, memory, tables
<1>1. q \in Request /\ q.step \in {"idle", "failed"}
    <2>1. Idle \in Request /\ Idle.step = "idle"
        BY DEF Idle, Request, Step
    <2>2. /\ [req[h] EXCEPT !.step = "failed", !.copy = None] \in Request
          /\ [req[h] EXCEPT !.step = "failed", !.copy = None].step = "failed"
        BY ZenonT(60) DEF ModerationInv, TypeOK, Request, Step
    <2>. QED  BY <2>1, <2>2
<1> HIDE DEF q
<1>2. /\ req' \in [Handler -> Request]
      /\ req'[h] = q
      /\ \A g \in Handler : g # h => req'[g] = req[g]
    BY <1>0, <1>1, RequestReplaced DEF ModerationInv
<1>3. overwritten' \subseteq User
    <2>1. sanction => Sender[req[h].message] \in User
        BY ModerationConstants DEF ModerationInv, RequestIsWhole, Deciding
    <2>. QED  BY <1>0, <2>1 DEF ModerationInv, TypeOK
<1>4. TypeOK'
    BY <1>0, <1>2, <1>3 DEF ModerationInv, TypeOK
<1>5. StoredInv'
    BY <1>0, <1>1, <1>2, HarmlessStepKeeps DEF Harmless, tables
<1>6. SuspensionIsOnItsWay'
    BY <1>0, <1>2 DEF ModerationInv, SuspensionIsOnItsWay
<1>. QED  BY <1>4, <1>5, <1>6 DEF StoredInv, ModerationInv

LEMMA RestartKeepsInv ==
    ASSUME ModerationInv, Restart
    PROVE  ModerationInv'
<1>0. /\ deleted' = storedDeleted /\ account' = storedAccount
      /\ reports' = storedReports /\ audits' = storedAudits
      /\ req' = [h \in Handler |-> Idle]
      /\ dialog' = [a \in Reviewer |-> [dialog[a] EXCEPT !.busy = {}]]
      /\ overwritten' = {}
      /\ UNCHANGED <<storedDeleted, storedAccount, storedReports, storedAudits>>
    BY DEF Restart, tables
<1>1. Idle \in Request /\ Idle.step = "idle"
    BY DEF Idle, Request, Step
<1>2. \A h \in Handler : req'[h].step = "idle"
    BY <1>0, <1>1
<1>3. TypeOK'
    <2>1. ASSUME NEW a \in Reviewer
          PROVE  [dialog[a] EXCEPT !.busy = {}] \in Dialog
        BY DEF ModerationInv, TypeOK, Dialog
    <2>2. dialog' \in [Reviewer -> Dialog] /\ req' \in [Handler -> Request]
        BY <1>0, <1>1, <2>1
    <2>. QED  BY <1>0, <2>2 DEF ModerationInv, TypeOK
<1>4. RequestIsWhole' /\ AuditIsNew' /\ AuditFollows' /\ ReportIsNew' /\ ReportFollows'
    BY <1>2 DEF RequestIsWhole, AuditIsNew, AuditFollows, ReportIsNew, ReportFollows, Deciding
<1>5. DecisionIsFounded' /\ ActionIsDone'
    BY <1>2 DEF DecisionIsFounded, ActionIsDone, Deciding, Acted
<1>6. AuditsAreStored' /\ ReportsAreStored'
    BY <1>0 DEF AuditsAreStored, ReportsAreStored
<1>7. RecordsHaveEvidence' /\ DecisionIsCarriedOut'
    BY <1>0 DEF ModerationInv, RecordsHaveEvidence, DecisionIsCarriedOut
<1>8. SuspensionIsOnItsWay'
    BY <1>0 DEF SuspensionIsOnItsWay
<1>. QED  BY <1>3, <1>4, <1>5, <1>6, <1>7, <1>8 DEF ModerationInv

LEMMA NextKeepsInv == ModerationInv /\ [Next]_vars => ModerationInv'
<1> SUFFICES ASSUME ModerationInv, [Next]_vars
             PROVE  ModerationInv'
    OBVIOUS
<1>1. ASSUME NEW h \in Handler, NEW u \in Reporter, NEW m \in Message, CreateReport(h, u, m)
      PROVE  ModerationInv'
    BY <1>1, CreateReportKeepsInv
<1>2. ASSUME NEW h \in Handler,
             \/ InsertReport(h) \/ FinishReport(h) \/ InsertAudit(h) \/ FinishReveal(h)
             \/ StoreAction(h) \/ FinishAction(h) \/ StoreDecision(h) \/ DbFails(h)
      PROVE  ModerationInv'
    BY <1>2, InsertReportKeepsInv, FinishReportKeepsInv, InsertAuditKeepsInv,
        FinishRevealKeepsInv, StoreActionKeepsInv, FinishActionKeepsInv,
        StoreDecisionKeepsInv, DbFailsKeepsInv
<1>3. ASSUME NEW h \in Handler, NEW a \in Reviewer,
             \/ Reveal(h, a) \/ Dismiss(h, a) \/ DeleteReported(h, a)
             \/ \E action \in ResolutionAction : Sanction(h, a, action)
      PROVE  ModerationInv'
    BY <1>3, RevealKeepsInv, DismissKeepsInv, DeleteReportedKeepsInv, SanctionKeepsInv
<1>4. ASSUME NEW h \in Handler, NEW a \in Reviewer, NEW action \in ResolutionAction,
             RefuseResolution(h, a, action)
      PROVE  ModerationInv'
    BY <1>4, AnswerKeepsInv
<1>5. ASSUME NEW h \in Handler, FinishResolution(h) \/ PageAnswered(h)
      PROVE  ModerationInv'
    BY <1>5, AnswerKeepsInv
<1>6. ASSUME NEW h \in Handler,
             \/ \E u \in Editor : UpdateProfile(h, u)
             \/ StoreProfile(h) \/ FinishProfile(h)
      PROVE  ModerationInv'
    BY <1>6, ProfileStepsKeepInv
<1>7. ASSUME NEW a \in Reviewer,
             \/ \E r \in Report : OpenReview(a, r)
             \/ \E m \in Message : OpenMessage(a, m)
             \/ CloseDialog(a)
      PROVE  ModerationInv'
    BY <1>7, DialogStepsKeepInv
<1>8. ASSUME NEW m \in Message, DeleteOwn(m)
      PROVE  ModerationInv'
    BY <1>8, DeleteOwnKeepsInv
<1>9. CASE Restart
    BY <1>9, RestartKeepsInv
<1>10. CASE UNCHANGED vars
    <2>1. dialog' \in [Reviewer -> Dialog]
        BY <1>10 DEF vars, ModerationInv, TypeOK
    <2>. QED  BY <1>10, <2>1, PageStepKeepsInv DEF vars
<1>. QED
    BY <1>1, <1>2, <1>3, <1>4, <1>5, <1>6, <1>7, <1>8, <1>9, <1>10 DEF Next

LEMMA ModerationInvariant == Spec => []ModerationInv
BY InitEstablishesInv, NextKeepsInv, PTL DEF Spec

\* Every variable keeps its type: accounts, records, requests and dialogs are
\* what the services and the page take them for, and no account has more
\* warnings than were given.
THEOREM ModerationTypeCorrect == Spec => []TypeOK
<1>1. ModerationInv => TypeOK
    BY DEF ModerationInv
<1>. QED  BY <1>1, ModerationInvariant, PTL

\* Whoever decided a report had revealed that report's message, and the audit
\* that says so is stored: whatever dialogs are opened and closed while
\* requests are under way, and whichever write fails.
THEOREM ModerationEvidenceIsKept == Spec => []EvidenceIsKept
<1>1. ModerationInv => EvidenceIsKept
    <2> SUFFICES ASSUME ModerationInv, NEW r \in Report,
                        NEW table \in {reports, storedReports},
                        table[r] # None, table[r].action # None
                 PROVE  /\ table[r].evidence # None
                        /\ storedAudits[table[r].evidence] =
                              [admin |-> table[r].reviewer, message |-> table[r].message]
        BY DEF EvidenceIsKept
    <2>1. HasEvidence(table[r], storedAudits)
        BY DEF ModerationInv, RecordsHaveEvidence
    <2>. QED  BY <2>1 DEF HasEvidence
<1>. QED  BY <1>1, ModerationInvariant, PTL

\* What a stored decision says has been done is stored as done: the action is
\* stored first, and no later write undoes it.
THEOREM ModerationDecisionIsCarriedOut == Spec => []DecisionIsCarriedOut
<1>1. ModerationInv => DecisionIsCarriedOut
    BY DEF ModerationInv
<1>. QED  BY <1>1, ModerationInvariant, PTL

\* A stored suspension locks its user out, or the request that stored it is
\* still to be answered, or its answer was lost, or a profile change that
\* began before has overwritten it.
THEOREM ModerationSuspensionIsEnforced == Spec => []SuspensionIsEnforced
<1>1. ModerationInv => SuspensionIsEnforced
    BY DEF ModerationInv, SuspensionIsOnItsWay, SuspensionIsEnforced, Sanctioning
<1>. QED  BY <1>1, ModerationInvariant, PTL

=============================================================================

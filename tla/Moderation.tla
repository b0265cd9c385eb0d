----------------------------- MODULE Moderation -----------------------------
(***************************************************************************)
(* Reports of messages, the evidence an administrator must reveal before   *)
(* deciding one, and what a decision does to the message and its sender    *)
(* (backend/src/moderation, backend/src/admin-monitoring, the sanctions    *)
(* and profiles of backend/src/users, pages/Dashboard/Admin/index.tsx).    *)
(*                                                                         *)
(* A decision is carried out first (one write), recorded second (another). *)
(* The page has one dialog; what it shows is set by answers that arrive    *)
(* whatever has been opened or closed since they were asked for.           *)
(* A suspension outlasts the runs: its end is not modelled.                *)
(***************************************************************************)
EXTENDS Faults, Integers, FiniteSets

CONSTANTS
    User,           \* senders, reporters and administrators
    Reporter,       \* users who report messages
    Editor,         \* users who change their profile
    Admin,          \* users with the role admin
    Reviewer,       \* administrators who open the page
    Message,        \* the user messages that can be reported
    Sender,         \* Sender[m]: who sent m
    Report,         \* bound: ids of the reports ever stored
    Audit,          \* bound: ids of the access audits ever stored
    Handler,        \* bound: requests under way at once
    MaxWarnings,    \* bound: warnings of one account
    None            \* no record, no id

ASSUME ModerationConstants ==
    /\ Admin \union Reporter \union Editor \subseteq User
    /\ Reviewer \subseteq Admin
    /\ Sender \in [Message -> User]
    /\ MaxWarnings \in Nat
    /\ None \notin User \union Message \union Report \union Audit

VARIABLES
    deleted,        \* messages with deletedAt, in memory
    storedDeleted,
    account,        \* UsersService.users: warnings and suspension
    storedAccount,
    reports,        \* ModerationService.reports
    storedReports,
    audits,         \* AdminMonitoringService.accessAudits
    storedAudits,
    req,            \* the requests under way
    dialog,         \* the dialog of each administrator's page
    overwritten     \* history: accounts whose sanction memory has missed

memory == <<deleted, account, reports, audits>>

tables == <<storedDeleted, storedAccount, storedReports, storedAudits>>

vars == <<memory, tables, req, dialog, overwritten>>

ResolutionAction == {"dismiss", "delete_message", "warn_user", "suspend_user"}

Account == [warnings : 0 .. MaxWarnings, suspended : BOOLEAN]

ReportRecord ==
    [message : Message, reporter : User, action : ResolutionAction \union {None},
     reviewer : Admin \union {None}, evidence : Audit \union {None}]

AuditRecord == [admin : Admin, message : Message]

ASSUME NoneIsNoRecord ==
    None \notin ResolutionAction \union Account \union ReportRecord \union AuditRecord

Step == {"idle", "insertReport", "reportStored", "insertAudit", "auditStored",
         "storeAction", "actionStored", "storeDecision", "decisionStored",
         "storeProfile", "profileStored", "ok", "failed"}

Request ==
    [step : Step, by : User \union {None}, report : Report \union {None},
     message : Message \union {None}, audit : Audit \union {None},
     action : ResolutionAction \union {None}, copy : Account \union {None}]

Idle == [step |-> "idle", by |-> None, report |-> None, message |-> None,
         audit |-> None, action |-> None, copy |-> None]

\* selectedReport, selectedMessage, revealedAuditId, and the two busy flags.
Dialog == [report : Report \union {None}, message : Message \union {None},
           audit : Audit \union {None}, busy : SUBSET {"revealing", "resolving"}]

Closed == [report |-> None, message |-> None, audit |-> None, busy |-> {}]

TypeOK ==
    /\ deleted \subseteq Message
    /\ storedDeleted \subseteq Message
    /\ account \in [User -> Account]
    /\ storedAccount \in [User -> Account]
    /\ reports \in [Report -> ReportRecord \union {None}]
    /\ storedReports \in [Report -> ReportRecord \union {None}]
    /\ audits \in [Audit -> AuditRecord \union {None}]
    /\ storedAudits \in [Audit -> AuditRecord \union {None}]
    /\ req \in [Handler -> Request]
    /\ dialog \in [Reviewer -> Dialog]
    /\ overwritten \subseteq User

Init ==
    /\ deleted = {}
    /\ storedDeleted = {}
    /\ account = [u \in User |-> [warnings |-> 0, suspended |-> FALSE]]
    /\ storedAccount = account
    /\ reports = [r \in Report |-> None]
    /\ storedReports = reports
    /\ audits = [x \in Audit |-> None]
    /\ storedAudits = audits
    /\ req = [h \in Handler |-> Idle]
    /\ dialog = [a \in Reviewer |-> Closed]
    /\ overwritten = {}

-----------------------------------------------------------------------------
Pending(r) == reports[r] # None /\ reports[r].action = None

\* isVisibleToAdmin: nobody reviews a report of their own message.
Visible(a, r) == reports[r] # None /\ Sender[reports[r].message] # a

\* JwtStrategy.validate: a suspended user is refused.
MayAct(u) == ~account[u].suspended

\* Ids are random: one is new if neither table nor request has it.
NewReport(r) == storedReports[r] = None /\ \A h \in Handler : req[h].report # r

NewAudit(x) == storedAudits[x] = None /\ \A h \in Handler : req[h].audit # x

\* A sanction of u is under way.
Sanctioning(u) ==
    \E h \in Handler : /\ req[h].step \in {"storeAction", "actionStored"}
                       /\ req[h].action \in {"warn_user", "suspend_user"}
                       /\ Sender[req[h].message] = u

Proceed(h, step) == req' = [req EXCEPT ![h].step = step]

-----------------------------------------------------------------------------
\* createReport, up to its write.
CreateReport(h, u, m) ==
    /\ req[h].step = "idle"
    /\ MayAct(u)
    /\ m \notin deleted
    /\ Sender[m] # u
    /\ \A r \in Report :
          reports[r] # None => ~(reports[r].message = m /\ reports[r].reporter = u)
    /\ \E r \in Report :
          /\ NewReport(r)
          /\ req' = [req EXCEPT ![h] = [Idle EXCEPT !.step = "insertReport", !.by = u,
                                          !.report = r, !.message = m]]
    /\ UNCHANGED <<memory, tables, dialog, overwritten>>

NewRecord(h) == [message |-> req[h].message, reporter |-> req[h].by,
                 action |-> None, reviewer |-> None, evidence |-> None]

\* The unique index on message and reporter refuses a second report.
InsertReport(h) ==
    /\ req[h].step = "insertReport"
    /\ IF \E r \in Report : /\ storedReports[r] # None
                            /\ storedReports[r].message = req[h].message
                            /\ storedReports[r].reporter = req[h].by
          THEN /\ req' = [req EXCEPT ![h] = Idle]
               /\ UNCHANGED storedReports
          ELSE /\ storedReports' = [storedReports EXCEPT ![req[h].report] = NewRecord(h)]
               /\ Proceed(h, "reportStored")
    /\ UNCHANGED <<memory, storedDeleted, storedAccount, storedAudits, dialog, overwritten>>

FinishReport(h) ==
    /\ req[h].step = "reportStored"
    /\ reports' = [reports EXCEPT ![req[h].report] = NewRecord(h)]
    /\ req' = [req EXCEPT ![h] = Idle]
    /\ UNCHANGED <<deleted, account, audits, tables, dialog, overwritten>>

-----------------------------------------------------------------------------
\* openModerationReview: a report the page has listed as pending, maybe long
\* ago.  What an earlier answer has revealed is left in place.
OpenReview(a, r) ==
    /\ dialog[a].message = None
    /\ Visible(a, r)
    /\ dialog' = [dialog EXCEPT ![a].report = r, ![a].message = reports[r].message]
    /\ UNCHANGED <<memory, tables, req, overwritten>>

\* The reveal button of the message table.
OpenMessage(a, m) ==
    /\ dialog[a].message = None
    /\ dialog' = [dialog EXCEPT ![a].message = m]
    /\ UNCHANGED <<memory, tables, req, overwritten>>

\* closeReveal, also while a request of the dialog is under way.
CloseDialog(a) ==
    /\ dialog[a].message # None
    /\ dialog' = [dialog EXCEPT ![a] = Closed]
    /\ UNCHANGED <<memory, tables, req, overwritten>>

\* The form of a message whose content is not shown yet.
RevealForm(a) ==
    /\ dialog[a].message # None
    /\ dialog[a].audit = None
    /\ "revealing" \notin dialog[a].busy

\* submitReveal and revealMessage, up to its write; a deleted message is gone.
Reveal(h, a) ==
    LET m == dialog[a].message
    IN /\ req[h].step = "idle"
       /\ MayAct(a)
       /\ RevealForm(a)
       /\ dialog' = [dialog EXCEPT ![a].busy = @ \union {"revealing"}]
       /\ IF m \in deleted
             THEN req' = [req EXCEPT ![h] = [Idle EXCEPT !.step = "failed", !.by = a]]
             ELSE \E x \in Audit :
                     /\ NewAudit(x)
                     /\ req' = [req EXCEPT ![h] = [Idle EXCEPT !.step = "insertAudit",
                                  !.by = a, !.message = m, !.audit = x]]
       /\ UNCHANGED <<memory, tables, overwritten>>

AuditOf(h) == [admin |-> req[h].by, message |-> req[h].message]

InsertAudit(h) ==
    /\ req[h].step = "insertAudit"
    /\ storedAudits' = [storedAudits EXCEPT ![req[h].audit] = AuditOf(h)]
    /\ Proceed(h, "auditStored")
    /\ UNCHANGED <<memory, storedDeleted, storedAccount, storedReports, dialog, overwritten>>

FinishReveal(h) ==
    /\ req[h].step = "auditStored"
    /\ audits' = [audits EXCEPT ![req[h].audit] = AuditOf(h)]
    /\ Proceed(h, "ok")
    /\ UNCHANGED <<deleted, account, reports, tables, dialog, overwritten>>

\* Mutant of MatchingAudit: any audit of the administrator will do.
AnyAudit(x, a, m) == audits[x] # None /\ audits[x].admin = a

\* assertMatchingAudit.
MatchingAudit(x, a, m) == audits[x] = [admin |-> a, message |-> m]

\* The form of a report, once content is shown: it does not ask whose.
DecisionForm(a) ==
    /\ dialog[a].report # None
    /\ dialog[a].audit # None
    /\ "resolving" \notin dialog[a].busy

\* submitResolution.
Submit(h, a) ==
    /\ req[h].step = "idle"
    /\ MayAct(a)
    /\ DecisionForm(a)
    /\ dialog' = [dialog EXCEPT ![a].busy = @ \union {"resolving"}]

\* resolveReport accepts the action.
MayResolve(a, r, x, action) ==
    /\ Pending(r)
    /\ Visible(a, r)
    /\ MatchingAudit(x, a, reports[r].message)
    /\ action \in {"warn_user", "suspend_user"} => Sender[reports[r].message] \notin Admin
    /\ action = "delete_message" => reports[r].message \notin deleted

Decision(a, r, step, action) ==
    [Idle EXCEPT !.step = step, !.by = a, !.report = r, !.message = reports[r].message,
                 !.audit = dialog[a].audit, !.action = action]

\* The status and the fields of the decision, set in memory together.
Decided(d) == [reports EXCEPT ![d.report] =
                 [@ EXCEPT !.action = d.action, !.reviewer = d.by, !.evidence = d.audit]]

RefuseResolution(h, a, action) ==
    LET r == dialog[a].report
    IN /\ Submit(h, a)
       /\ ~MayResolve(a, r, dialog[a].audit, action)
       /\ req' = [req EXCEPT ![h] = [Idle EXCEPT !.step = "failed", !.by = a,
                                       !.report = r, !.action = action]]
       /\ UNCHANGED <<memory, tables, overwritten>>

\* resolveReport with "dismiss": only the decision is written.
Dismiss(h, a) ==
    LET r == dialog[a].report
        d == Decision(a, r, "storeDecision", "dismiss")
    IN /\ Submit(h, a)
       /\ MayResolve(a, r, dialog[a].audit, "dismiss")
       /\ reports' = Decided(d)
       /\ req' = [req EXCEPT ![h] = d]
       /\ UNCHANGED <<deleted, account, audits, tables, overwritten>>

\* resolveReport with deleteMessageAsAdmin, up to persistMessageUpdate.
DeleteReported(h, a) ==
    LET r == dialog[a].report
    IN /\ Submit(h, a)
       /\ MayResolve(a, r, dialog[a].audit, "delete_message")
       /\ deleted' = deleted \union {reports[r].message}
       /\ req' = [req EXCEPT ![h] = Decision(a, r, "storeAction", "delete_message")]
       /\ UNCHANGED <<account, reports, audits, tables, overwritten>>

\* resolveReport with addModerationWarning or suspendUser, up to its write:
\* the warning count is taken from memory now.
Sanction(h, a, action) ==
    LET r == dialog[a].report
        u == Sender[reports[r].message]
        copy == IF action = "warn_user"
                   THEN [account[u] EXCEPT !.warnings = @ + 1]
                   ELSE [account[u] EXCEPT !.suspended = TRUE]
    IN /\ action \in {"warn_user", "suspend_user"}
       /\ Submit(h, a)
       /\ MayResolve(a, r, dialog[a].audit, action)
       /\ copy.warnings <= MaxWarnings
       /\ req' = [req EXCEPT ![h] = [Decision(a, r, "storeAction", action)
                                       EXCEPT !.copy = copy]]
       /\ UNCHANGED <<memory, tables, overwritten>>

\* The database carries out the action of request h.
StoreAction(h) ==
    LET u == Sender[req[h].message]
    IN /\ req[h].step = "storeAction"
       /\ storedDeleted' = IF req[h].action = "delete_message"
                              THEN storedDeleted \union {req[h].message} ELSE storedDeleted
       /\ storedAccount' =
             CASE req[h].action = "warn_user" ->
                     [storedAccount EXCEPT ![u].warnings = req[h].copy.warnings]
               [] req[h].action = "suspend_user" ->
                     [storedAccount EXCEPT ![u].suspended = TRUE]
               [] OTHER -> storedAccount
       /\ Proceed(h, "actionStored")
       /\ UNCHANGED <<memory, storedReports, storedAudits, dialog, overwritten>>

\* Mutant of FinishAction: only the count of warnings reaches memory.
FinishActionForWarnings(h) ==
    LET u == Sender[req[h].message]
    IN /\ req[h].step = "actionStored"
       /\ account' = IF req[h].action = "warn_user"
                        THEN [account EXCEPT ![u].warnings = req[h].copy.warnings]
                        ELSE account
       /\ reports' = Decided(req[h])
       /\ req' = [req EXCEPT ![h].step = "storeDecision", ![h].copy = None]
       /\ UNCHANGED <<deleted, audits, tables, dialog, overwritten>>

\* Mutant of FinishAction: the action is not awaited.
FinishActionAtOnce(h) ==
    /\ req[h].step = "storeAction"
    /\ reports' = Decided(req[h])
    /\ req' = [req EXCEPT ![h].step = "storeDecision", ![h].copy = None]
    /\ UNCHANGED <<deleted, account, audits, tables, dialog, overwritten>>

\* The action is answered: memory follows, and the decision is recorded,
\* whatever the report has become since.
FinishAction(h) ==
    LET u == Sender[req[h].message]
    IN /\ req[h].step = "actionStored"
       /\ account' =
             CASE req[h].action = "warn_user" ->
                     [account EXCEPT ![u].warnings = req[h].copy.warnings]
               [] req[h].action = "suspend_user" ->
                     [account EXCEPT ![u].suspended = TRUE]
               [] OTHER -> account
       /\ reports' = Decided(req[h])
       /\ req' = [req EXCEPT ![h].step = "storeDecision", ![h].copy = None]
       /\ UNCHANGED <<deleted, audits, tables, dialog, overwritten>>

StoreDecision(h) ==
    /\ req[h].step = "storeDecision"
    /\ storedReports' = [storedReports EXCEPT ![req[h].report] =
          [@ EXCEPT !.action = req[h].action, !.reviewer = req[h].by,
                    !.evidence = req[h].audit]]
    /\ Proceed(h, "decisionStored")
    /\ UNCHANGED <<memory, storedDeleted, storedAccount, storedAudits, dialog, overwritten>>

FinishResolution(h) ==
    /\ req[h].step = "decisionStored"
    /\ Proceed(h, "ok")
    /\ UNCHANGED <<memory, tables, dialog, overwritten>>

\* The dialog d when request q is answered: a reveal shows its content in
\* whatever dialog is open, or in the next one; a decision closes whatever
\* dialog is open.
Answered(d, q) ==
    CASE q.step = "ok" /\ q.action # None -> Closed
      [] q.step = "ok" -> [d EXCEPT !.audit = q.audit, !.busy = @ \ {"revealing"}]
      [] q.action # None -> [d EXCEPT !.busy = @ \ {"resolving"}]
      [] OTHER -> [d EXCEPT !.busy = @ \ {"revealing"}]

\* The answer reaches the page.
PageAnswered(h) ==
    /\ req[h].step \in {"ok", "failed"}
    /\ dialog' = [dialog EXCEPT ![req[h].by] = Answered(@, req[h])]
    /\ req' = [req EXCEPT ![h] = Idle]
    /\ UNCHANGED <<memory, tables, overwritten>>

-----------------------------------------------------------------------------
\* The sender deletes the message (deleteMessage, its write included).
DeleteOwn(m) ==
    /\ MayAct(Sender[m])
    /\ m \notin deleted
    /\ deleted' = deleted \union {m}
    /\ storedDeleted' = storedDeleted \union {m}
    /\ UNCHANGED <<account, reports, audits, storedAccount, storedReports, storedAudits,
                   req, dialog, overwritten>>

\* updateProfile copies the whole account, and writes the profile ...
UpdateProfile(h, u) ==
    /\ req[h].step = "idle"
    /\ MayAct(u)
    /\ req' = [req EXCEPT ![h] = [Idle EXCEPT !.step = "storeProfile", !.by = u,
                                              !.copy = account[u]]]
    /\ UNCHANGED <<memory, tables, dialog, overwritten>>

StoreProfile(h) ==
    /\ req[h].step = "storeProfile"
    /\ Proceed(h, "profileStored")
    /\ UNCHANGED <<memory, tables, dialog, overwritten>>

\* ... and assigns the copy to the account when the write is answered.
FinishProfile(h) ==
    /\ req[h].step = "profileStored"
    /\ account' = [account EXCEPT ![req[h].by] = req[h].copy]
    /\ overwritten' = IF account' = account THEN overwritten
                      ELSE overwritten \union {req[h].by}
    /\ req' = [req EXCEPT ![h] = Idle]
    /\ UNCHANGED <<deleted, reports, audits, tables, dialog>>

-----------------------------------------------------------------------------
\* A write fails, or was executed and its answer is lost: the handler throws.
DbFails(h) ==
    /\ DbMayFail
    /\ req[h].step \notin {"idle", "ok", "failed"}
    /\ req' = [req EXCEPT ![h] =
          IF req[h].step \in {"insertReport", "reportStored",
                              "storeProfile", "profileStored"}
             THEN Idle ELSE [@ EXCEPT !.step = "failed", !.copy = None]]
    /\ overwritten' = IF /\ req[h].step = "actionStored"
                         /\ req[h].action \in {"warn_user", "suspend_user"}
                         THEN overwritten \union {Sender[req[h].message]} ELSE overwritten
    /\ UNCHANGED <<memory, tables, dialog>>

\* onModuleInit of the services; the pages see their requests fail.
Restart ==
    /\ MayRestart
    /\ deleted' = storedDeleted
    /\ account' = storedAccount
    /\ reports' = storedReports
    /\ audits' = storedAudits
    /\ req' = [h \in Handler |-> Idle]
    /\ dialog' = [a \in Reviewer |-> [dialog[a] EXCEPT !.busy = {}]]
    /\ overwritten' = {}
    /\ UNCHANGED tables

-----------------------------------------------------------------------------
Next ==
    \/ \E h \in Handler :
          \/ \E u \in Reporter, m \in Message : CreateReport(h, u, m)
          \/ \E u \in Editor : UpdateProfile(h, u)
          \/ \E a \in Reviewer :
                \/ Reveal(h, a)
                \/ Dismiss(h, a)
                \/ DeleteReported(h, a)
                \/ \E action \in ResolutionAction :
                      Sanction(h, a, action) \/ RefuseResolution(h, a, action)
          \/ InsertReport(h) \/ FinishReport(h)
          \/ InsertAudit(h) \/ FinishReveal(h)
          \/ StoreAction(h) \/ FinishAction(h)
          \/ StoreDecision(h) \/ FinishResolution(h)
          \/ StoreProfile(h) \/ FinishProfile(h)
          \/ PageAnswered(h)
          \/ DbFails(h)
    \/ \E a \in Reviewer :
          \/ \E r \in Report : OpenReview(a, r)
          \/ \E m \in Message : OpenMessage(a, m)
          \/ CloseDialog(a)
    \/ \E m \in Message : DeleteOwn(m)
    \/ Restart

Spec == Init /\ [][Next]_vars

-----------------------------------------------------------------------------
\* Whoever decided a report had revealed that report's message, and the audit
\* that says so is stored: a decision never outlives its evidence.
EvidenceIsKept ==
    \A r \in Report, table \in {reports, storedReports} :
       table[r] # None /\ table[r].action # None =>
          /\ table[r].evidence # None
          /\ storedAudits[table[r].evidence] =
                [admin |-> table[r].reviewer, message |-> table[r].message]

\* What a stored decision says has been done is stored as done, whatever was
\* cut short between the two writes.
DecisionIsCarriedOut ==
    \A r \in Report :
       LET report == storedReports[r]
       IN report # None =>
            /\ report.action = "delete_message" => report.message \in storedDeleted
            /\ report.action = "warn_user" =>
                  storedAccount[Sender[report.message]].warnings > 0
            /\ report.action = "suspend_user" =>
                  storedAccount[Sender[report.message]].suspended

\* A suspension that is stored locks its user out, unless the backend is
\* still to be told of it, lost the answer, or overwrote it with the copy of
\* a profile change begun before.
SuspensionIsEnforced ==
    \A u \in User \ overwritten :
       storedAccount[u].suspended => account[u].suspended \/ Sanctioning(u)
=============================================================================

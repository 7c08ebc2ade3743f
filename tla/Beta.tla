------------------------------- MODULE Beta -------------------------------
(***************************************************************************)
(* The closed beta: a user's one tester application, submitted (or          *)
(* submitted again after a decline) by submitTesterApplication, approved on *)
(* sight for staff by ensureStaffEnrollment, and decided by the events      *)
(* Bifrost sends through the Vortex webhook, which delivers each at least   *)
(* once and in any order.  The gate admits by what the row says.            *)
(***************************************************************************)
EXTENDS Naturals, FiniteSets

CONSTANTS
  User,
  Staff,          \* users with an address in a staff domain
  Handler,        \* requests under way in the API at once
  MaxDecisions,   \* bound on decisions reviewers make
  MaxFaults       \* bound on handlers that die and deliveries of what was answered

ASSUME BetaParameters == /\ Staff \subseteq User
                         /\ IsFiniteSet(Handler)
                         /\ MaxDecisions \in Nat

VARIABLES app,        \* tester_application, one row per user
          submitted,  \* users an application.submitted event reached Bifrost for
          sent,       \* application.decided events
          acked,      \* those the webhook answered 200
          handler,
          emails,     \* User -> acceptance emails sent
          approvals,  \* User -> times a decision turned the row to approved
          faults

vars == <<app, submitted, sent, acked, handler, emails, approvals, faults>>
row == <<app, approvals>>

Status == {"pending", "approved", "declined"}
Note == {"none", "staff"}
NoRow == [status |-> "none", note |-> "none"]

Product == {"arbor", "other"}
Decision == [id : 1..MaxDecisions, product : Product, user : User, decision : {"approved", "declined"}]

Idle == [pc |-> "idle"]
Request == {Idle} \cup [pc : {"submit"}, user : User, existing : BOOLEAN]
                  \cup [pc : {"enroll"}, user : Staff]
                  \cup [pc : {"apply", "mail"}, d : Decision, prior : Status \cup {"none"}]

TypeOK ==
  /\ app \in [User -> [status : Status, note : Note] \cup {NoRow}]
  /\ submitted \subseteq User
  /\ sent \subseteq Decision /\ IsFiniteSet(sent) /\ acked \subseteq Decision
  /\ handler \in [Handler -> Request]
  /\ emails \in [User -> Nat] /\ approvals \in [User -> Nat]

Init ==
  /\ app = [u \in User |-> NoRow]
  /\ submitted = {} /\ sent = {} /\ acked = {}
  /\ handler = [h \in Handler |-> Idle]
  /\ emails = [u \in User |-> 0]
  /\ approvals = [u \in User |-> 0]
  /\ faults = 0

Become(h, record) == handler' = [handler EXCEPT ![h] = record]

\* The submitted event is sent without waiting for it and may be lost.
submitApplication(u) == submitted' \in {submitted, submitted \cup {u}}

-----------------------------------------------------------------------------
\* submitTesterApplication, with the terms accepted

ReadForSubmit(h, u) ==
  /\ handler[h].pc = "idle"
  /\ app[u].status \notin {"pending", "approved"}
  /\ Become(h, [pc |-> "submit", user |-> u, existing |-> app[u] # NoRow])
  /\ UNCHANGED <<row, submitted, sent, acked, emails, faults>>

\* A row read before is updated whatever its status is by now; a first one is refused
\* by the unique index when another was inserted meanwhile.
submitTesterApplication(h) ==
  LET u == handler[h].user
  IN  /\ handler[h].pc = "submit"
      /\ IF ~handler[h].existing /\ app[u] # NoRow
           THEN UNCHANGED <<app, submitted>>
           ELSE /\ app' = [app EXCEPT ![u] = [status |-> "pending", note |-> "none"]]
                /\ submitApplication(u)
      /\ Become(h, Idle)
      /\ UNCHANGED <<sent, acked, emails, approvals, faults>>

-----------------------------------------------------------------------------
\* ensureStaffEnrollment, in the authentication of every request of a staff member

isStaffEmail(u) == u \in Staff

ReadForEnrollment(h, u) ==
  /\ handler[h].pc = "idle" /\ isStaffEmail(u)
  /\ app[u] = NoRow
  /\ Become(h, [pc |-> "enroll", user |-> u])
  /\ UNCHANGED <<row, submitted, sent, acked, emails, faults>>

ensureStaffEnrollment(h) ==
  LET u == handler[h].user
  IN  /\ handler[h].pc = "enroll"
      /\ IF app[u] # NoRow
           THEN UNCHANGED <<app, submitted>>
           ELSE /\ app' = [app EXCEPT ![u] = [status |-> "approved", note |-> "staff"]]
                /\ submitApplication(u)
      /\ Become(h, Idle)
      /\ UNCHANGED <<sent, acked, emails, approvals, faults>>

-----------------------------------------------------------------------------
\* Bifrost and Vortex (external): a reviewer decides an application there is, of this
\* product or of another on the same stream; Vortex delivers until it is answered 200,
\* and now and then again.

Decide(u, product, decision) ==
  /\ Cardinality(sent) < MaxDecisions
  /\ product = "arbor" => u \in submitted
  /\ sent' = sent \cup {[id |-> Cardinality(sent) + 1, product |-> product,
                         user |-> u, decision |-> decision]}
  /\ UNCHANGED <<row, submitted, acked, handler, emails, faults>>

\* processApplicationDecision reads the status before applying.
Deliver(h, d) ==
  /\ handler[h].pc = "idle"
  /\ IF d \in acked
       THEN faults < MaxFaults /\ faults' = faults + 1
       ELSE UNCHANGED faults
  /\ Become(h, [pc |-> "apply", d |-> d, prior |-> app[d.user].status])
  /\ UNCHANGED <<row, submitted, sent, acked, emails>>

Answer200(h) == /\ acked' = acked \cup {handler[h].d}
                /\ Become(h, Idle)

\* The row the update touches, if any
affects(d) == app[d.user] # NoRow /\ app[d.user].note # "staff"

\* Mutant: a decision about any product is taken
acceptsAny(d) == TRUE

accepts(d) == d.product = "arbor"

\* Mutant: the prior status is not looked at
alwaysSend(prior, d) == d.decision = "approved"

shouldSendAcceptanceEmail(prior, d) == d.decision = "approved" /\ prior # "approved"

\* The note a decision carries, or none of it, replaces the row's note.
applyDecision(d) ==
  /\ app' = [app EXCEPT ![d.user] = [status |-> d.decision, note |-> "none"]]
  /\ approvals' = [approvals EXCEPT ![d.user] =
       IF d.decision = "approved" /\ app[d.user].status # "approved" THEN @ + 1 ELSE @]

\* Mutant: a decision that touches no row is an error
ApplyStrictly(h) ==
  LET d == handler[h].d
  IN  /\ handler[h].pc = "apply"
      /\ \/ /\ accepts(d) /\ affects(d)
            /\ applyDecision(d)
            /\ Answer200(h)
         \/ /\ ~(accepts(d) /\ affects(d))
            /\ Become(h, Idle)
            /\ UNCHANGED <<row, acked>>
      /\ UNCHANGED <<submitted, sent, emails, faults>>

Apply(h) ==
  LET d == handler[h].d
  IN  /\ handler[h].pc = "apply"
      /\ \/ /\ accepts(d) /\ affects(d)
            /\ applyDecision(d)
            /\ IF shouldSendAcceptanceEmail(handler[h].prior, d)
                 THEN Become(h, [handler[h] EXCEPT !.pc = "mail"]) /\ UNCHANGED acked
                 ELSE Answer200(h)
         \/ /\ ~(accepts(d) /\ affects(d))
            /\ Answer200(h)
            /\ UNCHANGED row
         \/ /\ Become(h, Idle)             \* the database failed: 500
            /\ UNCHANGED <<row, acked>>
      /\ UNCHANGED <<submitted, sent, emails, faults>>

\* Best effort: a failure to send is swallowed.
SendEmail(h) ==
  /\ handler[h].pc = "mail"
  /\ emails' \in {emails, [emails EXCEPT ![handler[h].d.user] = @ + 1]}
  /\ Answer200(h)
  /\ UNCHANGED <<row, submitted, sent, faults>>

Crash(h) == /\ faults < MaxFaults /\ handler[h].pc # "idle"
            /\ faults' = faults + 1
            /\ Become(h, Idle)
            /\ UNCHANGED <<row, submitted, sent, acked, emails>>

Step(h) == submitTesterApplication(h) \/ ensureStaffEnrollment(h) \/ Apply(h) \/ SendEmail(h)

Next ==
  \/ \E h \in Handler :
       \/ \E u \in User : ReadForSubmit(h, u) \/ ReadForEnrollment(h, u)
       \/ \E d \in sent : Deliver(h, d)
       \/ Step(h)
       \/ Crash(h)
  \/ \E u \in User, product \in Product, decision \in {"approved", "declined"} :
       Decide(u, product, decision)

\* Vortex retries what is not answered 200, handlers resume, and the database does not
\* fail each time.
Fairness ==
  /\ \A h \in Handler : WF_vars(Step(h))
  /\ \A i \in 1..MaxDecisions :
       /\ SF_vars(\E h \in Handler, d \in sent \ acked : d.id = i /\ Deliver(h, d))
       /\ SF_vars(\E h \in Handler : /\ handler[h].pc = "apply" /\ handler[h].d.id = i
                                     /\ Apply(h)
                                     /\ handler'[h].pc = "mail" \/ acked' # acked)

Spec == Init /\ [][Next]_vars
FairSpec == Spec /\ Fairness

-----------------------------------------------------------------------------
\* The gate (resolveBetaAllowed after launch, for a caller in neither the configured
\* list nor a billing-bypass organization)

isWhitelisted(u) == app[u].status = "approved"

resolveBetaAllowed(u) == isStaffEmail(u) \/ isWhitelisted(u)

-----------------------------------------------------------------------------
\* Properties

\* Outside the staff, access is earned: some reviewer approved this user's application to
\* this product, whatever is decided about others, for other products, twice or out of
\* order (beta/decisionConsumer.ts, "Fail-closed").
AccessIsEarned ==
  \A u \in User \ Staff :
    resolveBetaAllowed(u)
      => \E d \in sent : d.user = u /\ d.product = "arbor" /\ d.decision = "approved"

\* "so a re-delivered decision for an already-approved row does not send a duplicate"
\* (beta/processDecision.ts): only deliveries that overlap a change to approved send an
\* email, at most one for each request under way.
EmailsFollowApprovals ==
  \A u \in User : emails[u] <= Cardinality(Handler) * approvals[u]

\* Every decision is answered 200 in the end, through failures of the database, deaths
\* and deliveries for users without an application (beta/vortexWebhook.ts,
\* handleVortexDelivery).
DecisionsAreAnswered ==
  \A i \in 1..MaxDecisions :
    (\E d \in sent : d.id = i) ~> (\E d \in acked : d.id = i)
=============================================================================

----------------------------- MODULE BetaProofs -----------------------------
(***************************************************************************)
(* Theorems about Beta, for every set of users, staff and requests.        *)
(***************************************************************************)
EXTENDS Beta, FiniteSetTheorems, TLAPS

-----------------------------------------------------------------------------
(***************************************************************************)
(* Type correctness.  Every step replaces the record of one request.       *)
(***************************************************************************)

LEMMA TypeInit == Init => TypeOK
<1> SUFFICES ASSUME Init PROVE TypeOK
    OBVIOUS
<1>1. IsFiniteSet(sent)
  BY FS_EmptySet DEF Init
<1> QED
  BY <1>1 DEF Init, TypeOK, Request, Idle, NoRow

LEMMA BecomeType ==
  ASSUME TypeOK, NEW h \in Handler, NEW r \in Request, Become(h, r)
  PROVE  handler' \in [Handler -> Request]
BY DEF TypeOK, Become

\* A request about a decision holds one, and may go on to send its e-mail.
LEMMA DecidingShape ==
  ASSUME NEW r \in Request, r.pc \in {"apply", "mail"}
  PROVE  /\ r \in [pc : {"apply", "mail"}, d : Decision, prior : Status \cup {"none"}]
         /\ r.d \in Decision /\ r.prior \in Status \cup {"none"}
         /\ [r EXCEPT !.pc = "mail"] \in Request
         /\ [r EXCEPT !.pc = "mail"].d = r.d
         /\ [r EXCEPT !.pc = "mail"].pc = "mail"
BY DEF Request, Idle

LEMMA AppType ==
  ASSUME TypeOK, NEW u \in User, NEW s \in Status, NEW n \in Note,
         app' = [app EXCEPT ![u] = [status |-> s, note |-> n]]
  PROVE  app' \in [User -> [status : Status, note : Note] \cup {NoRow}]
BY DEF TypeOK

LEMMA TypeStep == TypeOK /\ [Next]_vars => TypeOK'
<1> SUFFICES ASSUME TypeOK, [Next]_vars PROVE TypeOK'
    OBVIOUS
<1>1. ASSUME NEW h \in Handler, NEW u \in User, ReadForSubmit(h, u)
      PROVE  TypeOK'
  <2>1. [pc |-> "submit", user |-> u, existing |-> app[u] # NoRow] \in Request
    BY DEF Request
  <2>2. handler' \in [Handler -> Request]
    BY <1>1, <2>1, BecomeType DEF ReadForSubmit
  <2> QED
    BY <1>1, <2>2 DEF ReadForSubmit, TypeOK, row
<1>2. ASSUME NEW h \in Handler, NEW u \in User, ReadForEnrollment(h, u)
      PROVE  TypeOK'
  <2>1. [pc |-> "enroll", user |-> u] \in Request
    BY <1>2 DEF Request, ReadForEnrollment, isStaffEmail
  <2>2. handler' \in [Handler -> Request]
    BY <1>2, <2>1, BecomeType DEF ReadForEnrollment
  <2> QED
    BY <1>2, <2>2 DEF ReadForEnrollment, TypeOK, row
<1>3. ASSUME NEW h \in Handler, submitTesterApplication(h)
      PROVE  TypeOK'
  <2>1. handler[h].user \in User
    BY <1>3, BetaParameters DEF TypeOK, Request, Idle, submitTesterApplication
  <2>2. handler' \in [Handler -> Request]
    BY <1>3, BecomeType DEF submitTesterApplication, Request
  <2>3. app' \in [User -> [status : Status, note : Note] \cup {NoRow}] /\ submitted' \subseteq User
    BY <1>3, <2>1, AppType DEF submitTesterApplication, submitApplication, TypeOK, Status, Note
  <2> QED
    BY <1>3, <2>2, <2>3 DEF submitTesterApplication, TypeOK
<1>4. ASSUME NEW h \in Handler, ensureStaffEnrollment(h)
      PROVE  TypeOK'
  <2>1. handler[h].user \in User
    BY <1>4, BetaParameters DEF TypeOK, Request, Idle, ensureStaffEnrollment
  <2>2. handler' \in [Handler -> Request]
    BY <1>4, BecomeType DEF ensureStaffEnrollment, Request
  <2>3. app' \in [User -> [status : Status, note : Note] \cup {NoRow}] /\ submitted' \subseteq User
    BY <1>4, <2>1, AppType DEF ensureStaffEnrollment, submitApplication, TypeOK, Status, Note
  <2> QED
    BY <1>4, <2>2, <2>3 DEF ensureStaffEnrollment, TypeOK
<1>5. ASSUME NEW h \in Handler, NEW d \in sent, Deliver(h, d)
      PROVE  TypeOK'
  <2>1. app[d.user].status \in Status \cup {"none"}
    BY DEF TypeOK, Decision, NoRow
  <2>2. [pc |-> "apply", d |-> d, prior |-> app[d.user].status] \in Request
    BY <2>1 DEF Request, TypeOK
  <2>3. handler' \in [Handler -> Request]
    BY <1>5, <2>2, BecomeType DEF Deliver
  <2> QED
    BY <1>5, <2>3 DEF Deliver, TypeOK, row
<1>6. ASSUME NEW h \in Handler, Apply(h)
      PROVE  TypeOK'
  <2> DEFINE r == handler[h]
  <2>1. /\ r.d \in Decision
        /\ [r EXCEPT !.pc = "mail"] \in Request
    BY <1>6, DecidingShape DEF Apply, TypeOK
  <2>2. Idle \in Request
    BY DEF Request
  <2>3. handler' \in [Handler -> Request]
    BY <1>6, <2>1, <2>2, BecomeType DEF Apply, Answer200
  <2>4. acked' \subseteq Decision
    BY <1>6, <2>1 DEF Apply, Answer200, TypeOK
  <2>5. CASE applyDecision(r.d)
    <3>1. r.d.user \in User /\ r.d.decision \in Status
      BY <2>1 DEF Decision, Status
    <3>2. app' \in [User -> [status : Status, note : Note] \cup {NoRow}]
      BY <2>5, <3>1, AppType DEF applyDecision, Note
    <3>3. approvals' \in [User -> Nat]
      BY <2>5, <3>1 DEF applyDecision, TypeOK
    <3> QED
      BY <1>6, <2>3, <2>4, <3>2, <3>3 DEF Apply, TypeOK
  <2>6. CASE UNCHANGED row
    BY <1>6, <2>3, <2>4, <2>6 DEF Apply, TypeOK, row
  <2> QED
    BY <1>6, <2>5, <2>6 DEF Apply
<1>7. ASSUME NEW h \in Handler, SendEmail(h)
      PROVE  TypeOK'
  <2>1. handler[h].d \in Decision /\ Idle \in Request
    BY <1>7, DecidingShape DEF SendEmail, TypeOK, Request
  <2>2. handler' \in [Handler -> Request]
    BY <1>7, <2>1, BecomeType DEF SendEmail, Answer200
  <2>3. handler[h].d.user \in User
    BY <2>1 DEF Decision
  <2>4. emails' \in [User -> Nat]
    BY <1>7, <2>3 DEF SendEmail, TypeOK
  <2> QED
    BY <1>7, <2>1, <2>2, <2>4 DEF SendEmail, Answer200, TypeOK, row
<1>8. ASSUME NEW h \in Handler, Crash(h)
      PROVE  TypeOK'
  <2>1. handler' \in [Handler -> Request]
    BY <1>8, BecomeType DEF Crash, Request
  <2> QED
    BY <1>8, <2>1 DEF Crash, TypeOK, row
<1>9. ASSUME NEW u \in User, NEW product \in Product, NEW decision \in {"approved", "declined"},
             Decide(u, product, decision)
      PROVE  TypeOK'
  <2> DEFINE d == [id |-> Cardinality(sent) + 1, product |-> product,
                   user |-> u, decision |-> decision]
  <2>1. Cardinality(sent) \in Nat
    BY FS_CardinalityType DEF TypeOK
  <2>2. d \in Decision
    BY <1>9, <2>1, BetaParameters DEF Decide, Decision
  <2>3. sent' = sent \cup {d}
    BY <1>9 DEF Decide
  <2>4. IsFiniteSet(sent')
    BY <2>3, FS_AddElement DEF TypeOK
  <2> QED
    BY <1>9, <2>2, <2>3, <2>4 DEF Decide, TypeOK, row
<1>10. CASE UNCHANGED vars
  BY <1>10 DEF vars, TypeOK
<1> QED
  BY <1>1, <1>2, <1>3, <1>4, <1>5, <1>6, <1>7, <1>8, <1>9, <1>10 DEF Next, Step

\* Every variable keeps its type, for any users, staff and requests.
THEOREM TypeCorrect == Spec => []TypeOK
BY TypeInit, TypeStep, PTL DEF Spec

-----------------------------------------------------------------------------
(***************************************************************************)
(* Access is earned.  The row of somebody outside the staff is approved    *)
(* only by a decision that was sent, and a request that applies a decision *)
(* holds one that was sent.                                                *)
(***************************************************************************)

Earned(u) == \E d \in sent : d.user = u /\ d.product = "arbor" /\ d.decision = "approved"

ApprovalsAreEarned ==
  /\ \A h \in Handler : handler[h].pc \in {"apply", "mail"} => handler[h].d \in sent
  /\ \A u \in User \ Staff : app[u].status = "approved" => Earned(u)

LEMMA EarnedStep == TypeOK /\ ApprovalsAreEarned /\ [Next]_vars => ApprovalsAreEarned'
<1> SUFFICES ASSUME TypeOK, ApprovalsAreEarned, [Next]_vars PROVE ApprovalsAreEarned'
    OBVIOUS
<1>1. ASSUME sent' = sent, UNCHANGED app,
             NEW h \in Handler, NEW r, Become(h, r), r.pc \in {"apply", "mail"} => r.d \in sent
      PROVE  ApprovalsAreEarned'
  BY <1>1 DEF ApprovalsAreEarned, Earned, Become, TypeOK
<1>2. ASSUME NEW h \in Handler, NEW u \in User, ReadForSubmit(h, u) \/ ReadForEnrollment(h, u)
      PROVE  ApprovalsAreEarned'
  BY <1>1, <1>2 DEF ReadForSubmit, ReadForEnrollment, row
<1>3. ASSUME NEW h \in Handler, submitTesterApplication(h)
      PROVE  ApprovalsAreEarned'
  <2>1. \A u \in User : app'[u].status = "approved" => app[u].status = "approved"
    BY <1>3 DEF submitTesterApplication, TypeOK
  <2> QED
    BY <1>3, <2>1 DEF submitTesterApplication, ApprovalsAreEarned, Earned, Become, Idle, TypeOK
<1>4. ASSUME NEW h \in Handler, ensureStaffEnrollment(h)
      PROVE  ApprovalsAreEarned'
  <2>1. handler[h].user \in Staff
    BY <1>4 DEF ensureStaffEnrollment, TypeOK, Request, Idle
  <2>2. \A u \in User \ Staff : app'[u] = app[u]
    BY <1>4, <2>1 DEF ensureStaffEnrollment, TypeOK
  <2> QED
    BY <1>4, <2>2 DEF ensureStaffEnrollment, ApprovalsAreEarned, Earned, Become, Idle, TypeOK
<1>5. ASSUME NEW h \in Handler, NEW d \in sent, Deliver(h, d)
      PROVE  ApprovalsAreEarned'
  BY <1>1, <1>5 DEF Deliver, row
<1>6. ASSUME NEW h \in Handler, Apply(h)
      PROVE  ApprovalsAreEarned'
  <2> DEFINE r == handler[h]
  <2>1. r \in Request /\ r.pc = "apply"
    BY <1>6 DEF Apply, TypeOK
  <2>2. /\ r.d \in sent /\ r.d \in Decision
        /\ [r EXCEPT !.pc = "mail"].d = r.d
    BY <2>1, DecidingShape DEF ApprovalsAreEarned
  <2>3. CASE UNCHANGED app
    <3>1. Become(h, Idle) \/ Become(h, [r EXCEPT !.pc = "mail"])
      BY <1>6 DEF Apply, Answer200
    <3> QED
      BY <1>1, <1>6, <2>2, <2>3, <3>1 DEF Apply, Idle
  <2>4. CASE accepts(r.d) /\ applyDecision(r.d)
    <3>1. \A u \in User : app'[u].status = "approved" =>
            app[u].status = "approved" \/ (u = r.d.user /\ r.d.decision = "approved")
      BY <2>2, <2>4 DEF applyDecision, TypeOK
    <3>2. \A u \in User \ Staff : app'[u].status = "approved" => Earned(u)
      BY <2>2, <2>4, <3>1 DEF ApprovalsAreEarned, Earned, accepts
    <3>3. sent' = sent
      BY <1>6 DEF Apply
    <3>4. \A g \in Handler : handler'[g].pc \in {"apply", "mail"} => handler'[g].d \in sent
      <4>1. PICK q : Become(h, q) /\ (q.pc \in {"apply", "mail"} => q.d \in sent)
        BY <1>6, <2>2 DEF Apply, Answer200, Idle
      <4> QED
        BY <4>1 DEF Become, ApprovalsAreEarned, TypeOK
    <3> QED
      BY <3>2, <3>3, <3>4 DEF ApprovalsAreEarned, Earned
  <2> QED
    BY <1>6, <2>3, <2>4 DEF Apply, row
<1>7. ASSUME NEW h \in Handler, SendEmail(h) \/ Crash(h)
      PROVE  ApprovalsAreEarned'
  BY <1>1, <1>7 DEF SendEmail, Crash, Answer200, row, Idle
<1>8. ASSUME NEW u \in User, NEW product \in Product, NEW decision \in {"approved", "declined"},
             Decide(u, product, decision)
      PROVE  ApprovalsAreEarned'
  BY <1>8 DEF Decide, ApprovalsAreEarned, Earned, row
<1>9. CASE UNCHANGED vars
  BY <1>9 DEF vars, ApprovalsAreEarned, Earned
<1> QED
  BY <1>2, <1>3, <1>4, <1>5, <1>6, <1>7, <1>8, <1>9 DEF Next, Step

\* The beta gate admits nobody outside the staff whom no reviewer approved for this
\* product (beta/decisionConsumer.ts, whitelist.ts).
THEOREM EarnedAccess == Spec => []AccessIsEarned
<1>1. Init => ApprovalsAreEarned
  BY DEF Init, ApprovalsAreEarned, NoRow, Idle
<1>2. ApprovalsAreEarned => AccessIsEarned
  BY DEF ApprovalsAreEarned, AccessIsEarned, Earned, resolveBetaAllowed, isStaffEmail, isWhitelisted
<1> QED
  BY <1>1, <1>2, TypeCorrect, EarnedStep, PTL DEF Spec

-----------------------------------------------------------------------------
(***************************************************************************)
(* E-mails follow approvals.  While a row is approved, only the requests   *)
(* that read it before may still send an e-mail: what was sent and what    *)
(* may still be sent together stay within one for each request and         *)
(* approval.  An approval opens the allowance of all requests again.       *)
(***************************************************************************)

Mailing(u) == {h \in Handler : handler[h].pc = "mail" /\ handler[h].d.user = u}

\* Requests that read the row before it was approved and will find it approved
Overtaken(u) ==
  {h \in Handler : /\ handler[h].pc = "apply" /\ handler[h].d.user = u
                   /\ app[u] = [status |-> "approved", note |-> "none"]
                   /\ shouldSendAcceptanceEmail(handler[h].prior, handler[h].d)}

Pending(u) == Mailing(u) \cup Overtaken(u)

EmailsAreAllowed ==
  \A u \in User :
    emails[u] + Cardinality(Pending(u)) <= Cardinality(Handler) * approvals[u]

\* Any set of requests is finite and no larger than all of them.
LEMMA SomeRequests ==
  ASSUME NEW S \in SUBSET Handler, NEW T \in SUBSET S
  PROVE  /\ Cardinality(S) \in Nat /\ Cardinality(T) \in Nat /\ Cardinality(Handler) \in Nat
         /\ Cardinality(T) <= Cardinality(S) /\ Cardinality(S) <= Cardinality(Handler)
         /\ \A h \in S \ T : Cardinality(T) + 1 <= Cardinality(S)
<1>1. IsFiniteSet(Handler) /\ IsFiniteSet(S) /\ IsFiniteSet(T)
  BY BetaParameters, FS_Subset
<1>2. ASSUME NEW h \in S \ T
      PROVE  Cardinality(T) + 1 <= Cardinality(S)
  <2>1. /\ IsFiniteSet(T \cup {h})
        /\ Cardinality(T \cup {h}) = Cardinality(T) + 1
    BY <1>1, FS_AddElement
  <2>2. T \cup {h} \subseteq S
    OBVIOUS
  <2> QED
    BY <1>1, <2>1, <2>2, FS_Subset
<1> QED
  BY <1>1, <1>2, FS_Subset, FS_CardinalityType

LEMMA StillAllowed ==
  ASSUME TypeOK, EmailsAreAllowed, NEW u \in User,
         Pending(u)' \subseteq Pending(u),
         emails'[u] = emails[u], approvals'[u] = approvals[u]
  PROVE  emails'[u] + Cardinality(Pending(u)') <= Cardinality(Handler) * approvals'[u]
<1>1. Pending(u) \subseteq Handler
  BY DEF Pending, Mailing, Overtaken
<1>2. /\ Cardinality(Pending(u)) \in Nat /\ Cardinality(Pending(u)') \in Nat
      /\ Cardinality(Pending(u)') <= Cardinality(Pending(u))
  BY <1>1, SomeRequests
<1>3. /\ emails[u] \in Nat
      /\ emails[u] + Cardinality(Pending(u)) <= Cardinality(Handler) * approvals[u]
      /\ Cardinality(Handler) * approvals[u] \in Nat
  BY <1>1, SomeRequests DEF TypeOK, EmailsAreAllowed
<1> QED
  BY <1>2, <1>3

\* A new approval pays for an e-mail by every request there is.
LEMMA ApprovalAllows ==
  ASSUME TypeOK, EmailsAreAllowed, NEW u \in User,
         emails'[u] = emails[u], approvals'[u] = approvals[u] + 1
  PROVE  emails'[u] + Cardinality(Pending(u)') <= Cardinality(Handler) * approvals'[u]
<1> DEFINE n == Cardinality(Handler)
<1>1. Pending(u) \subseteq Handler /\ Pending(u)' \subseteq Handler
  BY DEF Pending, Mailing, Overtaken
<1>2. /\ Cardinality(Pending(u)) \in Nat /\ Cardinality(Pending(u)') \in Nat /\ n \in Nat
      /\ Cardinality(Pending(u)') <= n
  BY <1>1, SomeRequests
<1>3. /\ emails[u] \in Nat /\ approvals[u] \in Nat
      /\ emails[u] + Cardinality(Pending(u)) <= n * approvals[u]
  BY DEF TypeOK, EmailsAreAllowed
<1>4. n * (approvals[u] + 1) = n * approvals[u] + n /\ n * approvals[u] \in Nat
  BY <1>2, <1>3
<1> QED
  BY <1>2, <1>3, <1>4

Approved == [status |-> "approved", note |-> "none"]

\* Only the request that moves could become one that may still send.
LEMMA PendingShrinks ==
  ASSUME TypeOK, NEW u \in User, NEW h \in Handler, NEW q, Become(h, q),
         q.pc \in {"idle", "mail"}, q.pc = "mail" => (q.d.user = u => h \in Pending(u)),
         app'[u] = Approved => app[u] = Approved
  PROVE  Pending(u)' \subseteq Pending(u)
<1> SUFFICES ASSUME NEW g \in Pending(u)' PROVE g \in Pending(u)
    OBVIOUS
<1>1. g \in Handler
  BY DEF Pending, Mailing, Overtaken
<1>2. CASE g = h
  <2>1. handler'[g] = q
    BY <1>2 DEF Become, TypeOK
  <2> QED
    BY <1>2, <2>1 DEF Pending, Mailing, Overtaken
<1>3. CASE g # h
  <2>1. handler'[g] = handler[g]
    BY <1>1, <1>3 DEF Become, TypeOK
  <2> QED
    BY <1>1, <2>1 DEF Pending, Mailing, Overtaken, Approved
<1> QED
  BY <1>2, <1>3

LEMMA EmailsStep == TypeOK /\ EmailsAreAllowed /\ [Next]_vars => EmailsAreAllowed'
<1> SUFFICES ASSUME TypeOK, EmailsAreAllowed, [Next]_vars, NEW u \in User
             PROVE  emails'[u] + Cardinality(Pending(u)') <= Cardinality(Handler) * approvals'[u]
    BY DEF EmailsAreAllowed
<1> DEFINE Kept == emails'[u] + Cardinality(Pending(u)') <= Cardinality(Handler) * approvals'[u]
\* A request that ends, or starts and is not overtaken, adds nothing.
<1>1. ASSUME NEW h \in Handler, NEW r, Become(h, r), r.pc # "mail",
             r.pc = "apply" => ~(app'[u] = Approved /\ r.d.user = u
                                 /\ shouldSendAcceptanceEmail(r.prior, r.d)),
             app'[u] = Approved => app[u] = Approved,
             emails'[u] = emails[u], approvals'[u] = approvals[u]
      PROVE  Kept
  <2>1. Pending(u)' \subseteq Pending(u)
    BY <1>1 DEF Pending, Mailing, Overtaken, Become, TypeOK, Approved
  <2> QED
    BY <1>1, <2>1, StillAllowed
<1>2. ASSUME NEW h \in Handler, NEW v \in User, ReadForSubmit(h, v) \/ ReadForEnrollment(h, v)
      PROVE  Kept
  BY <1>1, <1>2 DEF ReadForSubmit, ReadForEnrollment, row
<1>3. ASSUME NEW h \in Handler, submitTesterApplication(h)
      PROVE  Kept
  <2>1. app'[u] = Approved => app[u] = Approved
    BY <1>3 DEF submitTesterApplication, TypeOK, Approved
  <2> QED
    BY <1>1, <1>3, <2>1 DEF submitTesterApplication, Idle
<1>4. ASSUME NEW h \in Handler, ensureStaffEnrollment(h)
      PROVE  Kept
  <2>1. app'[u] = Approved => app[u] = Approved
    BY <1>4 DEF ensureStaffEnrollment, TypeOK, Approved
  <2> QED
    BY <1>1, <1>4, <2>1 DEF ensureStaffEnrollment, Idle
<1>5. ASSUME NEW h \in Handler, NEW d \in sent, Deliver(h, d)
      PROVE  Kept
  BY <1>1, <1>5 DEF Deliver, row, shouldSendAcceptanceEmail, Approved
<1>6. ASSUME NEW h \in Handler, Apply(h)
      PROVE  Kept
  <2> DEFINE r == handler[h]
             d == r.d
             mail == [r EXCEPT !.pc = "mail"]
  <2>1. /\ r \in Request /\ r.pc = "apply" /\ d \in Decision
        /\ mail.pc = "mail" /\ mail.d = d
    BY <1>6, DecidingShape DEF Apply, TypeOK
  <2> HIDE DEF mail
  <2>2. emails' = emails
    BY <1>6 DEF Apply
  <2>3. CASE Become(h, Idle) /\ UNCHANGED row
    BY <1>1, <2>2, <2>3 DEF row, Idle
  <2>4. CASE accepts(d) /\ affects(d) /\ applyDecision(d)
             /\ IF shouldSendAcceptanceEmail(r.prior, d) THEN Become(h, mail) ELSE Become(h, Idle)
    <3>1. CASE d.user # u
      <4>1. app'[u] = app[u] /\ approvals'[u] = approvals[u]
        BY <2>1, <2>4, <3>1 DEF applyDecision, TypeOK
      <4>2. Pending(u)' \subseteq Pending(u)
        <5>1. CASE Become(h, mail)
          BY <2>1, <3>1, <4>1, <5>1, PendingShrinks
        <5>2. CASE Become(h, Idle)
          BY <4>1, <5>2, PendingShrinks DEF Idle
        <5> QED
          BY <2>4, <5>1, <5>2
      <4> QED
        BY <2>2, <4>1, <4>2, StillAllowed
    <3>2. CASE d.user = u /\ d.decision = "approved" /\ app[u].status # "approved"
      <4>1. approvals'[u] = approvals[u] + 1
        BY <2>4, <3>2 DEF applyDecision, TypeOK
      <4> QED
        BY <2>2, <4>1, ApprovalAllows
    <3>3. CASE d.user = u /\ d.decision = "approved" /\ app[u].status = "approved"
      <4>1. approvals'[u] = approvals[u] /\ app[u] = Approved
        BY <2>4, <3>3 DEF applyDecision, affects, TypeOK, Note, NoRow, Approved
      <4>2. shouldSendAcceptanceEmail(r.prior, d) => h \in Pending(u)
        BY <2>1, <3>3, <4>1 DEF Pending, Overtaken, Approved
      <4>3. Pending(u)' \subseteq Pending(u)
        <5>1. CASE shouldSendAcceptanceEmail(r.prior, d) /\ Become(h, mail)
          BY <2>1, <4>1, <4>2, <5>1, PendingShrinks
        <5>2. CASE Become(h, Idle)
          BY <4>1, <5>2, PendingShrinks DEF Idle
        <5> QED
          BY <2>4, <5>1, <5>2
      <4> QED
        BY <2>2, <4>1, <4>3, StillAllowed
    <3>4. CASE d.user = u /\ d.decision # "approved"
      <4>1. approvals'[u] = approvals[u] /\ app'[u] # Approved
        BY <2>4, <3>4 DEF applyDecision, TypeOK, Approved
      <4>2. Become(h, Idle)
        BY <2>4, <3>4 DEF shouldSendAcceptanceEmail
      <4> QED
        BY <1>1, <2>2, <4>1, <4>2 DEF Idle
    <3> QED
      BY <3>1, <3>2, <3>3, <3>4
  <2> QED
    BY <1>6, <2>3, <2>4 DEF Apply, Answer200, row, mail
<1>7. ASSUME NEW h \in Handler, SendEmail(h)
      PROVE  Kept
  <2> DEFINE d == handler[h].d
  <2>1. /\ handler[h].pc = "mail" /\ d \in Decision
        /\ UNCHANGED <<app, approvals>> /\ Become(h, Idle)
    BY <1>7, DecidingShape DEF SendEmail, TypeOK, Answer200, row
  <2>2. CASE d.user # u
    <3>1. emails'[u] = emails[u]
      BY <1>7, <2>1, <2>2 DEF SendEmail, TypeOK, Decision
    <3> QED
      BY <1>1, <2>1, <3>1 DEF Idle
  <2>3. CASE d.user = u
    <3>1. emails'[u] <= emails[u] + 1 /\ emails'[u] \in Nat /\ emails[u] \in Nat
      BY <1>7, <2>1, <2>3 DEF SendEmail, TypeOK
    <3>2. /\ Pending(u)' \subseteq Pending(u) /\ Pending(u) \subseteq Handler
          /\ h \in Pending(u) \ Pending(u)'
      BY <2>1, <2>3 DEF Pending, Mailing, Overtaken, Become, TypeOK, Idle
    <3>3. /\ Cardinality(Pending(u)) \in Nat /\ Cardinality(Pending(u)') \in Nat
          /\ Cardinality(Pending(u)') + 1 <= Cardinality(Pending(u))
          /\ Cardinality(Handler) \in Nat
      BY <3>2, SomeRequests
    <3>4. /\ emails[u] + Cardinality(Pending(u)) <= Cardinality(Handler) * approvals[u]
          /\ approvals'[u] = approvals[u] /\ Cardinality(Handler) * approvals[u] \in Nat
      BY <2>1, <3>3 DEF EmailsAreAllowed, TypeOK
    <3> QED
      BY <3>1, <3>3, <3>4
  <2> QED
    BY <2>2, <2>3
<1>8. ASSUME NEW h \in Handler, Crash(h)
      PROVE  Kept
  BY <1>1, <1>8 DEF Crash, row, Idle
<1>9. ASSUME NEW v \in User, NEW product \in Product, NEW decision \in {"approved", "declined"},
             Decide(v, product, decision)
      PROVE  Kept
  <2>1. Pending(u)' = Pending(u)
    BY <1>9 DEF Decide, Pending, Mailing, Overtaken, row
  <2> QED
    BY <1>9, <2>1, StillAllowed DEF Decide, row
<1>10. CASE UNCHANGED vars
  <2>1. Pending(u)' = Pending(u)
    BY <1>10 DEF vars, Pending, Mailing, Overtaken
  <2> QED
    BY <1>10, <2>1, StillAllowed DEF vars
<1> QED
  BY <1>2, <1>3, <1>4, <1>5, <1>6, <1>7, <1>8, <1>9, <1>10 DEF Next, Step

\* However often and in whatever order decisions are delivered, a user gets at most one
\* e-mail for each request under way and each time his application became approved
\* (beta/processDecision.ts, shouldSendAcceptanceEmail).
THEOREM EmailsAnswerApprovals == Spec => []EmailsFollowApprovals
<1>1. Init => EmailsAreAllowed
  <2> SUFFICES ASSUME Init, NEW u \in User
               PROVE  emails[u] + Cardinality(Pending(u)) <= Cardinality(Handler) * approvals[u]
      BY DEF EmailsAreAllowed
  <2>1. Pending(u) = {}
    BY DEF Init, Pending, Mailing, Overtaken, Idle
  <2>2. Cardinality(Pending(u)) = 0 /\ Cardinality(Handler) \in Nat
    BY <2>1, FS_EmptySet, FS_CardinalityType, BetaParameters
  <2>3. emails[u] = 0 /\ approvals[u] = 0
    BY DEF Init
  <2> QED
    BY <2>2, <2>3
<1>2. TypeOK /\ EmailsAreAllowed => EmailsFollowApprovals
  <2> SUFFICES ASSUME TypeOK, EmailsAreAllowed, NEW u \in User
               PROVE  emails[u] <= Cardinality(Handler) * approvals[u]
      BY DEF EmailsFollowApprovals
  <2>1. Pending(u) \subseteq Handler
    BY DEF Pending, Mailing, Overtaken
  <2>2. Cardinality(Pending(u)) \in Nat /\ Cardinality(Handler) \in Nat
    BY <2>1, SomeRequests
  <2> QED
    BY <2>2 DEF TypeOK, EmailsAreAllowed
<1> QED
  BY <1>1, <1>2, TypeCorrect, EmailsStep, PTL DEF Spec
=============================================================================

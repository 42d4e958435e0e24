------------------------------- MODULE CIApi -------------------------------
(***************************************************************************)
(* internal/api and cmd/kfo beside the admission webhook: a CI pipeline    *)
(* asks whether it may make a change (POST or GET /v1/evaluate of the      *)
(* operator, or kfo with a client of its own), and makes it, through the   *)
(* webhook of Admission.tla: when the answer is yes, when it is an error   *)
(* and the pipeline is the shipped one for GitLab, or against advice.      *)
(*                                                                         *)
(* Both evaluate the same policies with the same evaluator, but the API    *)
(* reads the API server where the webhook reads its caches, earlier, and   *)
(* knows neither the object's labels nor who will ask.                     *)
(***************************************************************************)
EXTENDS Admission

CONSTANT Nobody  \* the user name the API evaluates with
ASSUME NobodyAssumption == Nobody \notin User

VARIABLE ask  \* per user, the question its pipeline is at

ciVars == <<hist, seen, now, workload, call, arrived, faults, ask>>

(* Who evaluates: the operator, behind TokenReview, or kfo itself.         *)
Via == {"api", "direct"}

NoAsk == [pc |-> "idle", via |-> "direct", q |-> Drain, action |-> "None", t |-> 0,
          nsLabels |-> {}, denies |-> {}, dec |-> AllowAll, exit |-> 0, since |-> NoArrival]

(* exit is the exit code of kfo: allowed, denied, error.  since is the     *)
(* clock, the caches and the store when the question was put (history).    *)
Asks ==
  [pc : {"idle", "review", "parse", "namespace", "freezes", "windows", "exceptions",
         "told", "sent"},
   via : Via, q : Request, action : Action \cup {"None"}, t : Time \cup {0},
   nsLabels : SUBSET Label, denies : SUBSET DenyCandidate, dec : Decision, exit : 0..2,
   since : [now : Nat, seen : [Resource -> Nat], stored : [Resource -> Nat]]]

CITypeOK == TypeOK /\ ask \in [Users -> Asks]

CIInit == Init /\ ask = [r \in Users |-> NoAsk]

-----------------------------------------------------------------------------
(* The question: handleEvaluate, or evalDirect *)

AskStep(r, fields) == ask' = [ask EXCEPT ![r] = fields] /\ UNCHANGED vars

Tell(a, code) == [a EXCEPT !.pc = "told", !.exit = code]

QuestionMutant(r, via, q, a) ==  \* the operation is taken for the action
  /\ ask[r].pc = "idle" /\ call[r].pc = "idle"
  /\ Performs(q, a)
  /\ AskStep(r, [NoAsk EXCEPT !.pc = "parse", !.via = via, !.q = q, !.action = q.op,
                              !.since = [now |-> now, seen |-> seen, stored |-> Latest]])

(* What the pipeline means to do, in the vocabulary of the API; a kind the *)
(* API does not know is asked about like any other.                        *)
Question(r, via, q, a) ==
  /\ ask[r].pc = "idle" /\ call[r].pc = "idle"
  /\ Performs(q, a)
  /\ AskStep(r, [NoAsk EXCEPT !.pc = IF via = "api" THEN "review" ELSE "parse",
                              !.via = via, !.q = q, !.action = a,
                              !.since = [now |-> now, seen |-> seen, stored |-> Latest]])

(* TokenAuthMiddleware.Wrap: the token is missing or not authenticated, or *)
(* it passes (as any request does when the mode is "none").                *)
Review(r) ==
  /\ ask[r].pc = "review"
  /\ AskStep(r, Tell(ask[r], 2)) \/ AskStep(r, [ask[r] EXCEPT !.pc = "parse"])

ParseMutant(r) ==  \* the clock is read once, when the server starts
  LET a == ask[r]
  IN  /\ a.pc = "parse"
      /\ AskStep(r, IF a.q.kind \in Kind THEN [a EXCEPT !.pc = "namespace", !.t = 1]
                                         ELSE Tell(a, 2))

(* An action the API does not know fails as an unknown kind does.          *)
Parse(r) ==
  LET a == ask[r]
  IN  /\ a.pc = "parse"
      /\ AskStep(r, IF a.q.kind \in Kind THEN [a EXCEPT !.pc = "namespace", !.t = now]
                                         ELSE Tell(a, 2))

(* Unlike the webhook, the evaluator does not mind a terminating namespace.*)
AskNamespace(r) ==
  LET a == ask[r]
  IN  /\ a.pc = "namespace"
      /\ AskStep(r, IF Stored("ns") = NoNamespace THEN Tell(a, 2)
                    ELSE [a EXCEPT !.pc = "freezes", !.nsLabels = Stored("ns").labels])

(* No object, no user, no groups.                                          *)
AskIn(a) == [now |-> a.t, nsLabels |-> a.nsLabels, kind |-> a.q.kind, action |-> a.action,
             objLabels |-> {}, user |-> Nobody, groups |-> {}]

AskFreezes(r) ==
  LET a == ask[r]
  IN  /\ a.pc = "freezes"
      /\ AskStep(r, [a EXCEPT !.pc = "windows",
                              !.denies = CollectChangeFreezes(AskIn(a), Stored("cf"))])

AskWindowsMutant(r) ==  \* only the windows count
  LET a == ask[r]
      denies == CollectMaintenanceWindows(AskIn(a), Stored("mw"))
  IN  /\ a.pc = "windows"
      /\ AskStep(r, IF denies = {} THEN Tell(a, 0)
                    ELSE [a EXCEPT !.pc = "exceptions", !.denies = denies])

AskWindows(r) ==
  LET a == ask[r]
      denies == a.denies \cup CollectMaintenanceWindows(AskIn(a), Stored("mw"))
  IN  /\ a.pc = "windows"
      /\ AskStep(r, IF denies = {} THEN Tell(a, 0)
                    ELSE [a EXCEPT !.pc = "exceptions", !.denies = denies])

Verdict(a, override) ==
  LET d == Decide(a.denies, override)
  IN  Tell([a EXCEPT !.dec = d], IF d.allowed THEN 0 ELSE 1)

AskExceptions(r) ==
  /\ ask[r].pc = "exceptions"
  /\ \E o \in Overrides(AskIn(ask[r]), Stored("fe")) : AskStep(r, Verdict(ask[r], o))

Asking(r) == ask[r].pc \notin {"idle", "told", "sent"}

Answering(r) ==
  \/ Review(r) \/ Parse(r) \/ AskNamespace(r)
  \/ AskFreezes(r) \/ AskWindows(r) \/ AskExceptions(r)

-----------------------------------------------------------------------------
(* The pipeline *)

(* The change is requested.                                                *)
Send(r) ==
  /\ ask[r].pc = "told"
  /\ Receive(r, ask[r].q)
  /\ ask' = [ask EXCEPT ![r].pc = "sent"]

(* kfo exits with 0, or the API says "allow".                              *)
Proceed(r) == ask[r].exit = 0 /\ Send(r)

(* ci/gitlab/freeze-check.yml asks the API and, unless FREEZE_FAIL_ON_ERROR*)
(* is "true" (it is "false" by default), takes any error for a yes.        *)
ProceedOnError(r) == ask[r].exit = 2 /\ ask[r].via = "api" /\ Send(r)

(* Somebody makes the change all the same: only the webhook forbids it.    *)
Insist(r) == ask[r].exit = 1 /\ Send(r)

(* Otherwise the job ends; the change may also not come about.             *)
GiveUp(r) == ask[r].pc = "told" /\ AskStep(r, NoAsk)

Finish(r) == Complete(r) /\ ask' = IF r \in Users THEN [ask EXCEPT ![r] = NoAsk] ELSE ask

-----------------------------------------------------------------------------
(* Faults *)

AskFailsMutant(r) ==  \* the body of an error response is taken for an answer
  Fault /\ Asking(r) /\ ask' = [ask EXCEPT ![r] = Tell(@, 0)]
  /\ UNCHANGED <<hist, seen, now, workload, call, arrived>>

(* A read of the API server fails, or kfo does not wait any longer: the    *)
(* response carries an error, or there is none.                            *)
AskFails(r) ==
  Fault /\ Asking(r) /\ ask' = [ask EXCEPT ![r] = Tell(@, 2)]
  /\ UNCHANGED <<hist, seen, now, workload, call, arrived>>

(* A list of exceptions that fails is taken for no exception.              *)
AskExceptionsUnreadable(r) ==
  /\ Fault
  /\ ask[r].pc = "exceptions"
  /\ ask' = [ask EXCEPT ![r] = Verdict(@, NoRef)]
  /\ UNCHANGED <<hist, seen, now, workload, call, arrived>>

(* The API dies with the operator; a direct kfo lives on.                  *)
OperatorRestart ==
  /\ Restart
  /\ ask' = [r \in Users |->
       IF Asking(r) /\ ask[r].via # "direct" THEN Tell(ask[r], 2) ELSE ask[r]]

-----------------------------------------------------------------------------
Others ==
  \/ Tick \/ PolicyWrite \/ NamespaceWrite \/ DrainRequest
  \/ \E k \in Resource : Sync(k)
  \/ \E r \in Slots : Handle(r) \/ ExceptionsUnreadable(r) \/ Fail(r)

CINext ==
  \/ Others /\ UNCHANGED ask
  \/ \E r \in Slots : Finish(r)
  \/ \E r \in Users :
       \/ \E via \in Via, q \in RequestPool, a \in Action : Question(r, via, q, a)
       \/ Answering(r)
       \/ Proceed(r) \/ ProceedOnError(r) \/ Insist(r) \/ GiveUp(r)
       \/ AskFails(r) \/ AskExceptionsUnreadable(r)
  \/ OperatorRestart

CISpec == CIInit /\ [][CINext]_ciVars

-----------------------------------------------------------------------------
(* Properties.  An answer is judged against what the API server stored     *)
(* while the question was open.                                            *)

Versions(r, k) == ask[r].since.stored[k] .. Len(hist[k])
AskInstants(r) == ask[r].since.now .. now
AskInAt(r, t, j) == [AskIn(ask[r]) EXCEPT !.now = t, !.nsLabels = hist.ns[j].labels]
Told(r, code) == ask[r].pc = "told" /\ ask[r].exit = code

(* A "no" names a policy that the API server stored, and that denied the   *)
(* action, at some instant between the question and the answer: the live   *)
(* reads, taken one after another, are never put together to a denial by   *)
(* nobody, and never to one that was over before the question.             *)
AdviceJustified ==
  \A r \in Users : Told(r, 1) =>
    LET Names(k, p) == ask[r].dec.policy = [kind |-> k, name |-> p.name]
    IN  \E t \in AskInstants(r), j \in Versions(r, "ns") :
          LET in == AskInAt(r, t, j)
          IN  \/ \E i \in Versions(r, "cf") : \E p \in hist.cf[i] :
                   Names("ChangeFreeze", p) /\ FreezeDenies(p, in)
              \/ \E i \in Versions(r, "mw") : \E p \in hist.mw[i] :
                   Names("MaintenanceWindow", p) /\ WindowDenies(p, in)

(* A "yes" of kfo, exit code 0, means that no policy denied the action from*)
(* the question to the answer, or that an exception admitted it meanwhile: *)
(* no write, tick of the clock, failing read, time-out or restart becomes  *)
(* an answer of yes.  What a pipeline makes of an error is another matter: *)
(* that of GitLab goes on (ProceedOnError), and only the webhook, of which *)
(* FreezeEnforced speaks, is still in the way.                             *)
AdviceEnforced ==
  \A r \in Users : Told(r, 0) =>
    LET Denies(D(_, _), k) ==
          \E p \in hist[k][ask[r].since.stored[k]] :
            /\ \A i \in Versions(r, k) : p \in hist[k][i]
            /\ \A t \in AskInstants(r), j \in Versions(r, "ns") : D(p, AskInAt(r, t, j))
    IN  Denies(FreezeDenies, "cf") \/ Denies(WindowDenies, "mw") =>
          \E i \in Versions(r, "fe") : \E ex \in hist.fe[i] :
            \E t \in AskInstants(r), j \in Versions(r, "ns") : Admits(ex, AskInAt(r, t, j))

(* What the webhook sees of the change the question was about.             *)
RequestIn(r) ==
  LET a == ask[r]
  IN  [now |-> now, nsLabels |-> Cached("ns").labels, kind |-> a.q.kind,
       action |-> a.action, objLabels |-> a.q.labels, user |-> a.q.user,
       groups |-> a.q.groups]

LooksAtObject(t) == t.objSel.required # {} \/ t.objSel.excluded # {}
Personal(ex) == ex.requireLabels # {} \/ ex.users # {} \/ ex.groups # {}

(* Since the question: nothing was written, the caches are up to date, no  *)
(* policy began or ended, none asks for what the API does not know.  The   *)
(* webhook looks at the policies at all: it passes every change in a       *)
(* terminating namespace, and all of the operator's own.                   *)
Undisturbed(r) ==
  LET since == ask[r].since
      Applying(t) ==
        LET in == [RequestIn(r) EXCEPT !.now = t]
        IN  {cf \in Stored("cf") : FreezeDenies(cf, in)}
              \cup {mw \in Stored("mw") : WindowDenies(mw, in)}
              \cup {ex \in Stored("fe") : Admits(ex, in)}
  IN  /\ faults = 0
      /\ Latest = since.stored /\ since.seen = since.stored
      /\ \A t \in AskInstants(r) : Applying(t) = Applying(now)
      /\ \A p \in Stored("cf") \cup Stored("mw") \cup Stored("fe") : ~LooksAtObject(p.target)
      /\ \A ex \in Stored("fe") : ~Personal(ex)
      /\ Stored("ns").phase = "Active" /\ OperatorGroup \notin ask[r].q.groups

(* docs/architecture.md, CI Helper API: "Policy Evaluator (same as         *)
(* webhook)": undisturbed, the webhook does not refuse the change that the *)
(* API has allowed, and refuses the one it has denied when it is made all  *)
(* the same, although the one reads caches, at later instants, and the     *)
(* other the API server.                                                   *)
AdviceHolds ==
  \A r \in Users : ask[r].pc = "sent" /\ Undisturbed(r) =>
    /\ ask[r].exit = 0 => ~Answered(r, {"deny"})
    /\ ask[r].exit = 1 => ~Answered(r, {"allow", "bypass"})
=============================================================================

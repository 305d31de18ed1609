------------------------------- MODULE Redirect -------------------------------
(***************************************************************************)
(* The redirect hot path (redirect/middleware.ts): a request is routed by  *)
(* its host and path, its tenant and its link are looked up, the visitor   *)
(* is answered, and only then is the visit captured: hashed with the salt  *)
(* of the day, built into an event and added to the events queue under a   *)
(* cap on the adds in flight (redirect/enqueue.ts).                        *)
(*                                                                         *)
(* Several api processes serve requests; one may crash at any moment.  The *)
(* lookups end (CacheLadder!LookupsEnd); Redis may never answer a salt's   *)
(* commands or an add.                                                     *)
(***************************************************************************)
EXTENDS RequestTarget, DailySalt

CONSTANTS
    Requests,     \* requests visitors make
    Visits,       \* what they may ask: host, path and address headers
    MaxInflight,  \* MAX_INFLIGHT_ENQUEUES
    MaxCrashes    \* bound: crashes of all processes together

ASSUME RedirectAssumption ==
    MaxInflight \in Nat /\ MaxCrashes \in Nat /\ IsFiniteSet(Requests)
\* A host and a path arrive as text, cut into labels and tokens.
ASSUME VisitsAssumption ==
    \A v \in Visits : v.host.labels \in Seq(STRING) /\ v.path \in Seq(STRING)

VARIABLES
    req,       \* each request, its answer and its event
    life,      \* how often each process was started
    inflight,  \* adds each process waits for
    counters,  \* what each process has counted since it started
    queue      \* requests whose event the queue holds

vars == <<req, life, inflight, counters, queue, saltVars>>

\* names, the truth of NamesALink, and visitor, the address a capture will read, are kept
\* in place of the visit; lookup says whether it reached the lookups; date is the date of
\* the salt its capture asked for.
Unmade == [stage |-> "idle", at |-> [process |-> "none", life |-> 0], names |-> FALSE,
           lookup |-> FALSE, visitor |-> NoAddress, answer |-> "none", date |-> 0,
           event |-> [salt |-> 0, shared |-> FALSE]]

NoCount == [handleRoot |-> 0, rejected |-> 0, dropped |-> 0]

Init ==
    /\ SaltInit
    /\ req = [r \in Requests |-> Unmade]
    /\ life = [p \in Instances |-> 0]
    /\ inflight = [p \in Instances |-> 0]
    /\ counters = [p \in Instances |-> NoCount]
    /\ queue = {}

-----------------------------------------------------------------------------
\* createRedirectMiddleware: every kind but a link is answered at once, a host that is not
\* this deployment's by whatever router comes next.
Arrive(r, p) ==
    /\ req[r].stage = "idle"
    /\ \E v \in Visits :
          LET kind == ParseRequestTarget(v.host, v.path)
              made == [Unmade EXCEPT !.at = [process |-> p, life |-> life[p]],
                                     !.names = NamesALink(v.host, v.path)]
          IN  /\ req' = [req EXCEPT ![r] =
                          IF kind = "link"
                          THEN [made EXCEPT !.stage = "tenant", !.lookup = TRUE,
                                            !.visitor = ReadClientIp(v.headers)]
                          ELSE [made EXCEPT !.stage = "done",
                                            !.answer = IF kind = "not-ours" THEN "next"
                                                                            ELSE "404"]]
              /\ counters' = IF kind = "handle-root"
                             THEN [counters EXCEPT ![p].handleRoot = @ + 1]
                             ELSE counters
    /\ UNCHANGED <<life, inflight, queue, saltVars>>

\* sendNotFound, for a lookup that came to nothing.
NotFound(request) ==
    [request EXCEPT !.stage = "done", !.answer = "404", !.visitor = NoAddress]

\* Bug: nothing answers for a lookup that threw.
AfterThrowUnanswered(request) == [request EXCEPT !.stage = "done"]

\* A lookup that throws is a 404 too.
AfterThrow(request) == NotFound(request)

ResolveTenant(r) ==
    /\ req[r].stage = "tenant"
    /\ \E after \in {[req[r] EXCEPT !.stage = "link"], NotFound(req[r]),
                     AfterThrow(req[r])} :
          req' = [req EXCEPT ![r] = after]
    /\ UNCHANGED <<life, inflight, counters, queue, saltVars>>

ResolveLinkMisses(r) ==
    /\ req[r].stage = "link"
    /\ \E after \in {NotFound(req[r]), AfterThrow(req[r])} :
          req' = [req EXCEPT ![r] = after]
    /\ UNCHANGED <<life, inflight, counters, queue, saltVars>>

\* What a stored destination may be: one zDestination refuses (written past the
\* application), one no header can carry (a lone surrogate), or any other.
Destinations == {"plain", "rejected", "unencodable"}

\* sendLinkRedirect answers 307, or leaves the response alone and says so.
SendLinkRedirect(destination) == destination # "unencodable"

\* Bug: the capture does not ask whether the redirect was sent.
CapturesAnything(sent) == TRUE

\* A visit is captured if sendLinkRedirect sent the 307.
Captures(sent) == sent

\* The visitor has an answer and the capture awaits the salt of the date.
AwaitingSalt(request, sent, date) ==
    [request EXCEPT !.stage = "salt", !.answer = IF sent THEN "307" ELSE "404", !.date = date]

\* The link is found: the open-redirect guard, sendLinkRedirect, and for a redirect that
\* was sent the capture as far as its await of the salt, in one synchronous step.
ResolveLinkHits(r) ==
    LET p == req[r].at.process
    IN  /\ req[r].stage = "link"
        /\ \E destination \in Destinations :
              LET refused == destination = "rejected"
                  sent == ~refused /\ SendLinkRedirect(destination)
              IN  /\ counters' = IF refused THEN [counters EXCEPT ![p].rejected = @ + 1]
                                            ELSE counters
                  /\ IF ~refused /\ Captures(sent)
                     THEN /\ GetDailySalt(p)
                          /\ req' = [req EXCEPT ![r] = AwaitingSalt(@, sent, today[p])]
                          /\ UNCHANGED <<today, stored, forgotten>>
                     ELSE /\ req' = [req EXCEPT ![r] = NotFound(@)]
                          /\ UNCHANGED saltVars
        /\ UNCHANGED <<life, inflight, queue>>

-----------------------------------------------------------------------------
\* buildCapturePayload, as far as two events can differ: the salt of its visitor hash.
BuildCapturePayload(promise) == [salt |-> promise.salt, shared |-> promise.shared]

\* enqueueCapture: an add if there is a slot, else a drop that is counted.
EnqueueCapture(r, event) ==
    LET p == req[r].at.process
        full == inflight[p] >= MaxInflight
    IN  /\ req' = [req EXCEPT ![r].stage = IF full THEN "done" ELSE "add", ![r].event = event]
        /\ inflight' = IF full THEN inflight ELSE [inflight EXCEPT ![p] = @ + 1]
        /\ counters' = IF full THEN [counters EXCEPT ![p].dropped = @ + 1] ELSE counters

\* The salt arrives, and the capture goes on.  Nothing in it throws: the address and the
\* user agent come from parsed headers, which cannot hold the hash's delimiter.
SaltArrives(r) ==
    LET promise == fetch[req[r].at.process][MemoKey(req[r].date)]
    IN  /\ req[r].stage = "salt"
        /\ promise.stage = "settled"
        /\ EnqueueCapture(r, BuildCapturePayload(promise))
        /\ UNCHANGED <<life, queue, saltVars>>

\* Redis carries out an add.
AddReaches(r) ==
    /\ req[r].stage = "add"
    /\ r \notin queue
    /\ queue' = queue \cup {r}
    /\ UNCHANGED <<req, life, inflight, counters, saltVars>>

\* Bug: the slot is given back when the add succeeds only.
ReleasedBySuccess(n, ok) == IF ok THEN n - 1 ELSE n

\* .finally(): the slot is given back either way.
Released(n, ok) == n - 1

\* The promise of an add settles.
AddSettles(r) ==
    LET p == req[r].at.process
    IN  /\ req[r].stage = "add"
        /\ \E ok \in BOOLEAN :
              /\ ok => r \in queue
              /\ inflight' = [inflight EXCEPT ![p] = Released(@, ok)]
        /\ req' = [req EXCEPT ![r].stage = "done"]
        /\ UNCHANGED <<life, counters, queue, saltVars>>

\* A process dies with all it had under way, and the next one starts.
Crash(p) ==
    /\ SumFunction(life) < MaxCrashes
    /\ life' = [life EXCEPT ![p] = @ + 1]
    /\ req' = [r \in Requests |->
                 IF req[r].at.process = p /\ req[r].stage # "done"
                 THEN [req[r] EXCEPT !.stage = "lost"]
                 ELSE req[r]]
    /\ inflight' = [inflight EXCEPT ![p] = 0]
    /\ counters' = [counters EXCEPT ![p] = NoCount]
    /\ SaltRestart(p)
    /\ UNCHANGED queue

Next ==
    \/ \E r \in Requests, p \in Instances : Arrive(r, p)
    \/ \E r \in Requests :
          \/ ResolveTenant(r) \/ ResolveLinkMisses(r) \/ ResolveLinkHits(r)
          \/ SaltArrives(r) \/ AddReaches(r) \/ AddSettles(r)
    \/ \E p \in Instances : Crash(p)
    \/ SaltStep /\ UNCHANGED <<req, life, inflight, counters, queue>>

\* A lookup ends, whatever Redis does.  Nothing is assumed of the salt or of the queue.
Fairness ==
    \A r \in Requests :
        /\ WF_vars(ResolveTenant(r))
        /\ WF_vars(ResolveLinkMisses(r) \/ ResolveLinkHits(r))

Spec == Init /\ [][Next]_vars /\ Fairness

-----------------------------------------------------------------------------
\* Every variable has its type, and no memo grows past its bound.
TypeOK ==
    /\ SaltTypeOK
    /\ \A r \in Requests :
          /\ req[r].stage \in {"idle", "tenant", "link", "salt", "add", "done", "lost"}
          /\ req[r].stage # "idle" => req[r].at \in [process : Instances, life : Nat]
          /\ req[r].names \in BOOLEAN
          /\ req[r].lookup \in BOOLEAN
          /\ req[r].answer \in {"none", "next", "404", "307"}
          /\ req[r].date \in Days
          /\ req[r].event \in [salt : 0 .. minted, shared : BOOLEAN]
    /\ life \in [Instances -> Nat]
    /\ inflight \in [Instances -> 0 .. Cardinality(Requests)]
    /\ counters \in [Instances -> [handleRoot : Nat, rejected : Nat, dropped : Nat]]
    /\ queue \subseteq Requests

\* A request costs a lookup exactly if it names a link some tenant may own: creatable and
\* reachable are one predicate, and nothing else reaches Redis or Postgres.
LookupIsDeserved ==
    \A r \in Requests :
        req[r].stage # "idle" => (req[r].names <=> req[r].lookup)

\* Whatever became of the process, the queue holds events of visits only whose visitor
\* was sent the redirect.
CapturedWasRedirected ==
    \A r \in queue : req[r].answer = "307"

\* The in-flight count is the number of adds a process waits for, never above the cap:
\* no settled add, failed add or restart leaves the count high for ever.
CapIsTight ==
    \A p \in Instances :
        /\ inflight[p] = Cardinality({r \in Requests :
                             /\ req[r].stage = "add"
                             /\ req[r].at = [process |-> p, life |-> life[p]]})
        /\ inflight[p] <= MaxInflight

Hashed(r) == req[r].visitor # NoAddress /\ req[r].event.salt # 0
VisitorHash(r) == <<req[r].visitor, req[r].event.salt>>

\* Two visits of one visitor on one date have one hash, on whichever processes they were
\* served, if Redis answered both and did not lose the salt between them; on one process
\* even if it did not.
UniquesCountOnce ==
    \A r, q \in Requests :
        /\ Hashed(r) /\ Hashed(q)
        /\ req[r].visitor = req[q].visitor
        /\ req[r].date = req[q].date
        /\ \/ req[r].at = req[q].at
           \/ req[r].event.shared /\ req[q].event.shared /\ req[r].date \notin forgotten
        => VisitorHash(r) = VisitorHash(q)

\* No hash links the visits of two dates, on any process, after any restart.
NoLinkAcrossDays ==
    \A r, q \in Requests :
        Hashed(r) /\ Hashed(q) /\ VisitorHash(r) = VisitorHash(q)
            => req[r].date = req[q].date

\* Every visitor is answered, though neither the salt nor the queue may ever answer,
\* unless the process dies first.
EveryVisitorAnswered ==
    \A r \in Requests :
        req[r].stage = "tenant" ~> (req[r].answer # "none" \/ req[r].stage = "lost")
=============================================================================

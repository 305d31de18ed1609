---------------------------- MODULE RedirectProofs ----------------------------
(***************************************************************************)
(* Proofs about Redirect and DailySalt, for any requests, visits,          *)
(* processes, days and bounds.                                             *)
(***************************************************************************)
EXTENDS Redirect, RequestTargetProofs, FiniteSetTheorems, TLAPS

Stages == {"idle", "tenant", "link", "salt", "add", "done", "lost"}
Live == {"tenant", "link", "salt", "add"}
Addresses == {ReadClientIp(v.headers) : v \in Visits} \cup {NoAddress}
Events == [salt : 0 .. minted, shared : BOOLEAN]
Promises == [stage : {"none", "setting", "getting", "settled"}, key : Days,
             salt : 0 .. minted, shared : BOOLEAN]
Places == [process : Instances \cup {"none"}, life : Nat]
Request == [stage : Stages, at : Places, names : BOOLEAN, lookup : BOOLEAN,
            visitor : Addresses, answer : {"none", "next", "404", "307"}, date : Days,
            event : Events]
Count == [handleRoot : Nat, rejected : Nat, dropped : Nat]

ReqType == req \in [Requests -> Request]
ProcessType ==
    /\ life \in [Instances -> Nat]
    /\ inflight \in [Instances -> Nat]
    /\ counters \in [Instances -> Count]
    /\ queue \subseteq Requests
SaltType ==
    /\ today \in [Instances -> Days]
    /\ memo \in [Instances -> Seq(Days)]
    /\ \A p \in Instances : Len(memo[p]) <= MemoSize
    /\ fetch \in [Instances -> [Days -> Promises]]
    /\ stored \in [Days -> 0 .. minted]
    /\ forgotten \subseteq Days
    /\ minted \in Nat

\* A request that is served is served by a process that still lives.
Lives ==
    \A r \in Requests :
        /\ req[r].stage # "idle" => /\ req[r].at.process \in Instances
                                    /\ req[r].at.life <= life[req[r].at.process]
        /\ req[r].stage \in Live => req[r].at.life = life[req[r].at.process]
        /\ req[r].stage = "idle" => req[r].at.life = 0

\* What is captured was redirected before; what has no event yet has none.
Answers ==
    \A r \in Requests :
        /\ req[r].stage \in {"salt", "add"} => req[r].answer = "307"
        /\ r \in queue => req[r].stage \in {"add", "done", "lost"} /\ req[r].answer = "307"
        /\ req[r].stage \in {"idle", "tenant", "link", "salt"} =>
              req[r].event.salt = 0 /\ ~req[r].event.shared

\* A process fetches the salt of a date once: while the date is today's it is memoized,
\* and it never is today's again.
FetchedOnce ==
    \A p \in Instances, d \in Days :
        /\ fetch[p][d].stage # "none" =>
              /\ fetch[p][d].key = d
              /\ d <= today[p]
              /\ d = today[p] => Memoized(p, d)
        /\ fetch[p][d].shared => fetch[p][d].stage = "settled"

\* The events of a living process have the salt it still holds, and those of one that
\* died agree.
SaltIsHeld ==
    \A r \in Requests :
        LET p == req[r].at.process
        IN  req[r].event.salt # 0 /\ req[r].at.life = life[p] =>
                /\ fetch[p][req[r].date].stage = "settled"
                /\ fetch[p][req[r].date].salt = req[r].event.salt
SaltOfOneLife ==
    \A r, q \in Requests :
        req[r].event.salt # 0 /\ req[q].event.salt # 0
        /\ req[r].at = req[q].at /\ req[r].date = req[q].date
            => req[r].event.salt = req[q].event.salt

\* Every salt was drawn for one date.
DrawnFor(date) ==
    /\ \A p \in Instances, d \in Days : fetch[p][d].stage # "none" =>
          fetch[p][d].salt \in 1 .. minted /\ date[fetch[p][d].salt] = d
    /\ \A d \in Days : stored[d] # 0 => date[stored[d]] = d
    /\ \A r \in Requests : req[r].event.salt # 0 => date[req[r].event.salt] = req[r].date
SaltOfOneDate == \E date \in [1 .. minted -> Days] : DrawnFor(date)

\* Every date whose salt Redis did not lose has one that all who asked Redis share; when
\* its key has expired, nobody can set another.
Unshared(d) ==
    /\ \A p \in Instances : ~fetch[p][d].shared
    /\ \A r \in Requests : req[r].date = d => ~req[r].event.shared
Over(d) ==
    \A p \in Instances : today[p] > d /\ fetch[p][d].stage \notin {"setting", "getting"}
Won(won) ==
    \A d \in Days \ forgotten :
        /\ stored[d] # 0 => stored[d] = won[d]
        /\ \A p \in Instances : fetch[p][d].shared => fetch[p][d].salt = won[d]
        /\ \A r \in Requests :
              req[r].event.shared /\ req[r].date = d => req[r].event.salt = won[d]
        /\ stored[d] = 0 => Unshared(d) \/ Over(d)
SaltIsShared == \E won \in [Days -> Nat] : Won(won)

RequestInv == ReqType /\ ProcessType /\ Lives /\ Answers /\ CapIsTight
SaltInv == SaltType /\ FetchedOnce
EventInv == SaltIsHeld /\ SaltOfOneLife /\ SaltOfOneDate /\ SaltIsShared
IInv == RequestInv /\ SaltInv /\ EventInv

-----------------------------------------------------------------------------
\* Days and the bounds are numbers.
LEMMA Numbers ==
    /\ MaxDay \in Nat /\ MemoSize \in Nat \ {0} /\ MaxInflight \in Nat
    /\ Days = 0 .. MaxDay /\ Days \subseteq Nat /\ 0 \in Days
    /\ IsFiniteSet(Requests)
  BY SaltAssumption, RedirectAssumption DEF Days

\* What a process waits for.
Adds(p) == {r \in Requests : /\ req[r].stage = "add"
                             /\ req[r].at = [process |-> p, life |-> life[p]]}

\* They are finitely many, and at most the requests.
LEMMA AddsAreFinite ==
    ASSUME NEW p \in Instances
    PROVE  IsFiniteSet(Adds(p)) /\ Cardinality(Adds(p)) \in Nat
           /\ Cardinality(Adds(p)) <= Cardinality(Requests)
  BY Numbers, FS_Subset, FS_CardinalityType DEF Adds

\* The initial states satisfy the invariant.
LEMMA InitIInv == Init => IInv
  <1> SUFFICES ASSUME Init PROVE IInv
    OBVIOUS
  <1> USE Numbers
  <1>0. minted = 0 /\ \A p \in Instances, d \in Days : fetch[p][d] = Unfetched
    BY DEF Init, SaltInit
  <1>1. SaltType
    BY <1>0 DEF Init, SaltInit, SaltType, Promises, Unfetched
  <1>2. FetchedOnce
    BY <1>0 DEF FetchedOnce, Unfetched
  <1>3. ReqType
    <2>1. NoAddress \in Addresses
      BY DEF Addresses
    <2>2. Unmade \in Request
      BY <1>0, <2>1 DEF Unmade, Request, Stages, Places, Events
    <2> QED
      BY <2>2 DEF Init, ReqType
  <1>4. ProcessType
    BY DEF Init, ProcessType, NoCount, Count
  <1>5. \A r \in Requests : /\ req[r].stage = "idle"
                            /\ req[r].event.salt = 0 /\ ~req[r].event.shared
                            /\ req[r].at.life = 0
    BY DEF Init, Unmade
  <1>6. Lives /\ Answers
    BY <1>5 DEF Init, Lives, Live, Answers
  <1>7. CapIsTight
    <2> SUFFICES ASSUME NEW p \in Instances
                 PROVE  inflight[p] = Cardinality(Adds(p)) /\ inflight[p] <= MaxInflight
      BY DEF CapIsTight, Adds
    <2>1. Adds(p) = {}
      BY <1>5 DEF Adds
    <2> QED
      BY <2>1, FS_EmptySet DEF Init
  <1>8. SaltIsHeld /\ SaltOfOneLife
    BY <1>5 DEF SaltIsHeld, SaltOfOneLife
  <1>9. SaltOfOneDate
    <2> DEFINE date == [s \in 1 .. minted |-> 0]
    <2>1. date \in [1 .. minted -> Days]
      OBVIOUS
    <2>2. DrawnFor(date)
      BY <1>0, <1>5 DEF DrawnFor, Unfetched, Init, SaltInit
    <2> QED
      BY <2>1, <2>2 DEF SaltOfOneDate
  <1>10. SaltIsShared
    <2> DEFINE won == [d \in Days |-> 0]
    <2>1. won \in [Days -> Nat]
      OBVIOUS
    <2>2. Won(won)
      BY <1>0, <1>5 DEF Won, Unshared, Unfetched, Init, SaltInit
    <2> QED
      BY <2>1, <2>2 DEF SaltIsShared
  <1> QED
    BY <1>1, <1>2, <1>3, <1>4, <1>6, <1>7, <1>8, <1>9, <1>10
       DEF IInv, RequestInv, SaltInv, EventInv

-----------------------------------------------------------------------------
\* No event changes, and no request with an event changes its place or its date.
EventsKept ==
    \A r \in Requests :
        /\ req'[r].event = req[r].event
        /\ req[r].event.salt # 0 \/ req[r].event.shared =>
              req'[r].at = req[r].at /\ req'[r].date = req[r].date

\* A step that keeps the events and leaves the salts alone.
LEMMA EventsKeep ==
    ASSUME IInv, EventsKept, UNCHANGED <<saltVars, life>>
    PROVE  SaltInv' /\ EventInv'
  <1>1. SaltInv'
    BY DEF IInv, SaltInv, SaltType, Promises, FetchedOnce, Memoized, saltVars
  <1>2. SaltIsHeld'
    BY DEF IInv, EventInv, SaltIsHeld, EventsKept, saltVars
  <1>3. SaltOfOneLife'
    BY DEF IInv, EventInv, SaltOfOneLife, EventsKept
  <1>4. SaltOfOneDate'
    <2>1. PICK date \in [1 .. minted -> Days] : DrawnFor(date)
      BY DEF IInv, EventInv, SaltOfOneDate
    <2>2. DrawnFor(date)'
      BY <2>1 DEF DrawnFor, EventsKept, saltVars
    <2> QED
      BY <2>2 DEF SaltOfOneDate, saltVars
  <1>5. SaltIsShared'
    <2>1. PICK won \in [Days -> Nat] : Won(won)
      BY DEF IInv, EventInv, SaltIsShared
    <2>2. Won(won)'
      BY <2>1 DEF Won, Unshared, Over, EventsKept, saltVars
    <2> QED
      BY <2>2 DEF SaltIsShared
  <1> QED
    BY <1>1, <1>2, <1>3, <1>4, <1>5 DEF EventInv

-----------------------------------------------------------------------------
(* The salts. *)

\* The memo after a promise was remembered.
LEMMA RememberType ==
    ASSUME NEW s \in Seq(Days), Len(s) <= MemoSize, NEW d \in Days
    PROVE  /\ RememberSalt(s, d) \in Seq(Days)
           /\ Len(RememberSalt(s, d)) <= MemoSize
           /\ \E i \in DOMAIN RememberSalt(s, d) : RememberSalt(s, d)[i] = d
  <1> DEFINE rest == IF Len(s) >= MemoSize THEN Tail(s) ELSE s
  <1>1. rest \in Seq(Days) /\ Len(rest) \in Nat /\ Len(rest) < MemoSize
    <2>1. CASE Len(s) >= MemoSize
      <3>1. s # <<>>
        BY <2>1, Numbers
      <3> QED
        BY <2>1, <3>1, Numbers
    <2>2. CASE ~(Len(s) >= MemoSize)
      BY <2>2, Numbers
    <2> QED
      BY <2>1, <2>2
  <1>2. RememberSalt(s, d) = Append(rest, d)
    BY DEF RememberSalt
  <1> HIDE DEF rest
  <1>3. Len(Append(rest, d)) = Len(rest) + 1 /\ Append(rest, d)[Len(rest) + 1] = d
        /\ Append(rest, d) \in Seq(Days)
    BY <1>1
  <1>4. Len(rest) + 1 \in DOMAIN Append(rest, d)
    BY <1>1, <1>3
  <1> QED
    BY <1>1, <1>2, <1>3, <1>4, Numbers

\* A promise that was not made before: its salt is drawn for today's date.
LEMMA MintStep ==
    ASSUME IInv, EventsKept, NEW p \in Instances, GetDailySalt(p),
           UNCHANGED <<today, stored, forgotten, life>>
    PROVE  SaltInv' /\ EventInv'
  <1>1. CASE Memoized(p, today[p])
    <2>1. UNCHANGED saltVars
      BY <1>1 DEF GetDailySalt, MemoKey, saltVars
    <2> QED
      BY <2>1, EventsKeep
  <1>2. CASE ~Memoized(p, today[p])
    <2> DEFINE t == today[p]
               n == [stage |-> "setting", key |-> t, salt |-> minted + 1, shared |-> FALSE]
    <2>1. /\ memo' = [memo EXCEPT ![p] = RememberSalt(@, t)]
          /\ fetch' = [fetch EXCEPT ![p][t] = n]
          /\ minted' = minted + 1
      BY <1>2 DEF GetDailySalt, MemoKey
    <2>2. t \in Days /\ minted \in Nat /\ memo[p] \in Seq(Days) /\ Len(memo[p]) <= MemoSize
      BY DEF IInv, SaltInv, SaltType
    <2>3. fetch[p][t].stage = "none" /\ ~fetch[p][t].shared
      BY <1>2, <2>2 DEF IInv, SaltInv, FetchedOnce
    <2>4. n \in Promises'
      BY <2>1, <2>2 DEF Promises
    <2>5. n.stage = "setting" /\ n.key = t /\ n.salt = minted + 1 /\ ~n.shared
      OBVIOUS
    <2> HIDE DEF n
    <2>6. Promises \subseteq Promises' /\ 0 .. minted \subseteq 0 .. minted'
      BY <2>1, <2>2 DEF Promises
    <2>7. fetch' \in [Instances -> [Days -> Promises']]
      BY <2>1, <2>2, <2>4, <2>6 DEF IInv, SaltInv, SaltType
    <2>8. \A q \in Instances, d \in Days :
             fetch'[q][d] = IF q = p /\ d = t THEN n ELSE fetch[q][d]
      BY <2>1, <2>2 DEF IInv, SaltInv, SaltType
    <2>9. /\ memo' \in [Instances -> Seq(Days)]
          /\ \A q \in Instances : Len(memo'[q]) <= MemoSize
          /\ \A q \in Instances \ {p} : memo'[q] = memo[q]
          /\ \E i \in DOMAIN memo'[p] : memo'[p][i] = t
      BY <2>1, <2>2, RememberType DEF IInv, SaltInv, SaltType
    <2>10. SaltType'
      <3>1. stored' \in [Days -> 0 .. minted'] /\ minted' \in Nat
        BY <2>1, <2>2, <2>6 DEF IInv, SaltInv, SaltType
      <3> QED
        BY <2>7, <2>9, <3>1 DEF IInv, SaltInv, SaltType
    <2>11. FetchedOnce'
      <3> SUFFICES ASSUME NEW q \in Instances, NEW d \in Days
                   PROVE  /\ fetch'[q][d].stage # "none" =>
                                /\ fetch'[q][d].key = d
                                /\ d <= today[q]
                                /\ d = today[q] => Memoized(q, d)'
                          /\ fetch'[q][d].shared => fetch'[q][d].stage = "settled"
        BY DEF FetchedOnce
      <3>1. CASE q = p /\ d = t
        <4>1. Memoized(q, d)'
          BY <2>9, <3>1 DEF Memoized
        <4>2. fetch'[q][d] = n
          BY <2>8, <3>1
        <4>3. d <= today[q]
          BY <2>2, <3>1, Numbers
        <4> QED
          BY <2>5, <3>1, <4>1, <4>2, <4>3
      <3>2. CASE q = p /\ d # t
        BY <2>8, <3>2 DEF IInv, SaltInv, FetchedOnce
      <3>3. CASE q # p
        BY <2>8, <2>9, <3>3 DEF IInv, SaltInv, FetchedOnce, Memoized
      <3> QED
        BY <3>1, <3>2, <3>3
    <2>12. SaltIsHeld'
      <3> SUFFICES ASSUME NEW r \in Requests, req'[r].event.salt # 0,
                          req'[r].at.life = life[req'[r].at.process]
                   PROVE  /\ fetch'[req'[r].at.process][req'[r].date].stage = "settled"
                          /\ fetch'[req'[r].at.process][req'[r].date].salt = req'[r].event.salt
        BY DEF SaltIsHeld
      <3> DEFINE q == req[r].at.process
                 d == req[r].date
      <3>1. req'[r].event = req[r].event /\ req'[r].at = req[r].at /\ req'[r].date = req[r].date
        BY DEF EventsKept
      <3>2. fetch[q][d].stage = "settled" /\ fetch[q][d].salt = req[r].event.salt
        BY <3>1 DEF IInv, EventInv, SaltIsHeld
      <3>3. req[r].stage # "idle"
        BY <3>1 DEF IInv, RequestInv, Answers
      <3>4. q \in Instances /\ d \in Days
        BY <3>3 DEF IInv, RequestInv, Lives, ReqType, Request
      <3>5. fetch'[q][d] = fetch[q][d]
        BY <2>3, <2>8, <3>2, <3>4
      <3> QED
        BY <3>1, <3>2, <3>5
    <2>13. SaltOfOneLife'
      BY DEF IInv, EventInv, SaltOfOneLife, EventsKept
    <2>14. SaltOfOneDate'
      <3>1. PICK date \in [1 .. minted -> Days] : DrawnFor(date)
        BY DEF IInv, EventInv, SaltOfOneDate
      <3>2. PICK date2 \in [1 .. minted' -> Days] :
               /\ date2[minted + 1] = t
               /\ \A s \in 1 .. minted : date2[s] = date[s]
        <4> DEFINE new == [s \in 1 .. minted' |-> IF s = minted + 1 THEN t ELSE date[s]]
        <4>1. new \in [1 .. minted' -> Days]
          BY <2>1, <2>2
        <4>2. new[minted + 1] = t /\ \A s \in 1 .. minted : new[s] = date[s]
          BY <2>1, <2>2
        <4> HIDE DEF new
        <4> QED
          BY <4>1, <4>2
      <3>3. \A q \in Instances, d \in Days : fetch'[q][d].stage # "none" =>
               fetch'[q][d].salt \in 1 .. minted' /\ date2[fetch'[q][d].salt] = d
        BY <2>1, <2>2, <2>5, <2>8, <3>1, <3>2 DEF DrawnFor
      <3>4. \A d \in Days : stored'[d] # 0 => date2[stored'[d]] = d
        <4> SUFFICES ASSUME NEW d \in Days, stored[d] # 0 PROVE date2[stored[d]] = d
          OBVIOUS
        <4>1. stored[d] \in 1 .. minted
          BY <2>2 DEF IInv, SaltInv, SaltType
        <4> QED
          BY <3>1, <3>2, <4>1 DEF DrawnFor
      <3>5. \A r \in Requests : req'[r].event.salt # 0 => date2[req'[r].event.salt] = req'[r].date
        <4> SUFFICES ASSUME NEW r \in Requests, req'[r].event.salt # 0
                     PROVE  date2[req'[r].event.salt] = req'[r].date
          OBVIOUS
        <4>1. req'[r].event = req[r].event /\ req'[r].date = req[r].date
          BY DEF EventsKept
        <4>2. req[r].event.salt \in 1 .. minted
          BY <2>2, <4>1 DEF IInv, RequestInv, ReqType, Request, Events
        <4> QED
          BY <3>1, <3>2, <4>1, <4>2 DEF DrawnFor
      <3>6. DrawnFor(date2)'
        BY <3>3, <3>4, <3>5 DEF DrawnFor
      <3> QED
        BY <3>2, <3>6 DEF SaltOfOneDate
    <2>15. SaltIsShared'
      <3>1. PICK won \in [Days -> Nat] : Won(won)
        BY DEF IInv, EventInv, SaltIsShared
      <3> SUFFICES ASSUME NEW d \in Days \ forgotten
                   PROVE  /\ stored[d] # 0 => stored[d] = won[d]
                          /\ \A q \in Instances : fetch'[q][d].shared => fetch'[q][d].salt = won[d]
                          /\ \A r \in Requests : req'[r].event.shared /\ req'[r].date = d =>
                                                    req'[r].event.salt = won[d]
                          /\ stored[d] = 0 => Unshared(d)' \/ Over(d)'
        BY DEF SaltIsShared, Won
      <3>2. \A q \in Instances : fetch'[q][d].shared => fetch[q][d].shared /\ fetch'[q][d] = fetch[q][d]
        BY <2>5, <2>8
      <3>3. \A r \in Requests : req'[r].event.shared /\ req'[r].date = d =>
               req[r].event.shared /\ req[r].date = d /\ req'[r].event = req[r].event
        BY DEF EventsKept
      <3>4. Unshared(d) => Unshared(d)'
        BY <3>2, <3>3 DEF Unshared
      <3>5. ASSUME Over(d) PROVE Over(d)'
        <4>1. t # d
          BY <2>2, <3>5, Numbers DEF Over
        <4>2. \A q \in Instances : fetch'[q][d] = fetch[q][d]
          BY <2>8, <4>1
        <4> QED
          BY <3>5, <4>2 DEF Over
      <3> QED
        BY <3>1, <3>2, <3>3, <3>4, <3>5 DEF Won
    <2> QED
      BY <2>10, <2>11, <2>12, <2>13, <2>14, <2>15 DEF SaltInv, EventInv
  <1> QED
    BY <1>1, <1>2

\* A promise that is pending moves on, and keeps its key.
LEMMA PromiseMoves ==
    ASSUME IInv, NEW p \in Instances, NEW d \in Days, NEW n \in Promises,
           fetch[p][d].stage \in {"setting", "getting"},
           fetch' = [fetch EXCEPT ![p][d] = n],
           n.stage \in {"getting", "settled"}, n.key = fetch[p][d].key,
           n.shared => n.stage = "settled",
           UNCHANGED <<today, memo, forgotten, minted, req, life>>,
           stored' \in [Days -> 0 .. minted]
    PROVE  /\ SaltInv' /\ SaltIsHeld' /\ SaltOfOneLife'
           /\ \A q \in Instances, e \in Days :
                 fetch'[q][e] = IF q = p /\ e = d THEN n ELSE fetch[q][e]
  <1>1. \A q \in Instances, e \in Days :
           fetch'[q][e] = IF q = p /\ e = d THEN n ELSE fetch[q][e]
    BY DEF IInv, SaltInv, SaltType
  <1>2. SaltType'
    BY DEF IInv, SaltInv, SaltType, Promises
  <1>3. FetchedOnce'
    BY <1>1 DEF IInv, SaltInv, FetchedOnce, Memoized
  <1>4. SaltIsHeld'
    <2> SUFFICES ASSUME NEW r \in Requests, req[r].event.salt # 0,
                        req[r].at.life = life[req[r].at.process]
                 PROVE  /\ fetch'[req[r].at.process][req[r].date].stage = "settled"
                        /\ fetch'[req[r].at.process][req[r].date].salt = req[r].event.salt
      BY DEF SaltIsHeld
    <2> DEFINE q == req[r].at.process
               e == req[r].date
    <2>1. fetch[q][e].stage = "settled" /\ fetch[q][e].salt = req[r].event.salt
      BY DEF IInv, EventInv, SaltIsHeld
    <2>2. req[r].stage # "idle"
      BY DEF IInv, RequestInv, Answers
    <2>3. q \in Instances /\ e \in Days
      BY <2>2 DEF IInv, RequestInv, Lives, ReqType, Request
    <2>4. fetch'[q][e] = fetch[q][e]
      BY <1>1, <2>1, <2>3
    <2> QED
      BY <2>1, <2>4
  <1>5. SaltOfOneLife'
    BY DEF IInv, EventInv, SaltOfOneLife
  <1> QED
    BY <1>1, <1>2, <1>3, <1>4, <1>5 DEF SaltInv

\* A date is still the date of its salts if the salt of a promise is one of that date.
LEMMA DatesKeep ==
    ASSUME IInv, NEW p \in Instances, NEW d \in Days, NEW n,
           \A q \in Instances, e \in Days :
               fetch'[q][e] = IF q = p /\ e = d THEN n ELSE fetch[q][e],
           fetch[p][d].stage # "none",
           n.salt \in {fetch[p][d].salt, stored[d]} \ {0},
           \A e \in Days : stored'[e] \in {stored[e], 0} \/ (e = d /\ stored'[e] = fetch[p][d].salt),
           UNCHANGED <<minted, req>>
    PROVE  SaltOfOneDate'
  <1>1. PICK date \in [1 .. minted -> Days] : DrawnFor(date)
    BY DEF IInv, EventInv, SaltOfOneDate
  <1>2. date[fetch[p][d].salt] = d /\ fetch[p][d].salt \in 1 .. minted
    BY <1>1 DEF DrawnFor
  <1>3. stored[d] # 0 => date[stored[d]] = d /\ stored[d] \in 1 .. minted
    BY <1>1 DEF DrawnFor, IInv, SaltInv, SaltType
  <1>4. \A q \in Instances, e \in Days : fetch'[q][e].stage # "none" =>
           fetch'[q][e].salt \in 1 .. minted /\ date[fetch'[q][e].salt] = e
    BY <1>1, <1>2, <1>3 DEF DrawnFor
  <1>5. \A e \in Days : stored'[e] # 0 => date[stored'[e]] = e
    BY <1>1, <1>2 DEF DrawnFor
  <1>6. \A r \in Requests : req'[r].event.salt # 0 => date[req'[r].event.salt] = req'[r].date
    BY <1>1 DEF DrawnFor
  <1>7. DrawnFor(date)'
    BY <1>4, <1>5, <1>6 DEF DrawnFor
  <1> QED
    BY <1>7 DEF SaltOfOneDate

\* SET NX: the first salt of the date wins, and no salt after it.
LEMMA SetSaltStep ==
    ASSUME IInv, NEW p \in Instances, NEW d \in Days, SetSalt(p, d), UNCHANGED <<req, life>>
    PROVE  SaltInv' /\ EventInv'
  <1> DEFINE f == fetch[p][d]
  <1>1. f \in Promises /\ f.stage = "setting" /\ f.key = d /\ ~f.shared
    BY DEF SetSalt, IInv, SaltInv, SaltType, FetchedOnce
  <1>2. PICK n \in Promises :
           /\ fetch' = [fetch EXCEPT ![p][d] = n]
           /\ n.stage = "getting" /\ n.key = d /\ n.salt = f.salt
           /\ n.shared => n.stage = "settled"
    <2> DEFINE g == [f EXCEPT !.stage = "getting"]
    <2>1. fetch' = [fetch EXCEPT ![p][d] = g]
      BY DEF SetSalt, IInv, SaltInv, SaltType
    <2>2. g \in Promises /\ g.stage = "getting" /\ g.key = d /\ g.salt = f.salt
      BY <1>1 DEF Promises
    <2>3. g.shared => g.stage = "settled"
      BY <1>1
    <2> HIDE DEF g
    <2> QED
      BY <2>1, <2>2, <2>3
  <1>3. /\ stored' = [stored EXCEPT ![d] = IF @ = 0 THEN f.salt ELSE @]
        /\ UNCHANGED <<today, memo, forgotten, minted>>
    BY <1>1 DEF SetSalt, SetNx
  <1>5. stored' \in [Days -> 0 .. minted]
        /\ \A e \in Days : stored'[e] = IF e = d /\ stored[d] = 0 THEN f.salt ELSE stored[e]
    BY <1>1, <1>3 DEF IInv, SaltInv, SaltType, Promises
  <1>6. f.salt \in 1 .. minted
    BY <1>1 DEF IInv, EventInv, SaltOfOneDate, DrawnFor
  <1>10. ~n.shared
    BY <1>2
  <1>7. /\ SaltInv' /\ SaltIsHeld' /\ SaltOfOneLife'
        /\ \A q \in Instances, e \in Days :
              fetch'[q][e] = IF q = p /\ e = d THEN n ELSE fetch[q][e]
    <2>1. fetch[p][d].stage \in {"setting", "getting"} /\ n.stage \in {"getting", "settled"}
          /\ n.key = fetch[p][d].key
      BY <1>1, <1>2
    <2>2. UNCHANGED <<today, memo, forgotten, minted, req, life>>
      BY <1>3
    <2>3. stored' \in [Days -> 0 .. minted]
      BY <1>5
    <2> HIDE DEF f
    <2> QED
      BY <1>2, <2>1, <2>2, <2>3, PromiseMoves
  <1>8. SaltOfOneDate'
    BY <1>1, <1>2, <1>3, <1>5, <1>6, <1>7, DatesKeep
  <1>9. SaltIsShared'
    <2>1. PICK won \in [Days -> Nat] : Won(won)
      BY DEF IInv, EventInv, SaltIsShared
    <2>2. PICK won2 \in [Days -> Nat] :
             /\ won2[d] = IF stored[d] = 0 THEN f.salt ELSE won[d]
             /\ \A e \in Days \ {d} : won2[e] = won[e]
      <3> DEFINE new == [won EXCEPT ![d] = IF stored[d] = 0 THEN f.salt ELSE @]
      <3>1. new \in [Days -> Nat]
        BY <1>6
      <3>2. new[d] = (IF stored[d] = 0 THEN f.salt ELSE won[d])
            /\ \A e \in Days \ {d} : new[e] = won[e]
        OBVIOUS
      <3> HIDE DEF new
      <3> QED
        BY <3>1, <3>2
    <2> SUFFICES ASSUME NEW e \in Days \ forgotten
                 PROVE  /\ stored'[e] # 0 => stored'[e] = won2[e]
                        /\ \A q \in Instances : fetch'[q][e].shared => fetch'[q][e].salt = won2[e]
                        /\ \A r \in Requests :
                              req[r].event.shared /\ req[r].date = e => req[r].event.salt = won2[e]
                        /\ stored'[e] = 0 => Unshared(e)' \/ Over(e)'
      BY <1>3 DEF SaltIsShared, Won
    <2>3. CASE e = d /\ stored[d] = 0
      <3>1. ~Over(d)
        BY <1>1 DEF Over
      <3>2. Unshared(d)
        BY <2>1, <2>3, <3>1 DEF Won
      <3>3. stored'[e] = f.salt /\ won2[e] = f.salt /\ f.salt # 0
        BY <1>5, <1>6, <2>2, <2>3
      <3> QED
        BY <1>7, <1>10, <2>3, <3>2, <3>3 DEF Unshared
    <2>4. CASE e = d /\ stored[d] # 0
      <3>1. won2[e] = won[e] /\ stored'[e] = stored[e]
        BY <1>5, <2>2, <2>4
      <3> QED
        BY <1>7, <1>10, <2>1, <2>4, <3>1 DEF Won
    <2>5. CASE e # d
      <3>1. won2[e] = won[e] /\ stored'[e] = stored[e]
            /\ \A q \in Instances : fetch'[q][e] = fetch[q][e]
        BY <1>5, <1>7, <2>2, <2>5
      <3>2. Unshared(e) => Unshared(e)'
        BY <3>1 DEF Unshared
      <3>3. Over(e) => Over(e)'
        BY <1>3, <3>1 DEF Over
      <3> QED
        BY <2>1, <3>1, <3>2, <3>3 DEF Won
    <2> QED
      BY <2>3, <2>4, <2>5
  <1> QED
    BY <1>7, <1>8, <1>9 DEF EventInv

\* GET, or the fallback: the promise settles, with the salt of the date or its own.
LEMMA SettleStep ==
    ASSUME IInv, NEW p \in Instances, NEW d \in Days, GetSalt(p, d) \/ FallBack(p, d),
           UNCHANGED <<req, life>>
    PROVE  SaltInv' /\ EventInv'
  <1> DEFINE f == fetch[p][d]
  <1>1. f \in Promises /\ f.stage \in {"setting", "getting"} /\ f.key = d /\ ~f.shared
    BY DEF GetSalt, FallBack, IInv, SaltInv, SaltType, FetchedOnce
  <1>2. f.salt \in 1 .. minted
    BY <1>1 DEF IInv, EventInv, SaltOfOneDate, DrawnFor
  <1>3. UNCHANGED <<today, memo, stored, forgotten, minted>> /\ stored \in [Days -> 0 .. minted]
    BY DEF GetSalt, FallBack, IInv, SaltInv, SaltType
  <1>4. PICK n \in Promises :
           /\ fetch' = [fetch EXCEPT ![p][d] = n]
           /\ n.stage = "settled" /\ n.key = d
           /\ n.shared => stored[d] # 0 /\ n.salt = stored[d]
           /\ n.salt \in {f.salt, stored[d]} \ {0}
    <2>1. CASE GetSalt(p, d)
      <3> DEFINE g == [f EXCEPT !.stage = "settled", !.shared = TRUE, !.salt = stored[d]]
      <3>1. stored[d] # 0 /\ fetch' = [fetch EXCEPT ![p][d] = g]
        BY <1>1, <2>1 DEF GetSalt, IInv, SaltInv, SaltType
      <3>2. g \in Promises /\ g.stage = "settled" /\ g.key = d /\ g.salt = stored[d]
        BY <1>1, <1>3 DEF Promises
      <3> HIDE DEF g
      <3> QED
        BY <3>1, <3>2
    <2>2. CASE FallBack(p, d)
      <3> DEFINE g == [f EXCEPT !.stage = "settled"]
      <3>1. fetch' = [fetch EXCEPT ![p][d] = g]
        BY <2>2 DEF FallBack, IInv, SaltInv, SaltType
      <3>2. g \in Promises /\ g.stage = "settled" /\ g.key = d /\ g.salt = f.salt
        BY <1>1 DEF Promises
      <3>3. g.shared => stored[d] # 0 /\ g.salt = stored[d]
        BY <1>1
      <3>4. g.salt \in {f.salt, stored[d]} \ {0}
        BY <1>2, <3>2
      <3> HIDE DEF g
      <3> QED
        BY <3>1, <3>2, <3>3, <3>4
    <2> QED
      BY <2>1, <2>2
  <1>5. /\ SaltInv' /\ SaltIsHeld' /\ SaltOfOneLife'
        /\ \A q \in Instances, e \in Days :
              fetch'[q][e] = IF q = p /\ e = d THEN n ELSE fetch[q][e]
    BY <1>1, <1>3, <1>4, PromiseMoves
  <1>6. SaltOfOneDate'
    BY <1>1, <1>3, <1>4, <1>5, DatesKeep
  <1>7. SaltIsShared'
    <2>1. PICK won \in [Days -> Nat] : Won(won)
      BY DEF IInv, EventInv, SaltIsShared
    <2> SUFFICES ASSUME NEW e \in Days \ forgotten
                 PROVE  /\ stored[e] # 0 => stored[e] = won[e]
                        /\ \A q \in Instances : fetch'[q][e].shared => fetch'[q][e].salt = won[e]
                        /\ \A r \in Requests :
                              req[r].event.shared /\ req[r].date = e => req[r].event.salt = won[e]
                        /\ stored[e] = 0 => Unshared(e)' \/ Over(e)'
      BY <1>3 DEF SaltIsShared, Won
    <2>2. \A q \in Instances : fetch'[q][e].shared => fetch'[q][e].salt = won[e]
      BY <1>4, <1>5, <2>1 DEF Won
    <2>3. ASSUME stored[e] = 0, Unshared(e) PROVE Unshared(e)'
      BY <1>4, <1>5, <2>3 DEF Unshared
    <2>4. Over(e) => Over(e)'
      BY <1>3, <1>4, <1>5 DEF Over
    <2> QED
      BY <2>1, <2>2, <2>3, <2>4 DEF Won
  <1> QED
    BY <1>5, <1>6, <1>7 DEF EventInv

\* Midnight, and what becomes of the keys in Redis: no promise changes.
LEMMA PromisesStay ==
    ASSUME IInv, UNCHANGED <<memo, fetch, minted, req, life>>,
           today' \in [Instances -> Days], stored' \in [Days -> 0 .. minted],
           forgotten' \subseteq Days, forgotten \subseteq forgotten',
           \A p \in Instances : today[p] <= today'[p],
           \A p \in Instances : today'[p] # today[p] => today[p] < today'[p],
           \A d \in Days : \/ stored'[d] = stored[d]
                           \/ stored'[d] = 0 /\ (d \in forgotten' \/ Over(d))
    PROVE  SaltInv' /\ EventInv'
  <1>1. SaltType'
    BY DEF IInv, SaltInv, SaltType, Promises
  <1>2. \A p \in Instances : today[p] \in Nat /\ today'[p] \in Nat
    BY Numbers DEF IInv, SaltInv, SaltType
  <1>3. FetchedOnce'
    <2> SUFFICES ASSUME NEW p \in Instances, NEW d \in Days
                 PROVE  /\ fetch[p][d].stage # "none" =>
                              /\ fetch[p][d].key = d
                              /\ d <= today'[p]
                              /\ d = today'[p] => Memoized(p, d)'
                        /\ fetch[p][d].shared => fetch[p][d].stage = "settled"
      BY DEF FetchedOnce
    <2>1. /\ fetch[p][d].stage # "none" =>
                /\ fetch[p][d].key = d
                /\ d <= today[p]
                /\ d = today[p] => Memoized(p, d)
          /\ fetch[p][d].shared => fetch[p][d].stage = "settled"
      BY DEF IInv, SaltInv, FetchedOnce
    <2>2. Memoized(p, d)' <=> Memoized(p, d)
      BY DEF Memoized
    <2> QED
      BY <1>2, <2>1, <2>2, Numbers
  <1>4. SaltIsHeld' /\ SaltOfOneLife'
    BY DEF IInv, EventInv, SaltIsHeld, SaltOfOneLife
  <1>5. SaltOfOneDate'
    <2>1. PICK date \in [1 .. minted -> Days] : DrawnFor(date)
      BY DEF IInv, EventInv, SaltOfOneDate
    <2>2. DrawnFor(date)'
      BY <2>1 DEF DrawnFor
    <2> QED
      BY <2>2 DEF SaltOfOneDate
  <1>6. SaltIsShared'
    <2>1. PICK won \in [Days -> Nat] : Won(won)
      BY DEF IInv, EventInv, SaltIsShared
    <2> SUFFICES ASSUME NEW d \in Days \ forgotten'
                 PROVE  /\ stored'[d] # 0 => stored'[d] = won[d]
                        /\ \A p \in Instances : fetch[p][d].shared => fetch[p][d].salt = won[d]
                        /\ \A r \in Requests :
                              req[r].event.shared /\ req[r].date = d => req[r].event.salt = won[d]
                        /\ stored'[d] = 0 => Unshared(d)' \/ Over(d)'
      BY DEF SaltIsShared, Won
    <2>2. Unshared(d) => Unshared(d)'
      BY DEF Unshared
    <2>3. Over(d) => Over(d)'
      BY <1>2, Numbers DEF Over
    <2> QED
      BY <2>1, <2>2, <2>3 DEF Won
  <1> QED
    BY <1>1, <1>3, <1>4, <1>5, <1>6 DEF SaltInv, EventInv

\* Midnight in one process leaves every promise and every hash with the day it was made for.
LEMMA MidnightStep ==
    ASSUME IInv, NEW p \in Instances, Midnight(p), UNCHANGED <<req, life>>
    PROVE  SaltInv' /\ EventInv'
  <1>1. today \in [Instances -> Days] /\ today[p] \in 0 .. MaxDay /\ today[p] < MaxDay
        /\ today' = [today EXCEPT ![p] = @ + 1] /\ UNCHANGED <<memo, fetch, stored, forgotten, minted>>
    BY Numbers DEF Midnight, IInv, SaltInv, SaltType
  <1>2. today' \in [Instances -> Days]
    BY <1>1, Numbers
  <1>3. \A q \in Instances : /\ today[q] <= today'[q]
                             /\ today'[q] # today[q] => today[q] < today'[q]
    BY <1>1, Numbers
  <1>4. stored' \in [Days -> 0 .. minted] /\ forgotten' \subseteq Days
    BY <1>1 DEF IInv, SaltInv, SaltType
  <1> QED
    BY <1>1, <1>2, <1>3, <1>4, PromisesStay

\* Redis loses a day's salt; the processes that have it keep it.
LEMMA ForgetStep ==
    ASSUME IInv, NEW d \in Days, Expire(d) \/ RedisForgets(d), UNCHANGED <<req, life>>
    PROVE  SaltInv' /\ EventInv'
  <1>1. /\ stored' = [stored EXCEPT ![d] = 0]
        /\ forgotten' = forgotten \/ forgotten' = forgotten \cup {d}
        /\ UNCHANGED <<today, memo, fetch, minted>>
    BY DEF Expire, RedisForgets
  <1>2. d \in forgotten' \/ Over(d)
    <2>1. CASE Expire(d)
      <3> SUFFICES ASSUME NEW p \in Instances
                   PROVE  today[p] > d /\ fetch[p][d].stage \notin {"setting", "getting"}
        BY DEF Over
      <3>1. fetch[p][d].stage # "none" => fetch[p][d].key = d
        BY DEF IInv, SaltInv, FetchedOnce
      <3> QED
        BY <2>1, <3>1 DEF Expire
    <2>2. CASE RedisForgets(d)
      BY <2>2 DEF RedisForgets
    <2> QED
      BY <2>1, <2>2
  <1>3. /\ stored' \in [Days -> 0 .. minted] /\ forgotten' \subseteq Days
        /\ today' \in [Instances -> Days] /\ forgotten \subseteq forgotten'
        /\ \A e \in Days : stored'[e] = IF e = d THEN 0 ELSE stored[e]
    BY <1>1 DEF IInv, SaltInv, SaltType
  <1>4. \A p \in Instances : today[p] <= today'[p] /\ today'[p] = today[p]
    BY <1>1, Numbers DEF IInv, SaltInv, SaltType
  <1> QED
    BY <1>1, <1>2, <1>3, <1>4, PromisesStay

\* A process dies with its promises; its events are those of a life that is over.
LEMMA SaltCrash ==
    ASSUME IInv, NEW p \in Instances, SaltRestart(p), EventsKept,
           life' = [life EXCEPT ![p] = @ + 1]
    PROVE  SaltInv' /\ EventInv'
  <1>1. /\ memo' = [memo EXCEPT ![p] = <<>>]
        /\ UNCHANGED <<today, stored, forgotten, minted>>
        /\ \A q \in Instances, d \in Days :
              fetch'[q][d] = IF q = p THEN Unfetched ELSE fetch[q][d]
    BY DEF SaltRestart, IInv, SaltInv, SaltType
  <1>2. Unfetched \in Promises /\ Unfetched.stage = "none" /\ ~Unfetched.shared
    BY Numbers DEF Unfetched, Promises, IInv, SaltInv, SaltType
  <1>3. SaltType'
    <2>1. fetch' \in [Instances -> [Days -> Promises]]
      BY <1>2 DEF SaltRestart, IInv, SaltInv, SaltType
    <2>2. memo' \in [Instances -> Seq(Days)] /\ \A q \in Instances : Len(memo'[q]) <= MemoSize
      <3>1. <<>> \in Seq(Days) /\ Len(<<>>) <= MemoSize
        BY Numbers
      <3> QED
        BY <1>1, <3>1 DEF IInv, SaltInv, SaltType
    <2> QED
      BY <1>1, <2>1, <2>2 DEF IInv, SaltInv, SaltType, Promises
  <1>4. FetchedOnce'
    <2> SUFFICES ASSUME NEW q \in Instances, NEW d \in Days
                 PROVE  /\ fetch'[q][d].stage # "none" =>
                              /\ fetch'[q][d].key = d
                              /\ d <= today'[q]
                              /\ d = today'[q] => Memoized(q, d)'
                        /\ fetch'[q][d].shared => fetch'[q][d].stage = "settled"
      BY DEF FetchedOnce
    <2>1. CASE q = p
      BY <1>1, <1>2, <2>1
    <2>2. CASE q # p
      <3>1. memo'[q] = memo[q] /\ fetch'[q][d] = fetch[q][d]
        BY <1>1, <2>2 DEF IInv, SaltInv, SaltType
      <3> QED
        BY <1>1, <3>1 DEF IInv, SaltInv, FetchedOnce, Memoized
    <2> QED
      BY <2>1, <2>2
  <1>5. SaltIsHeld'
    <2> SUFFICES ASSUME NEW r \in Requests, req'[r].event.salt # 0,
                        req'[r].at.life = life'[req'[r].at.process]
                 PROVE  /\ fetch'[req'[r].at.process][req'[r].date].stage = "settled"
                        /\ fetch'[req'[r].at.process][req'[r].date].salt = req'[r].event.salt
      BY DEF SaltIsHeld
    <2> DEFINE q == req[r].at.process
               d == req[r].date
    <2>1. req'[r].event = req[r].event /\ req'[r].at = req[r].at /\ req'[r].date = req[r].date
      BY DEF EventsKept
    <2>2. req[r].stage # "idle"
      BY <2>1 DEF IInv, RequestInv, Answers
    <2>3. q \in Instances /\ d \in Days /\ req[r].at.life \in Nat /\ req[r].at.life <= life[q]
      BY <2>2 DEF IInv, RequestInv, Lives, ReqType, Request, Places
    <2>4. life \in [Instances -> Nat]
      BY DEF IInv, RequestInv, ProcessType
    <2>5. q # p /\ life'[q] = life[q]
      BY <2>1, <2>3, <2>4
    <2>6. fetch[q][d].stage = "settled" /\ fetch[q][d].salt = req[r].event.salt
      BY <2>1, <2>5 DEF IInv, EventInv, SaltIsHeld
    <2>7. fetch'[q][d] = fetch[q][d]
      BY <1>1, <2>3, <2>5
    <2> QED
      BY <2>1, <2>6, <2>7
  <1>6. SaltOfOneLife'
    BY DEF IInv, EventInv, SaltOfOneLife, EventsKept
  <1>7. SaltOfOneDate'
    <2>1. PICK date \in [1 .. minted -> Days] : DrawnFor(date)
      BY DEF IInv, EventInv, SaltOfOneDate
    <2>2. \A q \in Instances, d \in Days : fetch'[q][d].stage # "none" =>
             fetch'[q][d].salt \in 1 .. minted /\ date[fetch'[q][d].salt] = d
      BY <1>1, <1>2, <2>1 DEF DrawnFor
    <2>3. \A r \in Requests : req'[r].event.salt # 0 => date[req'[r].event.salt] = req'[r].date
      BY <2>1 DEF DrawnFor, EventsKept
    <2>4. DrawnFor(date)'
      BY <1>1, <2>1, <2>2, <2>3 DEF DrawnFor
    <2> QED
      BY <1>1, <2>4 DEF SaltOfOneDate
  <1>8. SaltIsShared'
    <2>1. PICK won \in [Days -> Nat] : Won(won)
      BY DEF IInv, EventInv, SaltIsShared
    <2> SUFFICES ASSUME NEW d \in Days \ forgotten
                 PROVE  /\ stored[d] # 0 => stored[d] = won[d]
                        /\ \A q \in Instances : fetch'[q][d].shared => fetch'[q][d].salt = won[d]
                        /\ \A r \in Requests : req'[r].event.shared /\ req'[r].date = d =>
                                                  req'[r].event.salt = won[d]
                        /\ stored[d] = 0 => Unshared(d)' \/ Over(d)'
      BY <1>1 DEF SaltIsShared, Won
    <2>2. \A q \in Instances : fetch'[q][d].shared => fetch[q][d].shared /\ fetch'[q][d] = fetch[q][d]
      BY <1>1, <1>2
    <2>3. \A r \in Requests : req'[r].event.shared /\ req'[r].date = d =>
             req[r].event.shared /\ req[r].date = d /\ req'[r].event = req[r].event
      BY DEF EventsKept
    <2>4. Unshared(d) => Unshared(d)'
      BY <2>2, <2>3 DEF Unshared
    <2>5. Over(d) => Over(d)'
      BY <1>1, <1>2 DEF Over
    <2> QED
      BY <2>1, <2>2, <2>3, <2>4, <2>5 DEF Won
  <1> QED
    BY <1>3, <1>4, <1>5, <1>6, <1>7, <1>8 DEF SaltInv, EventInv

-----------------------------------------------------------------------------
(* The requests. *)

\* The salt arrives: the event gets the salt its process holds for the date.
LEMMA EventIsBuilt ==
    ASSUME IInv, NEW r \in Requests, SaltArrives(r)
    PROVE  SaltInv' /\ EventInv'
  <1>1. PICK p \in Instances, d \in Days :
           /\ p = req[r].at.process /\ d = req[r].date
           /\ req[r].at.life = life[p]
           /\ req[r].stage = "salt"
    BY DEF SaltArrives, IInv, RequestInv, ReqType, Request, Lives, Live
  <1>2. fetch[p][d].stage = "settled"
    BY <1>1 DEF SaltArrives, MemoKey
  <1>3. PICK e, s : /\ req' = [req EXCEPT ![r].stage = s, ![r].event = e]
                    /\ e.salt = fetch[p][d].salt /\ e.shared = fetch[p][d].shared
    <2> DEFINE f == fetch[p][d]
               g == [salt |-> f.salt, shared |-> f.shared]
    <2>1. EnqueueCapture(r, g)
      BY <1>1 DEF SaltArrives, MemoKey, BuildCapturePayload
    <2>2. g.salt = f.salt /\ g.shared = f.shared
      OBVIOUS
    <2> HIDE DEF g
    <2>3. \E s : req' = [req EXCEPT ![r].stage = s, ![r].event = g]
      BY <2>1 DEF EnqueueCapture
    <2> QED
      BY <2>2, <2>3
  <1>4. \A q \in Requests : /\ req'[q].event = IF q = r THEN e ELSE req[q].event
                            /\ req'[q].at = req[q].at /\ req'[q].date = req[q].date
    BY <1>1, <1>3 DEF IInv, RequestInv, ReqType, Request
  <1>5. UNCHANGED <<life, today, memo, fetch, stored, forgotten, minted>>
    BY DEF SaltArrives, saltVars
  <1>6. SaltInv'
    BY <1>5 DEF IInv, SaltInv, SaltType, Promises, FetchedOnce, Memoized
  <1>7. SaltIsHeld'
    <2> SUFFICES ASSUME NEW q \in Requests, req'[q].event.salt # 0,
                        req'[q].at.life = life[req'[q].at.process]
                 PROVE  /\ fetch[req'[q].at.process][req'[q].date].stage = "settled"
                        /\ fetch[req'[q].at.process][req'[q].date].salt = req'[q].event.salt
      BY <1>5 DEF SaltIsHeld
    <2>1. CASE q = r
      BY <1>1, <1>2, <1>3, <1>4, <2>1
    <2>2. CASE q # r
      BY <1>4, <2>2 DEF IInv, EventInv, SaltIsHeld
    <2> QED
      BY <2>1, <2>2
  <1>8. \A q \in Requests :
           q # r /\ req[q].event.salt # 0 /\ req[q].at = req[r].at /\ req[q].date = d
               => req[q].event.salt = e.salt
    <2> SUFFICES ASSUME NEW q \in Requests, q # r, req[q].event.salt # 0,
                        req[q].at = req[r].at, req[q].date = d
                 PROVE  req[q].event.salt = e.salt
      OBVIOUS
    <2>1. req[q].at.process = p /\ req[q].at.life = life[req[q].at.process]
      BY <1>1
    <2>2. fetch[p][d].salt = req[q].event.salt
      BY <2>1 DEF IInv, EventInv, SaltIsHeld
    <2> QED
      BY <1>3, <2>2
  <1>9. SaltOfOneLife'
    BY <1>1, <1>4, <1>8 DEF IInv, EventInv, SaltOfOneLife
  <1>10. SaltOfOneDate'
    <2>1. PICK date \in [1 .. minted -> Days] : DrawnFor(date)
      BY DEF IInv, EventInv, SaltOfOneDate
    <2>2. date[e.salt] = d
      BY <1>2, <1>3, <2>1 DEF DrawnFor
    <2>3. \A q \in Requests : req'[q].event.salt # 0 => date[req'[q].event.salt] = req'[q].date
      BY <1>1, <1>4, <2>1, <2>2 DEF DrawnFor
    <2>4. DrawnFor(date)'
      BY <1>5, <2>1, <2>3 DEF DrawnFor
    <2> QED
      BY <1>5, <2>4 DEF SaltOfOneDate
  <1>11. SaltIsShared'
    <2>1. PICK won \in [Days -> Nat] : Won(won)
      BY DEF IInv, EventInv, SaltIsShared
    <2> SUFFICES ASSUME NEW c \in Days \ forgotten
                 PROVE  /\ stored[c] # 0 => stored[c] = won[c]
                        /\ \A q \in Instances : fetch[q][c].shared => fetch[q][c].salt = won[c]
                        /\ \A q \in Requests :
                              req'[q].event.shared /\ req'[q].date = c =>
                                  req'[q].event.salt = won[c]
                        /\ stored[c] = 0 => Unshared(c)' \/ Over(c)'
      BY <1>5 DEF SaltIsShared, Won
    <2>2. \A q \in Requests : req'[q].event.shared /\ req'[q].date = c =>
                                  req'[q].event.salt = won[c]
      <3> SUFFICES ASSUME NEW q \in Requests, req'[q].event.shared, req'[q].date = c
                   PROVE  req'[q].event.salt = won[c]
        OBVIOUS
      <3>1. CASE q = r
        <4>1. req'[q].event = e /\ c = d
          BY <1>1, <1>4, <3>1
        <4>2. e.shared
          BY <4>1
        <4>3. fetch[p][d].shared
          BY <1>3, <4>2
        <4> QED
          BY <1>3, <2>1, <4>1, <4>3 DEF Won
      <3>2. CASE q # r
        BY <1>4, <2>1, <3>2 DEF Won
      <3> QED
        BY <3>1, <3>2
    <2>3. ASSUME Unshared(c) PROVE Unshared(c)'
      <3>1. \A q \in Instances : ~fetch'[q][c].shared
        BY <1>5, <2>3 DEF Unshared
      <3>2. ASSUME NEW q \in Requests, req'[q].date = c PROVE ~req'[q].event.shared
        <4>1. CASE q = r
          BY <1>1, <1>3, <1>4, <2>3, <3>2, <4>1 DEF Unshared
        <4>2. CASE q # r
          BY <1>4, <2>3, <3>2, <4>2 DEF Unshared
        <4> QED
          BY <4>1, <4>2
      <3> QED
        BY <3>1, <3>2 DEF Unshared
    <2>4. Over(c) => Over(c)'
      BY <1>5 DEF Over
    <2> QED
      BY <2>1, <2>2, <2>3, <2>4 DEF Won
  <1> QED
    BY <1>6, <1>7, <1>9, <1>10, <1>11 DEF EventInv

\* One request that is served becomes n; the slots apart.
LEMMA RequestMoves ==
    ASSUME IInv, NEW r \in Requests, NEW n, n \in Request', req' = [req EXCEPT ![r] = n],
           life' = life, minted' \in Nat, minted <= minted',
           inflight' \in [Instances -> Nat], counters' \in [Instances -> Count],
           queue' \subseteq Requests, queue' \ {r} \subseteq queue,
           n.at.process \in Instances, n.at.life = life[n.at.process],
           n.stage \in {"tenant", "link", "salt", "add", "done"},
           n.stage \in {"salt", "add"} => n.answer = "307",
           r \in queue' => n.stage \in {"add", "done"} /\ n.answer = "307",
           n.stage \in {"tenant", "link", "salt"} => n.event.salt = 0 /\ ~n.event.shared
    PROVE  /\ (ReqType /\ ProcessType /\ Lives /\ Answers)'
           /\ \A p \in Instances :
                 Adds(p)' = (Adds(p) \ {r})
                            \cup (IF n.stage = "add" /\ n.at.process = p THEN {r} ELSE {})
  <1>1. minted \in Nat /\ life \in [Instances -> Nat] /\ req \in [Requests -> Request]
    BY DEF IInv, SaltInv, SaltType, RequestInv, ProcessType, ReqType
  <1>2. \A q \in Requests : req'[q] = IF q = r THEN n ELSE req[q]
    BY <1>1
  <1>3. Request \subseteq Request'
    <2>1. Events \subseteq Events'
      BY <1>1 DEF Events
    <2> QED
      BY <2>1 DEF Request
  <1>4. ReqType'
    BY <1>1, <1>3 DEF ReqType
  <1>5. ProcessType'
    BY <1>1 DEF ProcessType
  <1>6. Lives'
    <2>1. n.at.life \in Nat
      BY <1>1
    <2> QED
      BY <1>1, <1>2, <2>1 DEF IInv, RequestInv, Lives, Live
  <1>7. Answers'
    <2> SUFFICES ASSUME NEW q \in Requests
                 PROVE  /\ req'[q].stage \in {"salt", "add"} => req'[q].answer = "307"
                        /\ q \in queue' => /\ req'[q].stage \in {"add", "done", "lost"}
                                           /\ req'[q].answer = "307"
                        /\ req'[q].stage \in {"idle", "tenant", "link", "salt"} =>
                              req'[q].event.salt = 0 /\ ~req'[q].event.shared
      BY DEF Answers
    <2>1. CASE q = r
      BY <1>2, <2>1
    <2>2. CASE q # r
      BY <1>2, <2>2 DEF IInv, RequestInv, Answers
    <2> QED
      BY <2>1, <2>2
  <1>8. ASSUME NEW p \in Instances
        PROVE  Adds(p)' = (Adds(p) \ {r})
                          \cup (IF n.stage = "add" /\ n.at.process = p THEN {r} ELSE {})
    <2>1. n.at \in Places
      BY DEF Request
    <2>2. n.at = [process |-> p, life |-> life[p]] <=> n.at.process = p
      BY <2>1 DEF Places
    <2>3. ASSUME NEW q \in Requests
          PROVE  q \in Adds(p)' <=> q \in (Adds(p) \ {r})
                          \cup (IF n.stage = "add" /\ n.at.process = p THEN {r} ELSE {})
      BY <1>2, <2>2 DEF Adds
    <2>4. Adds(p) \subseteq Requests /\ Adds(p)' \subseteq Requests
      BY DEF Adds
    <2> QED
      BY <2>3, <2>4
  <1> QED
    BY <1>4, <1>5, <1>6, <1>7, <1>8

\* No slot is taken or given back.
LEMMA SlotsStay ==
    ASSUME IInv, inflight' = inflight, \A p \in Instances : Adds(p)' = Adds(p)
    PROVE  CapIsTight'
  <1>1. \A p \in Instances : inflight[p] = Cardinality(Adds(p)) /\ inflight[p] <= MaxInflight
    BY DEF IInv, RequestInv, CapIsTight, Adds
  <1>2. \A p \in Instances :
           inflight'[p] = Cardinality(Adds(p)') /\ inflight'[p] <= MaxInflight
    BY <1>1
  <1> QED
    BY <1>2 DEF CapIsTight, Adds

\* A request that holds no slot, before and after.
LEMMA NoSlot ==
    ASSUME IInv, NEW r \in Requests, req[r].stage # "add", NEW n, n.stage # "add",
           inflight' = inflight,
           \A p \in Instances :
              Adds(p)' = (Adds(p) \ {r})
                         \cup (IF n.stage = "add" /\ n.at.process = p THEN {r} ELSE {})
    PROVE  CapIsTight'
  <1>1. \A p \in Instances : r \notin Adds(p)
    BY DEF Adds
  <1>2. \A p \in Instances : Adds(p)' = Adds(p)
    BY <1>1
  <1> QED
    BY <1>2, SlotsStay

\* A request arrives: nothing is claimed of it but what the router decided.
LEMMA ArriveStep ==
    ASSUME IInv, NEW r \in Requests, NEW p \in Instances, Arrive(r, p)
    PROVE  IInv'
  <1>1. PICK n :
           /\ req' = [req EXCEPT ![r] = n]
           /\ n \in Request
           /\ n.at = [process |-> p, life |-> life[p]]
           /\ n.stage \in {"tenant", "done"}
           /\ n.event = Unmade.event
    <2>1. PICK v \in Visits :
             LET kind == ParseRequestTarget(v.host, v.path)
                 made == [Unmade EXCEPT !.at = [process |-> p, life |-> life[p]],
                                        !.names = NamesALink(v.host, v.path)]
             IN  req' = [req EXCEPT ![r] =
                            IF kind = "link"
                            THEN [made EXCEPT !.stage = "tenant", !.lookup = TRUE,
                                              !.visitor = ReadClientIp(v.headers)]
                            ELSE [made EXCEPT !.stage = "done",
                                              !.answer = IF kind = "not-ours" THEN "next"
                                                                              ELSE "404"]]
      BY DEF Arrive
    <2>2. NamesALink(v.host, v.path) \in BOOLEAN
      BY DEF NamesALink
    <2>3. ReadClientIp(v.headers) \in Addresses /\ NoAddress \in Addresses
      BY DEF Addresses
    <2>4. minted \in Nat /\ life[p] \in Nat
      BY DEF IInv, SaltInv, SaltType, RequestInv, ProcessType
    <2> DEFINE names == NamesALink(v.host, v.path)
               from == ReadClientIp(v.headers)
               kind == ParseRequestTarget(v.host, v.path)
               at == [process |-> p, life |-> life[p]]
               answer == IF kind = "not-ours" THEN "next" ELSE "404"
               made == [Unmade EXCEPT !.at = at, !.names = names]
               link == [made EXCEPT !.stage = "tenant", !.lookup = TRUE, !.visitor = from]
               other == [made EXCEPT !.stage = "done", !.answer = answer]
    <2>5. req' = [req EXCEPT ![r] = IF kind = "link" THEN link ELSE other]
      BY <2>1
    <2>6. at \in Places /\ answer \in {"next", "404"}
      BY <2>4 DEF Places
    <2> HIDE DEF names, from, kind, at, answer
    <2>7. made \in Request /\ made.at = at /\ made.event = Unmade.event
      <3>1. Unmade \in Request
        BY <2>3, <2>4, Numbers DEF Unmade, Request, Stages, Places, Events
      <3> QED
        BY <2>2, <2>6, <3>1 DEF Request, names
    <2> HIDE DEF made
    <2>11. link \in Request /\ other \in Request
      BY <2>3, <2>6, <2>7 DEF Request, Stages, from
    <2>8. /\ link.at = at /\ link.stage = "tenant" /\ link.event = Unmade.event
          /\ other.at = at /\ other.stage = "done" /\ other.event = Unmade.event
      BY <2>7 DEF Request
    <2>9. PICK n \in {link, other} : req' = [req EXCEPT ![r] = n]
      BY <2>5
    <2> HIDE DEF link, other
    <2> QED
      BY <2>8, <2>9, <2>11 DEF at
  <1>2. /\ req[r].stage = "idle" /\ req \in [Requests -> Request]
        /\ minted \in Nat /\ life \in [Instances -> Nat] /\ life[p] \in Nat
        /\ inflight \in [Instances -> Nat] /\ queue \subseteq Requests
    BY DEF Arrive, IInv, SaltInv, SaltType, RequestInv, ProcessType, ReqType
  <1>3. UNCHANGED <<life, inflight, queue, saltVars, minted>>
    BY DEF Arrive, saltVars
  <1>4. n.event.salt = 0 /\ ~n.event.shared
    BY <1>1 DEF Unmade
  <1>5. EventsKept
    <2>1. req[r].event.salt = 0 /\ ~req[r].event.shared /\ req[r].event \in Events
      BY <1>2 DEF IInv, RequestInv, Answers, Request
    <2>2. req[r].event = n.event
      BY <1>1, <2>1 DEF Unmade, Events
    <2> QED
      BY <1>1, <1>2, <2>1, <2>2 DEF EventsKept
  <1>6. SaltInv' /\ EventInv'
    BY <1>3, <1>5, EventsKeep
  <1>7. r \notin queue
    BY <1>2 DEF IInv, RequestInv, Answers
  <1>8. counters' \in [Instances -> Count]
    BY DEF Arrive, IInv, RequestInv, ProcessType, Count
  <1>9. n \in Request'
    BY <1>1, <1>3 DEF Request, Events
  <1>10. /\ (ReqType /\ ProcessType /\ Lives /\ Answers)'
         /\ \A q \in Instances :
               Adds(q)' = (Adds(q) \ {r})
                          \cup (IF n.stage = "add" /\ n.at.process = q THEN {r} ELSE {})
    <2>1. n.at.process = p /\ n.at.life = life[p]
      BY <1>1
    <2>2. n.stage \in {"tenant", "link", "salt", "add", "done"} /\ n.stage \notin {"salt", "add"}
      BY <1>1
    <2>3. minted' \in Nat /\ minted <= minted' /\ inflight' \in [Instances -> Nat]
      BY <1>2, <1>3
    <2>4. queue' \subseteq Requests /\ queue' \ {r} \subseteq queue /\ r \notin queue'
      BY <1>2, <1>3, <1>7
    <2> QED
      BY <1>1, <1>3, <1>4, <1>8, <1>9, <2>1, <2>2, <2>3, <2>4, RequestMoves
  <1>11. CapIsTight'
    BY <1>1, <1>2, <1>3, <1>10, NoSlot
  <1> QED
    BY <1>6, <1>10, <1>11 DEF IInv, RequestInv

\* The lookups.
LEMMA LookupStep ==
    ASSUME IInv, NEW r \in Requests,
           ResolveTenant(r) \/ ResolveLinkMisses(r) \/ ResolveLinkHits(r)
    PROVE  IInv'
  <1>1. /\ req[r] \in Request /\ req[r].stage \in {"tenant", "link"}
        /\ req \in [Requests -> Request]
        /\ minted \in Nat /\ life \in [Instances -> Nat]
        /\ inflight \in [Instances -> Nat] /\ queue \subseteq Requests
        /\ today \in [Instances -> Days] /\ counters \in [Instances -> Count]
    BY DEF ResolveTenant, ResolveLinkMisses, ResolveLinkHits,
           IInv, SaltInv, SaltType, RequestInv, ProcessType, ReqType
  <1>2. PICK p \in Instances : p = req[r].at.process /\ req[r].at.life = life[p]
    BY <1>1 DEF IInv, RequestInv, Lives, Live
  <1>3. PICK n :
           /\ req' = [req EXCEPT ![r] = n]
           /\ n \in Request
           /\ n.at = req[r].at /\ n.event = req[r].event
           /\ n.stage \in {"link", "salt", "done"}
           /\ n.stage = "salt" => n.answer = "307"
    <2> DEFINE a == NotFound(req[r])
               b == [req[r] EXCEPT !.stage = "link"]
               c == AwaitingSalt(req[r], TRUE, today[p])
    <2>1. a \in Request /\ b \in Request /\ c \in Request
      BY <1>1 DEF NotFound, AwaitingSalt, Request, Stages, Addresses
    <2>2. /\ a.stage = "done" /\ b.stage = "link" /\ c.stage = "salt" /\ c.answer = "307"
          /\ a.at = req[r].at /\ b.at = req[r].at /\ c.at = req[r].at
          /\ a.event = req[r].event /\ b.event = req[r].event /\ c.event = req[r].event
      BY <1>1 DEF NotFound, AwaitingSalt, Request
    <2>3. \E n \in {a, b, c} : req' = [req EXCEPT ![r] = n]
      <3>1. CASE ResolveTenant(r)
        BY <3>1 DEF ResolveTenant, AfterThrow
      <3>2. CASE ResolveLinkMisses(r)
        BY <3>2 DEF ResolveLinkMisses, AfterThrow
      <3>3. CASE ResolveLinkHits(r)
        BY <1>2, <3>3 DEF ResolveLinkHits, Captures
      <3> QED
        BY <3>1, <3>2, <3>3
    <2> HIDE DEF a, b, c
    <2> QED
      BY <2>1, <2>2, <2>3
  <1>4. req[r].event.salt = 0 /\ ~req[r].event.shared
    BY <1>1 DEF IInv, RequestInv, Answers
  <1>5. EventsKept
    BY <1>1, <1>3, <1>4 DEF EventsKept
  <1>6. UNCHANGED <<life, inflight, queue>>
    BY DEF ResolveTenant, ResolveLinkMisses, ResolveLinkHits
  <1>7. /\ UNCHANGED <<today, stored, forgotten>>
        /\ UNCHANGED saltVars \/ GetDailySalt(p)
    BY <1>2 DEF ResolveTenant, ResolveLinkMisses, ResolveLinkHits, saltVars
  <1>8. SaltInv' /\ EventInv'
    BY <1>5, <1>6, <1>7, EventsKeep, MintStep
  <1>9. minted' \in Nat /\ minted <= minted'
    BY <1>1, <1>7 DEF GetDailySalt, saltVars
  <1>10. counters' \in [Instances -> Count]
    <2>1. counters' = counters \/ counters' = [counters EXCEPT ![p].rejected = @ + 1]
      BY <1>2 DEF ResolveTenant, ResolveLinkMisses, ResolveLinkHits
    <2> QED
      BY <1>1, <2>1 DEF Count
  <1>11. r \notin queue
    BY <1>1 DEF IInv, RequestInv, Answers
  <1>12. n \in Request'
    <2>1. Events \subseteq Events'
      BY <1>1, <1>9 DEF Events
    <2> QED
      BY <1>3, <2>1 DEF Request
  <1>13. /\ (ReqType /\ ProcessType /\ Lives /\ Answers)'
         /\ \A q \in Instances :
               Adds(q)' = (Adds(q) \ {r})
                          \cup (IF n.stage = "add" /\ n.at.process = q THEN {r} ELSE {})
    BY <1>1, <1>2, <1>3, <1>4, <1>6, <1>9, <1>10, <1>11, <1>12, RequestMoves
  <1>14. CapIsTight'
    BY <1>1, <1>3, <1>6, <1>13, NoSlot
  <1> QED
    BY <1>8, <1>13, <1>14 DEF IInv, RequestInv

\* A slot is taken if there is one, or the event is dropped.
LEMMA CaptureStep ==
    ASSUME IInv, NEW r \in Requests, SaltArrives(r)
    PROVE  IInv'
  <1>1. /\ req[r] \in Request /\ req[r].stage = "salt" /\ req[r].answer = "307"
        /\ req \in [Requests -> Request]
        /\ minted \in Nat /\ life \in [Instances -> Nat]
        /\ inflight \in [Instances -> Nat] /\ queue \subseteq Requests
        /\ counters \in [Instances -> Count]
        /\ fetch \in [Instances -> [Days -> Promises]]
    BY DEF SaltArrives, IInv, SaltInv, SaltType, RequestInv, ProcessType, ReqType, Answers
  <1>2. PICK p \in Instances : p = req[r].at.process /\ req[r].at.life = life[p]
    BY <1>1 DEF IInv, RequestInv, Lives, Live
  <1>3. r \notin queue /\ r \notin Adds(p)
    BY <1>1 DEF IInv, RequestInv, Answers, Adds
  <1>4. SaltInv' /\ EventInv'
    BY EventIsBuilt
  <1>5. UNCHANGED <<life, queue, minted>>
    BY DEF SaltArrives, saltVars
  <1>6. PICK e \in Events : EnqueueCapture(r, e)
    <2> DEFINE f == fetch[p][req[r].date]
               g == [salt |-> f.salt, shared |-> f.shared]
    <2>1. EnqueueCapture(r, g)
      BY <1>2 DEF SaltArrives, MemoKey, BuildCapturePayload
    <2>2. f \in Promises
      BY <1>1 DEF Request
    <2>3. g \in Events
      BY <2>2 DEF Promises, Events
    <2> QED
      BY <2>1, <2>3
  <1> DEFINE full == inflight[p] >= MaxInflight
             stage == IF full THEN "done" ELSE "add"
             n == [req[r] EXCEPT !.stage = stage, !.event = e]
  <1>7. /\ req' = [req EXCEPT ![r] = n]
        /\ inflight' = IF full THEN inflight ELSE [inflight EXCEPT ![p] = @ + 1]
        /\ counters' = IF full THEN [counters EXCEPT ![p].dropped = @ + 1] ELSE counters
    BY <1>1, <1>2, <1>6 DEF EnqueueCapture
  <1>8. n \in Request /\ n.stage = stage /\ n.at = req[r].at /\ n.answer = "307"
    BY <1>1 DEF Request, Stages
  <1>9. stage \in {"add", "done"}
    OBVIOUS
  <1> HIDE DEF n
  <1>10. n \in Request'
    BY <1>5, <1>8 DEF Request, Events
  <1>11. counters' \in [Instances -> Count] /\ inflight' \in [Instances -> Nat]
    BY <1>1, <1>7 DEF Count
  <1>12. /\ (ReqType /\ ProcessType /\ Lives /\ Answers)'
         /\ \A q \in Instances :
               Adds(q)' = (Adds(q) \ {r})
                          \cup (IF n.stage = "add" /\ n.at.process = q THEN {r} ELSE {})
    <2>1. n.at.process = p /\ n.at.life = life[p]
      BY <1>2, <1>8
    <2>2. minted' \in Nat /\ minted <= minted'
      BY <1>1, <1>5
    <2>3. queue' \subseteq Requests /\ queue' \ {r} \subseteq queue /\ r \notin queue'
      BY <1>1, <1>3, <1>5
    <2>4. n.stage \in {"tenant", "link", "salt", "add", "done"}
          /\ n.stage \notin {"tenant", "link", "salt"}
      BY <1>8, <1>9
    <2> HIDE DEF stage
    <2> QED
      BY <1>5, <1>7, <1>8, <1>10, <1>11, <2>1, <2>2, <2>3, <2>4, RequestMoves
  <1>13. CapIsTight'
    <2>1. CASE full
      <3>1. n.stage # "add" /\ inflight' = inflight
        BY <1>7, <1>8, <2>1
      <3> QED
        BY <1>1, <1>12, <3>1, NoSlot
    <2>2. CASE ~full
      <3> SUFFICES ASSUME NEW q \in Instances
                   PROVE  inflight'[q] = Cardinality(Adds(q)') /\ inflight'[q] <= MaxInflight
        BY DEF CapIsTight, Adds
      <3>1. inflight[q] = Cardinality(Adds(q)) /\ inflight[q] <= MaxInflight
        BY DEF IInv, RequestInv, CapIsTight, Adds
      <3>2. n.stage = "add" /\ n.at.process = p
        BY <1>2, <1>8, <2>2
      <3>3. CASE q = p
        <4>1. Adds(q)' = Adds(q) \cup {r}
          BY <1>3, <1>12, <3>2, <3>3
        <4>2. Cardinality(Adds(q)') = Cardinality(Adds(q)) + 1
          BY <1>3, <3>3, <4>1, AddsAreFinite, FS_AddElement
        <4>3. inflight'[q] = inflight[q] + 1 /\ inflight[q] < MaxInflight
          BY <1>1, <1>7, <2>2, <3>3, Numbers
        <4> QED
          BY <1>1, <3>1, <4>2, <4>3, Numbers
      <3>4. CASE q # p
        <4>1. r \notin Adds(q)
          BY <1>1 DEF Adds
        <4>2. Adds(q)' = Adds(q)
          BY <1>12, <3>2, <3>4, <4>1
        <4> QED
          BY <1>1, <1>7, <3>1, <3>4, <4>2
      <3> QED
        BY <3>3, <3>4
    <2> QED
      BY <2>1, <2>2
  <1> QED
    BY <1>4, <1>12, <1>13 DEF IInv, RequestInv

\* A queue.add takes effect: the event was made by a request that holds its slot.
LEMMA AddReachesStep ==
    ASSUME IInv, NEW r \in Requests, AddReaches(r)
    PROVE  IInv'
  <1>1. /\ UNCHANGED <<req, life, inflight, counters, saltVars, minted>>
        /\ queue' = queue \cup {r} /\ req[r].stage = "add"
    BY DEF AddReaches, saltVars
  <1>2. EventsKept
    BY <1>1 DEF EventsKept
  <1>3. SaltInv' /\ EventInv'
    BY <1>1, <1>2, EventsKeep
  <1>4. ReqType' /\ ProcessType' /\ Lives' /\ Answers'
    BY <1>1 DEF IInv, RequestInv, ReqType, Request, Events, ProcessType, Lives, Answers
  <1>5. CapIsTight'
    <2>1. \A p \in Instances : Adds(p)' = Adds(p)
      BY <1>1 DEF Adds
    <2> QED
      BY <1>1, <2>1, SlotsStay
  <1> QED
    BY <1>3, <1>4, <1>5 DEF IInv, RequestInv

\* An add settles, and its slot is given back.
LEMMA AddSettlesStep ==
    ASSUME IInv, NEW r \in Requests, AddSettles(r)
    PROVE  IInv'
  <1>1. /\ req[r] \in Request /\ req[r].stage = "add" /\ req[r].answer = "307"
        /\ req \in [Requests -> Request]
        /\ minted \in Nat /\ life \in [Instances -> Nat]
        /\ inflight \in [Instances -> Nat] /\ queue \subseteq Requests
        /\ counters \in [Instances -> Count]
    BY DEF AddSettles, IInv, SaltInv, SaltType, RequestInv, ProcessType, ReqType, Answers
  <1>2. PICK p \in Instances : p = req[r].at.process /\ req[r].at.life = life[p]
    BY <1>1 DEF IInv, RequestInv, Lives, Live
  <1> DEFINE n == [req[r] EXCEPT !.stage = "done"]
  <1>3. /\ req' = [req EXCEPT ![r] = n]
        /\ inflight' = [inflight EXCEPT ![p] = @ - 1]
        /\ UNCHANGED <<life, counters, queue, saltVars, minted>>
    BY <1>2 DEF AddSettles, Released, saltVars
  <1>4. /\ n \in Request /\ n.stage = "done" /\ n.at = req[r].at /\ n.answer = "307"
        /\ n.event = req[r].event /\ n.date = req[r].date
    BY <1>1 DEF Request, Stages
  <1> HIDE DEF n
  <1>5. EventsKept
    BY <1>1, <1>3, <1>4 DEF EventsKept
  <1>6. SaltInv' /\ EventInv'
    BY <1>3, <1>5, EventsKeep
  <1>7. r \in Adds(p) /\ \A q \in Instances \ {p} : r \notin Adds(q)
    <2>1. req[r].at \in Places
      BY <1>1 DEF Request
    <2>2. req[r].at = [process |-> p, life |-> life[p]]
      BY <1>2, <2>1 DEF Places
    <2>3. \A q \in Instances \ {p} : req[r].at # [process |-> q, life |-> life[q]]
      BY <1>2
    <2> QED
      BY <1>1, <2>2, <2>3 DEF Adds
  <1>8. \A q \in Instances : inflight[q] = Cardinality(Adds(q)) /\ inflight[q] <= MaxInflight
    BY DEF IInv, RequestInv, CapIsTight, Adds
  <1>9. /\ Cardinality(Adds(p) \ {r}) = Cardinality(Adds(p)) - 1
        /\ Cardinality(Adds(p) \ {r}) \in Nat
    BY <1>7, AddsAreFinite, FS_RemoveElement, FS_CardinalityType
  <1>10. inflight' \in [Instances -> Nat]
    <2>1. inflight[p] - 1 \in Nat
      BY <1>8, <1>9
    <2> QED
      BY <1>1, <1>3, <2>1
  <1>11. n \in Request'
    BY <1>3, <1>4 DEF Request, Events
  <1>12. /\ (ReqType /\ ProcessType /\ Lives /\ Answers)'
         /\ \A q \in Instances :
               Adds(q)' = (Adds(q) \ {r})
                          \cup (IF n.stage = "add" /\ n.at.process = q THEN {r} ELSE {})
    <2>1. n.at.process = p /\ n.at.life = life[p]
      BY <1>2, <1>4
    <2>2. minted' \in Nat /\ minted <= minted' /\ counters' \in [Instances -> Count]
      BY <1>1, <1>3
    <2>3. queue' \subseteq Requests /\ queue' \ {r} \subseteq queue
      BY <1>1, <1>3
    <2> QED
      BY <1>3, <1>4, <1>10, <1>11, <2>1, <2>2, <2>3, RequestMoves
  <1>13. CapIsTight'
    <2> SUFFICES ASSUME NEW q \in Instances
                 PROVE  inflight'[q] = Cardinality(Adds(q)') /\ inflight'[q] <= MaxInflight
      BY DEF CapIsTight, Adds
    <2>1. Adds(q)' = Adds(q) \ {r}
      BY <1>4, <1>12
    <2>2. CASE q = p
      <3>1. inflight'[q] = inflight[q] - 1
        BY <1>1, <1>3, <2>2
      <3> QED
        BY <1>1, <1>8, <1>9, <2>1, <2>2, <3>1, Numbers
    <2>3. CASE q # p
      <3>1. inflight'[q] = inflight[q] /\ Adds(q)' = Adds(q)
        BY <1>1, <1>3, <1>7, <2>1, <2>3
      <3> QED
        BY <1>8, <3>1
    <2> QED
      BY <2>2, <2>3
  <1> QED
    BY <1>6, <1>12, <1>13 DEF IInv, RequestInv

\* A process dies: what it had under way is lost, and its slots with it.
LEMMA CrashStep ==
    ASSUME IInv, NEW p \in Instances, Crash(p)
    PROVE  IInv'
  <1>1. /\ req \in [Requests -> Request] /\ life \in [Instances -> Nat]
        /\ inflight \in [Instances -> Nat] /\ queue \subseteq Requests
        /\ counters \in [Instances -> Count]
    BY DEF IInv, RequestInv, ProcessType, ReqType
  <1>2. /\ life' = [life EXCEPT ![p] = @ + 1]
        /\ inflight' = [inflight EXCEPT ![p] = 0]
        /\ counters' = [counters EXCEPT ![p] = NoCount]
        /\ SaltRestart(p)
        /\ UNCHANGED <<queue, minted>>
    BY DEF Crash, SaltRestart
  <1>3. \A r \in Requests :
           /\ req'[r] \in Request
           /\ req'[r].event = req[r].event /\ req'[r].at = req[r].at
           /\ req'[r].date = req[r].date /\ req'[r].answer = req[r].answer
           /\ req'[r].stage \in {req[r].stage, "lost"}
           /\ req[r].at.process = p => req'[r].stage \in {"done", "lost"}
           /\ req[r].at.process # p => req'[r].stage = req[r].stage
    <2> SUFFICES ASSUME NEW r \in Requests
                 PROVE  /\ req'[r] \in Request
                        /\ req'[r].event = req[r].event /\ req'[r].at = req[r].at
                        /\ req'[r].date = req[r].date /\ req'[r].answer = req[r].answer
                        /\ req'[r].stage \in {req[r].stage, "lost"}
                        /\ req[r].at.process = p => req'[r].stage \in {"done", "lost"}
                        /\ req[r].at.process # p => req'[r].stage = req[r].stage
      OBVIOUS
    <2> DEFINE n == [req[r] EXCEPT !.stage = "lost"]
    <2>1. req'[r] = IF req[r].at.process = p /\ req[r].stage # "done" THEN n ELSE req[r]
      BY DEF Crash
    <2>2. req[r] \in Request
      BY <1>1
    <2>3. /\ n \in Request /\ n.stage = "lost" /\ n.event = req[r].event
          /\ n.at = req[r].at /\ n.date = req[r].date /\ n.answer = req[r].answer
      BY <2>2 DEF Request, Stages
    <2> HIDE DEF n
    <2> QED
      BY <2>1, <2>2, <2>3
  <1>4. EventsKept
    BY <1>3 DEF EventsKept
  <1>5. SaltInv' /\ EventInv'
    BY <1>2, <1>4, SaltCrash
  <1>6. ReqType'
    <2>1. req' = [r \in Requests |-> req'[r]]
      BY DEF Crash
    <2> QED
      BY <1>2, <1>3, <2>1 DEF ReqType, Request, Events
  <1>7. ProcessType'
    BY <1>1, <1>2 DEF ProcessType, NoCount, Count
  <1>8. Lives'
    <2> SUFFICES ASSUME NEW r \in Requests
                 PROVE  /\ req'[r].stage # "idle" =>
                              /\ req[r].at.process \in Instances
                              /\ req[r].at.life <= life'[req[r].at.process]
                        /\ req'[r].stage \in Live => req[r].at.life = life'[req[r].at.process]
                        /\ req'[r].stage = "idle" => req[r].at.life = 0
      BY <1>3 DEF Lives
    <2>1. /\ req[r].stage # "idle" => /\ req[r].at.process \in Instances
                                      /\ req[r].at.life <= life[req[r].at.process]
          /\ req[r].stage \in Live => req[r].at.life = life[req[r].at.process]
          /\ req[r].stage = "idle" => req[r].at.life = 0
      BY DEF IInv, RequestInv, Lives
    <2>2. req[r].at.life \in Nat
      BY <1>1 DEF Request, Places
    <2>3. CASE req[r].at.process = p
      <3>1. req'[r].stage \notin Live /\ req'[r].stage # "idle"
        BY <1>3, <2>3 DEF Live
      <3>2. req[r].at.life <= life[p]
        BY <1>1, <2>1, <2>2, <2>3
      <3> QED
        BY <1>1, <1>2, <2>2, <2>3, <3>1, <3>2
    <2>4. CASE req[r].at.process # p
      <3>1. req'[r].stage = req[r].stage
        BY <1>3, <2>4
      <3> QED
        BY <1>1, <1>2, <2>1, <2>4, <3>1
    <2> QED
      BY <2>3, <2>4
  <1>9. Answers'
    BY <1>2, <1>3 DEF IInv, RequestInv, Answers
  <1>10. CapIsTight'
    <2> SUFFICES ASSUME NEW q \in Instances
                 PROVE  inflight'[q] = Cardinality(Adds(q)') /\ inflight'[q] <= MaxInflight
      BY DEF CapIsTight, Adds
    <2>1. CASE q = p
      <3>1. Adds(q)' = {}
        <4>1. ASSUME NEW r \in Requests, req[r].at.process = q PROVE req'[r].stage # "add"
          BY <1>3, <2>1, <4>1
        <4> QED
          BY <1>3, <4>1 DEF Adds
      <3>2. inflight'[q] = 0
        BY <1>1, <1>2, <2>1
      <3> QED
        BY <3>1, <3>2, FS_EmptySet, Numbers
    <2>2. CASE q # p
      <3>1. life'[q] = life[q] /\ inflight'[q] = inflight[q]
        BY <1>1, <1>2, <2>2
      <3>2. \A r \in Requests : req[r].at.process = q => req'[r].stage = req[r].stage
        BY <1>3, <2>2
      <3>3. Adds(q)' = Adds(q)
        BY <1>3, <3>1, <3>2 DEF Adds
      <3> QED
        BY <3>1, <3>3 DEF IInv, RequestInv, CapIsTight, Adds
    <2> QED
      BY <2>1, <2>2
  <1> QED
    BY <1>5, <1>6, <1>7, <1>8, <1>9, <1>10 DEF IInv, RequestInv

\* A step of the salts alone.
LEMMA SaltSteps ==
    ASSUME IInv, SaltStep, UNCHANGED <<req, life, inflight, counters, queue>>
    PROVE  IInv'
  <1>1. SaltInv' /\ EventInv'
    BY MidnightStep, SetSaltStep, SettleStep, ForgetStep DEF SaltStep
  <1>2. minted' = minted
    BY DEF SaltStep, Midnight, SetSalt, GetSalt, FallBack, Expire, RedisForgets
  <1>3. RequestInv'
    BY <1>2 DEF IInv, RequestInv, ReqType, Request, Events, ProcessType, Lives, Answers,
                CapIsTight
  <1> QED
    BY <1>1, <1>3 DEF IInv

\* Every step preserves the invariant.
LEMMA Inductive == IInv /\ [Next]_vars => IInv'
  <1> SUFFICES ASSUME IInv, [Next]_vars PROVE IInv'
    OBVIOUS
  <1>1. CASE UNCHANGED vars
    <2>1. UNCHANGED <<req, life, inflight, counters, queue, saltVars, minted>>
      BY <1>1 DEF vars, saltVars
    <2>2. EventsKept
      BY <2>1 DEF EventsKept
    <2>3. SaltInv' /\ EventInv'
      BY <2>1, <2>2, EventsKeep
    <2>4. RequestInv'
      BY <2>1 DEF IInv, RequestInv, ReqType, Request, Events, ProcessType, Lives, Answers,
                  CapIsTight
    <2> QED
      BY <2>3, <2>4 DEF IInv
  <1>2. ASSUME NEW r \in Requests, NEW p \in Instances, Arrive(r, p) PROVE IInv'
    BY <1>2, ArriveStep
  <1>3. ASSUME NEW r \in Requests,
               ResolveTenant(r) \/ ResolveLinkMisses(r) \/ ResolveLinkHits(r)
        PROVE  IInv'
    BY <1>3, LookupStep
  <1>4. ASSUME NEW r \in Requests, SaltArrives(r) PROVE IInv'
    BY <1>4, CaptureStep
  <1>5. ASSUME NEW r \in Requests, AddReaches(r) PROVE IInv'
    BY <1>5, AddReachesStep
  <1>6. ASSUME NEW r \in Requests, AddSettles(r) PROVE IInv'
    BY <1>6, AddSettlesStep
  <1>7. ASSUME NEW p \in Instances, Crash(p) PROVE IInv'
    BY <1>7, CrashStep
  <1>8. CASE SaltStep /\ UNCHANGED <<req, life, inflight, counters, queue>>
    BY <1>8, SaltSteps
  <1> QED
    BY <1>1, <1>2, <1>3, <1>4, <1>5, <1>6, <1>7, <1>8 DEF Next

-----------------------------------------------------------------------------
\* The inductive invariant holds in every state: of the requests, that a served one is
\* served by a living process and captured after its redirect; of the salts, that a
\* process fetches a date once and holds what it used; of the events, that a salt belongs
\* to one date and that Redis shares one.
THEOREM Invariance == Spec => []IInv
  BY InitIInv, Inductive, PTL DEF Spec

\* Every variable has its type, no memo of salts outgrows its bound, and no process waits
\* for more adds than there are requests.
THEOREM TypeCorrect == Spec => []TypeOK
  <1>1. IInv => TypeOK
    <2> SUFFICES ASSUME IInv PROVE TypeOK
      OBVIOUS
    <2>1. SaltTypeOK
      BY DEF IInv, SaltInv, SaltType, SaltTypeOK, Promises
    <2>2. ASSUME NEW r \in Requests
          PROVE  /\ req[r].stage \in Stages
                 /\ req[r].stage # "idle" => req[r].at \in [process : Instances, life : Nat]
                 /\ req[r].names \in BOOLEAN
                 /\ req[r].lookup \in BOOLEAN
                 /\ req[r].answer \in {"none", "next", "404", "307"}
                 /\ req[r].date \in Days
                 /\ req[r].event \in Events
      <3>1. req[r] \in Request
        BY DEF IInv, RequestInv, ReqType
      <3>2. req[r].stage # "idle" => req[r].at.process \in Instances
        BY DEF IInv, RequestInv, Lives
      <3> QED
        BY <3>1, <3>2 DEF Request, Places
    <2>3. inflight \in [Instances -> 0 .. Cardinality(Requests)]
      <3>1. inflight \in [Instances -> Nat] /\ Cardinality(Requests) \in Nat
        BY Numbers, FS_CardinalityType DEF IInv, RequestInv, ProcessType
      <3>2. ASSUME NEW p \in Instances PROVE inflight[p] \in 0 .. Cardinality(Requests)
        <4>1. inflight[p] = Cardinality(Adds(p))
          BY DEF IInv, RequestInv, CapIsTight, Adds
        <4> QED
          BY <3>1, <4>1, AddsAreFinite
      <3> QED
        BY <3>1, <3>2
    <2> QED
      BY <2>1, <2>2, <2>3 DEF TypeOK, Stages, Events, IInv, RequestInv, ProcessType, Count
  <1> QED
    BY <1>1, Invariance, PTL

\* Nothing is captured whose visitor was not redirected, whatever process died between the
\* redirect, the salt and the add.
THEOREM RedirectedFirst == Spec => []CapturedWasRedirected
  <1>1. IInv => CapturedWasRedirected
    BY DEF IInv, RequestInv, Answers, ProcessType, CapturedWasRedirected
  <1> QED
    BY <1>1, Invariance, PTL

\* The count of adds in flight is exact and under its cap, through failures of Redis and
\* restarts: no slot leaks.
THEOREM CapHolds == Spec => []CapIsTight
  <1>1. IInv => CapIsTight
    BY DEF IInv, RequestInv
  <1> QED
    BY <1>1, Invariance, PTL

\* Two visits of one visitor on one date have one hash: on one process always, on two when
\* Redis answered both and kept the salt.
THEOREM OneHashADay == Spec => []UniquesCountOnce
  <1>1. IInv => UniquesCountOnce
    <2> SUFFICES ASSUME IInv, NEW r \in Requests, NEW q \in Requests,
                        Hashed(r), Hashed(q),
                        req[r].visitor = req[q].visitor, req[r].date = req[q].date,
                        \/ req[r].at = req[q].at
                        \/ req[r].event.shared /\ req[q].event.shared
                           /\ req[r].date \notin forgotten
                 PROVE  VisitorHash(r) = VisitorHash(q)
      BY DEF UniquesCountOnce
    <2>1. CASE req[r].at = req[q].at
      BY <2>1 DEF IInv, EventInv, SaltOfOneLife, Hashed, VisitorHash
    <2>2. CASE req[r].event.shared /\ req[q].event.shared /\ req[r].date \notin forgotten
      <3>1. PICK won \in [Days -> Nat] : Won(won)
        BY DEF IInv, EventInv, SaltIsShared
      <3>2. req[r].date \in Days
        BY DEF IInv, RequestInv, ReqType, Request
      <3>3. req[r].event.salt = won[req[r].date] /\ req[q].event.salt = won[req[r].date]
        BY <2>2, <3>1, <3>2 DEF Won
      <3> QED
        BY <3>3 DEF VisitorHash
    <2> QED
      BY <2>1, <2>2
  <1> QED
    BY <1>1, Invariance, PTL

\* No hash is shared by the visits of two dates, on any processes, after any crashes and
\* whatever Redis lost.
THEOREM NoLink == Spec => []NoLinkAcrossDays
  <1>1. IInv => NoLinkAcrossDays
    <2> SUFFICES ASSUME IInv, NEW r \in Requests, NEW q \in Requests,
                        Hashed(r), Hashed(q), VisitorHash(r) = VisitorHash(q)
                 PROVE  req[r].date = req[q].date
      BY DEF NoLinkAcrossDays
    <2>1. PICK date \in [1 .. minted -> Days] : DrawnFor(date)
      BY DEF IInv, EventInv, SaltOfOneDate
    <2>2. req[r].event.salt = req[q].event.salt /\ req[r].event.salt # 0
          /\ req[q].event.salt # 0
      BY DEF VisitorHash, Hashed
    <2> QED
      BY <2>1, <2>2 DEF DrawnFor
  <1> QED
    BY <1>1, Invariance, PTL

-----------------------------------------------------------------------------
\* The router decides once, when the request arrives: nothing that happens to it later
\* turns the one record without the other.
Decided == \A r \in Requests : req[r].names <=> req[r].lookup

\* On arrival the two agree, by LinkIffNamed.
LEMMA DecidedOnArrival ==
    ASSUME IInv, Decided, NEW r \in Requests, NEW p \in Instances, Arrive(r, p)
    PROVE  Decided'
  <1>1. PICK v \in Visits :
           LET kind == ParseRequestTarget(v.host, v.path)
               made == [Unmade EXCEPT !.at = [process |-> p, life |-> life[p]],
                                      !.names = NamesALink(v.host, v.path)]
           IN  req' = [req EXCEPT ![r] =
                          IF kind = "link"
                          THEN [made EXCEPT !.stage = "tenant", !.lookup = TRUE,
                                            !.visitor = ReadClientIp(v.headers)]
                          ELSE [made EXCEPT !.stage = "done",
                                            !.answer = IF kind = "not-ours" THEN "next"
                                                                            ELSE "404"]]
    BY DEF Arrive
  <1> DEFINE kind == ParseRequestTarget(v.host, v.path)
             names == NamesALink(v.host, v.path)
  <1>2. kind = "link" <=> names
    BY VisitsAssumption, LinkIffNamed
  <1> HIDE DEF kind, names
  <1> DEFINE at == [process |-> p, life |-> life[p]]
             made == [Unmade EXCEPT !.at = at, !.names = names]
             link == [made EXCEPT !.stage = "tenant", !.lookup = TRUE,
                                  !.visitor = ReadClientIp(v.headers)]
             other == [made EXCEPT !.stage = "done",
                                   !.answer = IF kind = "not-ours" THEN "next" ELSE "404"]
             n == IF kind = "link" THEN link ELSE other
  <1>3. req' = [req EXCEPT ![r] = n]
    BY <1>1 DEF kind, names
  <1>4. (made.names <=> names) /\ ~made.lookup
    BY DEF Unmade
  <1>5. /\ link.names = made.names /\ link.lookup
        /\ other.names = made.names /\ other.lookup = made.lookup
    BY DEF Unmade
  <1> HIDE DEF made, link, other
  <1>6. n.names <=> n.lookup
    BY <1>2, <1>4, <1>5
  <1> HIDE DEF n
  <1>7. ASSUME NEW s \in Requests PROVE req'[s].names <=> req'[s].lookup
    <2>1. req \in [Requests -> Request]
      BY DEF IInv, RequestInv, ReqType
    <2> QED
      BY <1>3, <1>6, <2>1 DEF Decided
  <1> QED
    BY <1>7 DEF Decided

\* Every other step leaves both records of every request alone.
LEMMA DecidedForGood ==
    ASSUME IInv, Decided, [Next]_vars,
           ~\E r \in Requests, p \in Instances : Arrive(r, p)
    PROVE  Decided'
  <1> DEFINE Kept(s) == req'[s].names = req[s].names /\ req'[s].lookup = req[s].lookup
  <1>1. req \in [Requests -> Request]
    BY DEF IInv, RequestInv, ReqType
  <1>2. ASSUME NEW r \in Requests, NEW n, req' = [req EXCEPT ![r] = n],
               n.names = req[r].names, n.lookup = req[r].lookup
        PROVE  \A s \in Requests : Kept(s)
    BY <1>1, <1>2
  <1>3. ASSUME req' = req PROVE \A s \in Requests : Kept(s)
    BY <1>3
  <1>4. ASSUME NEW r \in Requests,
               ResolveTenant(r) \/ ResolveLinkMisses(r) \/ ResolveLinkHits(r)
        PROVE  \A s \in Requests : Kept(s)
    <2>1. PICK n \in {[req[r] EXCEPT !.stage = "link"], NotFound(req[r]),
                      AwaitingSalt(req[r], TRUE, today[req[r].at.process]),
                      AwaitingSalt(req[r], FALSE, today[req[r].at.process])} :
             req' = [req EXCEPT ![r] = n]
      <3>1. CASE ResolveTenant(r)
        BY <3>1 DEF ResolveTenant, AfterThrow
      <3>2. CASE ResolveLinkMisses(r)
        BY <3>2 DEF ResolveLinkMisses, AfterThrow
      <3>3. CASE ResolveLinkHits(r)
        <4>1. PICK destination \in Destinations :
                 LET refused == destination = "rejected"
                     sent == ~refused /\ SendLinkRedirect(destination)
                 IN  req' = [req EXCEPT ![r] =
                                IF ~refused /\ Captures(sent)
                                THEN AwaitingSalt(req[r], sent, today[req[r].at.process])
                                ELSE NotFound(req[r])]
          BY <1>1, <3>3 DEF ResolveLinkHits
        <4> QED
          BY <4>1 DEF Captures, SendLinkRedirect
      <3> QED
        BY <1>4, <3>1, <3>2, <3>3
    <2>2. req[r] \in Request
      BY <1>1
    <2>3. n.names = req[r].names /\ n.lookup = req[r].lookup
      BY <2>1, <2>2 DEF NotFound, AwaitingSalt, Request
    <2> QED
      BY <1>2, <2>1, <2>3
  <1>5. ASSUME NEW r \in Requests, SaltArrives(r) PROVE \A s \in Requests : Kept(s)
    BY <1>1, <1>5 DEF SaltArrives, EnqueueCapture, Request
  <1>6. ASSUME NEW r \in Requests, AddReaches(r) PROVE \A s \in Requests : Kept(s)
    BY <1>3, <1>6 DEF AddReaches
  <1>7. ASSUME NEW r \in Requests, AddSettles(r) PROVE \A s \in Requests : Kept(s)
    BY <1>1, <1>7 DEF AddSettles, Request
  <1>8. ASSUME NEW p \in Instances, Crash(p) PROVE \A s \in Requests : Kept(s)
    BY <1>1, <1>8 DEF Crash, Request
  <1>9. ASSUME \/ UNCHANGED vars
               \/ SaltStep /\ UNCHANGED <<req, life, inflight, counters, queue>>
        PROVE  \A s \in Requests : Kept(s)
    BY <1>3, <1>9 DEF vars
  <1> HIDE DEF Kept
  <1>10. \A s \in Requests : Kept(s)
    BY <1>4, <1>5, <1>6, <1>7, <1>8, <1>9 DEF Next
  <1> QED
    BY <1>10 DEF Decided, Kept

\* A request costs a lookup exactly if it names a link that some tenant may own, whatever
\* its host, its port, its escapes and its slashes, on any process and through any crash:
\* what can be created can be reached, and nothing else costs Redis or Postgres a query.
THEOREM LookupDeserved == Spec => []LookupIsDeserved
  <1>1. Init => Decided
    BY DEF Init, Decided, Unmade
  <1>2. IInv /\ Decided /\ [Next]_vars => Decided'
    BY DecidedOnArrival, DecidedForGood
  <1>3. Decided => LookupIsDeserved
    BY DEF Decided, LookupIsDeserved
  <1> QED
    BY <1>1, <1>2, <1>3, Invariance, PTL DEF Spec
=============================================================================

----------------------- MODULE SupervisorQueueProofs -----------------------
(***************************************************************************)
(* What TLAPS proves of SupervisorQueue, for any number of jobs, workers,  *)
(* retries, faults and places in the channel: no serving supervisor loses  *)
(* a job, the attempts of a job do not overlap, and a review is published  *)
(* twice at once only after a retry.  An item enters the channel once, and *)
(* of the attempts of a job all but the last have been handed on.          *)
(***************************************************************************)
EXTENDS SupervisorQueue, TLAPS

Queued == Range(channel)

\* A job that does not exist yet has left no trace.
NewJobsAreFresh ==
    \A j \in Jobs : origin[j] = "none" =>
        /\ target[j] = NoReview
        /\ \A a \in Attempts : task[<<j, a>>] = "none" /\ <<j, a>> \notin Queued

\* An item is in the channel once, and before its task begins.
Distinct(q) == \A i, k \in DOMAIN q : q[i] = q[k] => i = k
ItemsAreNew == Distinct(channel) /\ \A t \in Queued : task[t] = "none"

\* Of two attempts of a job, the earlier one has handed on to the later.
HandsOn == {"resending", "retried"}
AttemptsFollow ==
    server # "exited" =>
        \A t, u \in Items :
            t[1] = u[1] /\ t[2] < u[2] /\ (u \in Queued \/ task[u] # "none") => task[t] \in HandsOn
RetriesRemain == \A t \in Items : task[t] \in {"backoff", "resending"} => t[2] + 1 < MaxRetries

ExitIsTheEnd == server = "exited" => channel = <<>> /\ \A t \in Items : task[t] \notin Alive

\* A job that was sent has an attempt that has not been handed on, and when
\* that one is over the row says so.
AttemptRemains ==
    server = "serving" => \A j \in Jobs : origin[j] # "none" =>
        \E a \in Attempts : <<j, a>> \in Queued \/ task[<<j, a>>] \notin HandsOn \cup {"none"}
OverIsSettled ==
    server = "serving" => \A t \in Items :
        task[t] = "over" => row[t[1]] \notin {"queued", "running"}

\* A publish job that is under way keeps its review in flight, until a retry.
PublishesAreInflight ==
    \A j \in Jobs : target[j] # NoReview /\ UnderWay(j) =>
        target[j] \in inflight \/ \E k \in Jobs : target[k] = target[j] /\ EndedBy(k, {"retried"})

\* The inductive invariant.
IInv ==
    /\ TypeOK
    /\ NewJobsAreFresh
    /\ ItemsAreNew
    /\ AttemptsFollow
    /\ RetriesRemain
    /\ ExitIsTheEnd
    /\ AttemptRemains
    /\ OverIsSettled
    /\ PublishesAreInflight
    /\ SecondPublishFollowsRetry

-----------------------------------------------------------------------------

LEMMA AppendFacts ==
    ASSUME NEW S, NEW q \in Seq(S), NEW e \in S
    PROVE  /\ Append(q, e) \in Seq(S)
           /\ Range(Append(q, e)) = Range(q) \cup {e}
           /\ Distinct(q) /\ e \notin Range(q) => Distinct(Append(q, e))
<1> DEFINE r == Append(q, e)
<1>1. /\ r \in Seq(S) /\ DOMAIN q = 1..Len(q) /\ DOMAIN r = 1..Len(q) + 1 /\ Len(q) \in Nat
      /\ \A i \in 1..Len(q) : r[i] = q[i]
      /\ r[Len(q) + 1] = e
    OBVIOUS
<1>2. Range(r) = Range(q) \cup {e}
    <2>1. Range(r) \subseteq Range(q) \cup {e}
        <3> SUFFICES ASSUME NEW i \in DOMAIN r PROVE r[i] \in Range(q) \cup {e}
            BY DEF Range
        <3> QED BY <1>1 DEF Range
    <2>2. Range(q) \subseteq Range(r)
        <3> SUFFICES ASSUME NEW i \in DOMAIN q PROVE q[i] \in Range(r)
            BY DEF Range
        <3>1. i \in DOMAIN r /\ r[i] = q[i]
            BY <1>1
        <3> QED BY <3>1 DEF Range
    <2>3. e \in Range(r)
        <3>1. Len(q) + 1 \in DOMAIN r /\ r[Len(q) + 1] = e
            BY <1>1
        <3> QED BY <3>1 DEF Range
    <2> QED BY <2>1, <2>2, <2>3
<1>3. ASSUME Distinct(q), e \notin Range(q) PROVE Distinct(r)
    <2> SUFFICES ASSUME NEW i \in DOMAIN r, NEW k \in DOMAIN r, r[i] = r[k] PROVE i = k
        BY DEF Distinct
    <2>1. \A m \in DOMAIN q : q[m] # e
        BY <1>3 DEF Range
    <2> QED BY <1>1, <1>3, <2>1 DEF Distinct
<1> QED BY <1>1, <1>2, <1>3

LEMMA TailFacts ==
    ASSUME NEW S, NEW q \in Seq(S), q # <<>>, Distinct(q)
    PROVE  /\ Tail(q) \in Seq(S) /\ Head(q) \in Range(q) /\ Head(q) \in S
           /\ Range(Tail(q)) = Range(q) \ {Head(q)}
           /\ Distinct(Tail(q))
<1> DEFINE r == Tail(q)
<1>1. /\ r \in Seq(S) /\ DOMAIN q = 1..Len(q) /\ DOMAIN r = 1..Len(q) - 1 /\ Len(q) \in Nat \ {0}
      /\ \A i \in 1..Len(q) - 1 : r[i] = q[i + 1]
      /\ Head(q) = q[1]
    OBVIOUS
<1>2. Head(q) \in Range(q) /\ Head(q) \in S
    BY <1>1 DEF Range
<1>3. Range(r) \subseteq Range(q) \ {Head(q)}
    <2> SUFFICES ASSUME NEW i \in DOMAIN r PROVE r[i] \in Range(q) \ {Head(q)}
        BY DEF Range
    <2>1. i + 1 \in DOMAIN q /\ 1 \in DOMAIN q /\ i + 1 # 1 /\ r[i] = q[i + 1]
        BY <1>1
    <2>2. q[i + 1] # q[1]
        BY <2>1 DEF Distinct
    <2> QED BY <1>1, <2>1, <2>2 DEF Range
<1>4. Range(q) \ {Head(q)} \subseteq Range(r)
    <2> SUFFICES ASSUME NEW i \in DOMAIN q, q[i] # Head(q) PROVE q[i] \in Range(r)
        BY DEF Range
    <2>1. i - 1 \in DOMAIN r /\ r[i - 1] = q[i]
        BY <1>1
    <2> QED BY <2>1 DEF Range
<1>5. Distinct(r)
    BY <1>1 DEF Distinct
<1> QED BY <1>1, <1>2, <1>3, <1>4, <1>5

\* What is left when the channel is closed.
LEMMA BufferFacts ==
    ASSUME channel \in Seq(Items), Distinct(channel), CloseQueue
    PROVE  /\ channel' \in Seq(Items) /\ Distinct(channel')
           /\ Range(channel') \subseteq Queued
           /\ \A t \in Waiting : t \notin Range(channel')
<1> DEFINE n == IF Len(channel) < Capacity THEN Len(channel) ELSE Capacity
<1>1. Len(channel) \in Nat /\ n \in Nat /\ n <= Len(channel) /\ n <= Capacity /\ Capacity \in Nat
    BY LimitsAssumption
<1>2. channel' = SubSeq(channel, 1, n)
    BY DEF CloseQueue
<1>3. /\ channel' \in Seq(Items) /\ DOMAIN channel' = 1..n /\ DOMAIN channel = 1..Len(channel)
      /\ \A i \in 1..n : channel'[i] = channel[i]
    BY <1>1, <1>2
<1>4. Distinct(channel')
    BY <1>1, <1>3 DEF Distinct
<1>5. Range(channel') \subseteq Queued
    <2> SUFFICES ASSUME NEW i \in DOMAIN channel' PROVE channel'[i] \in Queued
        BY DEF Range
    <2> QED BY <1>1, <1>3 DEF Range, Queued
<1>6. ASSUME NEW t \in Waiting PROVE t \notin Range(channel')
    <2>1. PICK k \in DOMAIN channel : k > Capacity /\ channel[k] = t
        BY DEF Waiting
    <2>2. ASSUME NEW i \in DOMAIN channel', channel'[i] = t PROVE FALSE
        BY <1>1, <1>3, <2>1, <2>2 DEF Distinct
    <2> QED BY <2>2 DEF Range
<1> QED BY <1>3, <1>4, <1>5, <1>6

LEMMA ItemFacts ==
    /\ \A t \in Items : t[1] \in Jobs /\ t[2] \in Attempts /\ t = <<t[1], t[2]>>
    /\ \A j \in Jobs : \A a \in Attempts : <<j, a>> \in Items /\ <<j, a>>[1] = j /\ <<j, a>>[2] = a
    /\ 0 \in Attempts /\ \A a \in Attempts : a \in Nat
BY LimitsAssumption DEF Items, Attempts

LEMMA RetriedFacts ==
    ASSUME RetriesRemain, NEW t \in Items, task[t] \in {"backoff", "resending"}
    PROVE  Retried(t) \in Items /\ Retried(t)[1] = t[1] /\ Retried(t)[2] = t[2] + 1
<1>1. t[2] + 1 \in Attempts
    BY ItemFacts, LimitsAssumption DEF RetriesRemain, Attempts
<1> QED BY <1>1, ItemFacts DEF Retried

LEMMA QueuedFacts ==
    ASSUME channel \in Seq(Items)
    PROVE  Queued \subseteq Items /\ Waiting \subseteq Queued
BY DEF Queued, Waiting, Range

-----------------------------------------------------------------------------
(* A job is created                                                        *)

LEMMA CreateStep ==
    ASSUME IInv, NEW j \in Jobs, NEW from \in Origins \ {"none"}, NEW r,
           NEW v \in Reviews \cup {NoReview},
           Create(j, from, r), server' = server, server # "exited", TypeOK',
           target' = [target EXCEPT ![j] = v],
           IF v = NoReview THEN inflight' = inflight
           ELSE server = "serving" /\ v \notin inflight /\ inflight' = inflight \cup {v},
           \A u \in Items : task'[u] = task[u] \/ (task[u] = "working" /\ task'[u] \in {"handing", "bounced"})
    PROVE  IInv'
<1>0. /\ <<j, 0>> \in Items /\ channel \in Seq(Items)
      /\ origin[j] = "none" /\ origin' = [origin EXCEPT ![j] = from] /\ row' = [row EXCEPT ![j] = r]
      /\ target[j] = NoReview
      /\ \A t \in Items : t[1] = j => task[t] = "none" /\ task'[t] = "none" /\ t \notin Queued
    BY ItemFacts DEF IInv, TypeOK, Create, NewJobsAreFresh
<1>1. /\ Queued' \subseteq Queued \cup {<<j, 0>>} /\ Queued \subseteq Queued'
      /\ Open => <<j, 0>> \in Queued'
      /\ Distinct(channel')
    <2>1. <<j, 0>> \notin Queued /\ Distinct(channel)
        BY <1>0, ItemFacts DEF IInv, ItemsAreNew
    <2>2. CASE Open
        <3>1. channel' = Append(channel, <<j, 0>>)
            BY <2>2 DEF Create
        <3> QED BY <1>0, <2>1, <3>1, AppendFacts DEF Queued
    <2>3. CASE ~Open
        BY <2>1, <2>3 DEF Create, Queued
    <2> QED BY <2>2, <2>3
<1>2. /\ \A i \in Jobs : i # j => origin'[i] = origin[i] /\ row'[i] = row[i] /\ target'[i] = target[i]
      /\ origin'[j] # "none" /\ target'[j] = v
    BY <1>0 DEF IInv, TypeOK
<1>3. NewJobsAreFresh'
    BY <1>0, <1>1, <1>2, ItemFacts DEF IInv, NewJobsAreFresh
<1>4. ItemsAreNew'
    <2>1. ASSUME NEW u \in Queued' PROVE task'[u] = "none"
        <3>1. CASE u = <<j, 0>>
            BY <1>0, <3>1, ItemFacts
        <3>2. CASE u # <<j, 0>>
            <4>1. u \in Queued /\ u \in Items
                BY <1>0, <1>1, <3>2, QueuedFacts
            <4> QED BY <4>1 DEF IInv, ItemsAreNew
        <3> QED BY <3>1, <3>2
    <2> QED BY <1>1, <2>1 DEF ItemsAreNew
<1>5. AttemptsFollow'
    <2> SUFFICES ASSUME NEW t \in Items, NEW u \in Items, t[1] = u[1], t[2] < u[2],
                        u \in Queued' \/ task'[u] # "none"
                 PROVE  task'[t] \in HandsOn
        BY DEF AttemptsFollow
    <2>1. u # <<j, 0>>
        BY ItemFacts DEF Attempts
    <2>2. u \in Queued \/ task[u] # "none"
        BY <1>1, <2>1
    <2>3. task[t] \in HandsOn
        BY <2>2 DEF IInv, AttemptsFollow
    <2> QED BY <2>3 DEF HandsOn
<1>6. RetriesRemain' /\ ExitIsTheEnd'
    BY DEF IInv, RetriesRemain, ExitIsTheEnd
<1>7. AttemptRemains'
    <2> SUFFICES ASSUME server = "serving", NEW i \in Jobs, origin'[i] # "none"
                 PROVE  \E a \in Attempts : <<i, a>> \in Queued' \/ task'[<<i, a>>] \notin HandsOn \cup {"none"}
        BY DEF AttemptRemains
    <2>1. CASE i = j
        BY <1>1, <2>1, ItemFacts DEF Open
    <2>2. CASE i # j
        <3>1. PICK a \in Attempts : <<i, a>> \in Queued \/ task[<<i, a>>] \notin HandsOn \cup {"none"}
            BY <1>2, <2>2 DEF IInv, AttemptRemains
        <3> QED BY <1>1, <3>1, ItemFacts DEF HandsOn
    <2> QED BY <2>1, <2>2
<1>8. OverIsSettled'
    BY <1>0, <1>2, ItemFacts DEF IInv, OverIsSettled
<1>9. \A i \in Jobs : i # j => (UnderWay(i)' => UnderWay(i))
    BY <1>1, ItemFacts DEF UnderWay, Queued, Alive
<1>10. \A k \in Jobs : target[k] # NoReview /\ EndedBy(k, {"retried"}) =>
            target'[k] = target[k] /\ EndedBy(k, {"retried"})'
    BY <1>0, <1>2, ItemFacts DEF EndedBy
<1>11. PublishesAreInflight'
    <2> SUFFICES ASSUME NEW i \in Jobs, target'[i] # NoReview, UnderWay(i)'
                 PROVE  target'[i] \in inflight' \/ \E k \in Jobs : target'[k] = target'[i] /\ EndedBy(k, {"retried"})'
        BY DEF PublishesAreInflight
    <2>1. CASE i = j
        BY <1>2, <2>1
    <2>2. CASE i # j
        <3>1. target[i] \in inflight \/ \E k \in Jobs : target[k] = target[i] /\ EndedBy(k, {"retried"})
            BY <1>2, <1>9, <2>2 DEF IInv, PublishesAreInflight
        <3>2. target'[i] = target[i] /\ target[i] # NoReview /\ inflight \subseteq inflight'
            BY <1>2, <2>2
        <3> QED BY <1>10, <3>1, <3>2
    <2> QED BY <2>1, <2>2
<1>12. SecondPublishFollowsRetry'
    <2> SUFFICES ASSUME NEW i \in Jobs, NEW k \in Jobs, i # k, target'[i] # NoReview, target'[i] = target'[k],
                        UnderWay(i)', UnderWay(k)'
                 PROVE  \E m \in Jobs : target'[m] = target'[i] /\ EndedBy(m, {"retried"})'
        BY DEF SecondPublishFollowsRetry
    <2>1. CASE i # j /\ k # j
        <3>1. target'[i] = target[i] /\ target'[k] = target[k] /\ UnderWay(i) /\ UnderWay(k)
            BY <1>2, <1>9, <2>1
        <3>2. PICK m \in Jobs : target[m] = target[i] /\ EndedBy(m, {"retried"})
            BY <3>1 DEF IInv, SecondPublishFollowsRetry
        <3> QED BY <1>10, <3>1, <3>2
    <2>2. ASSUME NEW m \in Jobs, m # j, target[m] = v, v # NoReview, UnderWay(m)
          PROVE  \E k2 \in Jobs : target'[k2] = v /\ EndedBy(k2, {"retried"})'
        <3>1. \E k2 \in Jobs : target[k2] = v /\ EndedBy(k2, {"retried"})
            BY <2>2 DEF IInv, PublishesAreInflight
        <3> QED BY <1>10, <2>2, <3>1
    <2>3. CASE i = j
        BY <1>2, <1>9, <2>2, <2>3
    <2>4. CASE k = j
        BY <1>2, <1>9, <2>2, <2>4
    <2> QED BY <2>1, <2>3, <2>4
<1> QED BY <1>3, <1>4, <1>5, <1>6, <1>7, <1>8, <1>11, <1>12 DEF IInv

-----------------------------------------------------------------------------
(* A task moves on                                                         *)

LEMMA MoveStep ==
    ASSUME IInv, NEW t \in Items, NEW w \in Alive \cup Ended, TypeOK',
           task[t] \in Alive, task' = [task EXCEPT ![t] = w],
           UNCHANGED <<origin, target, channel, server>>, server # "exited",
           w # "resending", w = "backoff" => t[2] + 1 < MaxRetries,
           task[t] = "resending" <=> w = "retried",
           \A k \in Jobs : k # t[1] => row'[k] = row[k],
           \/ row' = row /\ (w = "over" => server # "serving")
           \/ task[t] # "resending" /\ (w = "over" => row'[t[1]] \notin {"queued", "running"}),
           \/ inflight' = inflight
           \/ w \in Ended /\ inflight' = inflight \ {target[t[1]]}
    PROVE  IInv'
<1>0. task'[t] = w /\ \A u \in Items : u # t => task'[u] = task[u]
    BY DEF IInv, TypeOK
<1>1. Queued' = Queued /\ t \notin Queued /\ task[t] # "none" /\ w # "none"
    BY DEF Queued, IInv, ItemsAreNew, Alive, Ended
<1>2. NewJobsAreFresh'
    BY <1>0, <1>1, ItemFacts DEF IInv, NewJobsAreFresh
<1>3. ItemsAreNew'
    BY <1>0, <1>1, ItemFacts DEF IInv, ItemsAreNew, TypeOK, Range, Queued
<1>4. AttemptsFollow'
    BY <1>0, <1>1 DEF IInv, AttemptsFollow, HandsOn, Alive
<1>5. RetriesRemain' /\ ExitIsTheEnd'
    BY <1>0 DEF IInv, RetriesRemain, ExitIsTheEnd
<1>6. AttemptRemains'
    <2> SUFFICES ASSUME server = "serving", NEW j \in Jobs, origin[j] # "none"
                 PROVE  \E a \in Attempts : <<j, a>> \in Queued' \/ task'[<<j, a>>] \notin HandsOn \cup {"none"}
        BY DEF AttemptRemains
    <2>1. PICK a \in Attempts : <<j, a>> \in Queued \/ task[<<j, a>>] \notin HandsOn \cup {"none"}
        BY DEF IInv, AttemptRemains
    <2>2. <<j, a>> = t => w \notin HandsOn \cup {"none"} \/ <<j, a>> \in Queued
        BY <1>1, <2>1 DEF HandsOn
    <2> QED BY <1>0, <1>1, <2>1, <2>2, ItemFacts
<1>7. OverIsSettled'
    <2> SUFFICES ASSUME server = "serving", NEW u \in Items, task'[u] = "over"
                 PROVE  row'[u[1]] \notin {"queued", "running"}
        BY DEF OverIsSettled
    <2>1. CASE u = t
        BY <1>0, <2>1
    <2>2. CASE u # t /\ u[1] # t[1]
        BY <1>0, <2>2, ItemFacts DEF IInv, OverIsSettled
    <2>3. CASE u # t /\ u[1] = t[1]
        <3>1. task[u] = "over"
            BY <1>0, <2>3
        <3>2. t[2] < u[2] \/ u[2] < t[2]
            BY <2>3, ItemFacts
        <3>3. task[t] = "resending"
            BY <1>1, <2>3, <3>1, <3>2 DEF IInv, AttemptsFollow, HandsOn, Alive
        <3>4. row' = row
            BY <3>3
        <3> QED BY <3>1, <3>4 DEF IInv, OverIsSettled
    <2> QED BY <2>1, <2>2, <2>3
<1>8. \A k \in Jobs : UnderWay(k)' => UnderWay(k)
    <2> SUFFICES ASSUME NEW k \in Jobs, UnderWay(k)' PROVE UnderWay(k)
        OBVIOUS
    <2>1. PICK a \in Attempts : <<k, a>> \in Queued' \/ task'[<<k, a>>] \in Alive \ {"resending"}
        BY DEF UnderWay, Queued
    <2>2. <<k, a>> = t /\ <<k, a>> \notin Queued => task[t] \in Alive \ {"resending"}
        BY <1>0, <1>1, <2>1 DEF Alive
    <2> QED BY <1>0, <1>1, <2>1, <2>2, ItemFacts DEF UnderWay, Queued
<1>9. \A k \in Jobs : EndedBy(k, {"retried"}) => EndedBy(k, {"retried"})'
    BY <1>0, ItemFacts DEF EndedBy, Alive
<1>10. PublishesAreInflight'
    <2> SUFFICES ASSUME NEW k \in Jobs, target[k] # NoReview, UnderWay(k)', target[k] \notin inflight'
                 PROVE  \E m \in Jobs : target[m] = target[k] /\ EndedBy(m, {"retried"})'
        BY DEF PublishesAreInflight
    <2>1. UnderWay(k)
        BY <1>8
    <2>2. CASE \E m \in Jobs : target[m] = target[k] /\ EndedBy(m, {"retried"})
        BY <1>9, <2>2
    <2>3. CASE w = "retried"
        <3>1. target[k] \in inflight \/ \E m \in Jobs : target[m] = target[k] /\ EndedBy(m, {"retried"})
            BY <2>1 DEF IInv, PublishesAreInflight
        <3>2. target[k] \in inflight => target[t[1]] = target[k]
            OBVIOUS
        <3>3. EndedBy(t[1], {"retried"})'
            BY <1>0, <2>3, ItemFacts DEF EndedBy
        <3> QED BY <2>2, <3>1, <3>2, <3>3, ItemFacts
    <2>4. CASE target[k] \in inflight /\ w # "retried"
        <3>1. target[t[1]] = target[k] /\ w \in Ended /\ task[t] # "resending"
            BY <2>4
        <3>2. UnderWay(t[1])
            BY <3>1, ItemFacts DEF UnderWay
        <3>3. CASE k # t[1]
            BY <2>1, <2>2, <3>1, <3>2, <3>3, ItemFacts DEF IInv, SecondPublishFollowsRetry
        <3>4. CASE k = t[1]
            <4>1. PICK a \in Attempts : <<k, a>> \in Queued \/ task'[<<k, a>>] \in Alive \ {"resending"}
                BY <1>1 DEF UnderWay, Queued
            <4>2. <<k, a>> # t
                BY <1>0, <1>1, <3>1, <4>1 DEF Alive, Ended
            <4>3. a < t[2] \/ t[2] < a
                BY <3>4, <4>2, ItemFacts
            <4>4. task[<<k, a>>] = task'[<<k, a>>]
                BY <1>0, <4>2, ItemFacts
            <4>5. CASE a < t[2]
                <5>1. task[<<k, a>>] \in HandsOn
                    BY <1>1, <3>4, <4>5, ItemFacts DEF IInv, AttemptsFollow
                <5> QED BY <4>1, <4>4, <5>1 DEF HandsOn, Alive, IInv, ItemsAreNew
            <4>6. CASE t[2] < a
                <5>1. <<k, a>> \in Queued \/ task[<<k, a>>] # "none"
                    BY <4>1, <4>4 DEF Alive
                <5>2. task[t] \in HandsOn
                    BY <3>4, <4>6, <5>1, ItemFacts DEF IInv, AttemptsFollow
                <5> QED BY <3>1, <5>2 DEF HandsOn, Alive
            <4> QED BY <4>3, <4>5, <4>6
        <3> QED BY <3>3, <3>4
    <2> QED BY <2>1, <2>2, <2>3, <2>4 DEF IInv, PublishesAreInflight
<1>11. SecondPublishFollowsRetry'
    BY <1>8, <1>9 DEF IInv, SecondPublishFollowsRetry
<1> QED BY <1>2, <1>3, <1>4, <1>5, <1>6, <1>7, <1>10, <1>11 DEF IInv

LEMMA ReceiveStep ==
    ASSUME IInv, Receive, TypeOK'
    PROVE  IInv'
<1> DEFINE t == Head(channel)
<1>0. /\ t \in Items /\ t \in Queued /\ task[t] = "none"
      /\ Queued' = Queued \ {t} /\ Distinct(channel')
      /\ task'[t] = "starting" /\ \A u \in Items : u # t => task'[u] = task[u]
      /\ UNCHANGED <<origin, row, target, inflight, server>> /\ server # "exited"
    BY TailFacts DEF IInv, TypeOK, ItemsAreNew, Queued, Receive, Open
<1>1. NewJobsAreFresh'
    BY <1>0, ItemFacts DEF IInv, NewJobsAreFresh
<1>2. ItemsAreNew'
    <2>1. Queued \subseteq Items
        BY DEF IInv, TypeOK, Queued, Range
    <2> QED BY <1>0, <2>1 DEF IInv, ItemsAreNew
<1>3. AttemptsFollow'
    BY <1>0 DEF IInv, AttemptsFollow, HandsOn
<1>4. RetriesRemain' /\ ExitIsTheEnd' /\ OverIsSettled'
    BY <1>0 DEF IInv, RetriesRemain, ExitIsTheEnd, OverIsSettled
<1>5. AttemptRemains'
    <2> SUFFICES ASSUME server = "serving", NEW j \in Jobs, origin[j] # "none"
                 PROVE  \E a \in Attempts : <<j, a>> \in Queued' \/ task'[<<j, a>>] \notin HandsOn \cup {"none"}
        BY <1>0 DEF AttemptRemains
    <2>1. PICK a \in Attempts : <<j, a>> \in Queued \/ task[<<j, a>>] \notin HandsOn \cup {"none"}
        BY DEF IInv, AttemptRemains
    <2>2. CASE <<j, a>> = t
        BY <1>0, <2>2 DEF HandsOn
    <2>3. CASE <<j, a>> # t
        BY <1>0, <2>1, <2>3, ItemFacts
    <2> QED BY <2>2, <2>3
<1>6. \A k \in Jobs : UnderWay(k)' => UnderWay(k)
    <2> SUFFICES ASSUME NEW k \in Jobs, NEW a \in Attempts,
                        <<k, a>> \in Queued' \/ task'[<<k, a>>] \in Alive \ {"resending"}
                 PROVE  UnderWay(k)
        BY DEF UnderWay, Queued
    <2>1. <<k, a>> \in Queued \/ task[<<k, a>>] \in Alive \ {"resending"}
        BY <1>0, ItemFacts
    <2> QED BY <2>1 DEF UnderWay, Queued
<1>7. \A k \in Jobs : EndedBy(k, {"retried"}) => EndedBy(k, {"retried"})'
    BY <1>0, ItemFacts DEF EndedBy
<1>8. PublishesAreInflight' /\ SecondPublishFollowsRetry'
    BY <1>0, <1>6, <1>7 DEF IInv, PublishesAreInflight, SecondPublishFollowsRetry
<1> QED BY <1>1, <1>2, <1>3, <1>4, <1>5, <1>8 DEF IInv

\* A retry goes back into the open channel.
LEMMA ResendStep ==
    ASSUME IInv, NEW t \in Items, Resend(t), Open, TypeOK'
    PROVE  IInv'
<1> DEFINE v == Retried(t)
<1>0. /\ v \in Items /\ v[1] = t[1] /\ v[2] = t[2] + 1 /\ v # t
      /\ task[t] = "backoff"
    BY ItemFacts, RetriedFacts DEF IInv, Resend
<1>1. /\ server # "exited" /\ UNCHANGED <<origin, row, target, inflight, server>>
      /\ channel' = Append(channel, v)
      /\ task'[t] = "resending" /\ \A u \in Items : u # t => task'[u] = task[u]
    BY DEF IInv, TypeOK, Resend, Open
<1>2. task[v] = "none" /\ v \notin Queued /\ t \notin Queued
    BY <1>0, <1>1, ItemFacts DEF IInv, AttemptsFollow, HandsOn, ItemsAreNew
<1>3. Queued' = Queued \cup {v} /\ Distinct(channel')
    BY <1>0, <1>1, <1>2, AppendFacts DEF IInv, TypeOK, ItemsAreNew, Queued
<1>4. NewJobsAreFresh'
    BY <1>0, <1>1, <1>3, ItemFacts DEF IInv, NewJobsAreFresh
<1>5. ItemsAreNew'
    <2>1. Queued \subseteq Items
        BY DEF IInv, TypeOK, Queued, Range
    <2> QED BY <1>0, <1>1, <1>2, <1>3, <2>1 DEF IInv, ItemsAreNew
<1>6. AttemptsFollow'
    <2> SUFFICES ASSUME NEW s \in Items, NEW u \in Items, s[1] = u[1], s[2] < u[2],
                        u \in Queued' \/ task'[u] # "none"
                 PROVE  task'[s] \in HandsOn
        BY DEF AttemptsFollow
    <2>1. CASE s = t
        BY <1>1, <2>1 DEF HandsOn
    <2>2. CASE u = t /\ s # t
        <3>1. task[s] \in HandsOn
            BY <1>0, <1>1, <2>2 DEF IInv, AttemptsFollow
        <3> QED BY <1>1, <2>2, <3>1
    <2>3. CASE u = v /\ s # t
        <3>1. s[2] < t[2] /\ s[1] = t[1]
            BY <1>0, <2>3, ItemFacts
        <3>2. task[s] \in HandsOn
            BY <1>0, <1>1, <3>1 DEF IInv, AttemptsFollow
        <3> QED BY <1>1, <2>3, <3>2
    <2>4. CASE u # v /\ u # t /\ s # t
        <3>1. u \in Queued \/ task[u] # "none"
            BY <1>1, <1>3, <2>4
        <3> QED BY <1>1, <2>4, <3>1 DEF IInv, AttemptsFollow
    <2> QED BY <2>1, <2>2, <2>3, <2>4
<1>7. RetriesRemain' /\ ExitIsTheEnd' /\ OverIsSettled'
    BY <1>0, <1>1 DEF IInv, RetriesRemain, ExitIsTheEnd, OverIsSettled
<1>8. AttemptRemains'
    <2> SUFFICES ASSUME server = "serving", NEW j \in Jobs, origin[j] # "none"
                 PROVE  \E a \in Attempts : <<j, a>> \in Queued' \/ task'[<<j, a>>] \notin HandsOn \cup {"none"}
        BY <1>1 DEF AttemptRemains
    <2>1. PICK a \in Attempts : <<j, a>> \in Queued \/ task[<<j, a>>] \notin HandsOn \cup {"none"}
        BY DEF IInv, AttemptRemains
    <2>2. CASE j = t[1]
        BY <1>0, <1>3, <2>2, ItemFacts
    <2>3. CASE j # t[1]
        BY <1>1, <1>3, <2>1, <2>3, ItemFacts
    <2> QED BY <2>2, <2>3
<1>9. \A k \in Jobs : UnderWay(k)' => UnderWay(k)
    <2> SUFFICES ASSUME NEW k \in Jobs, NEW a \in Attempts,
                        <<k, a>> \in Queued' \/ task'[<<k, a>>] \in Alive \ {"resending"}
                 PROVE  UnderWay(k)
        BY DEF UnderWay, Queued
    <2>1. <<k, a>> = v => k = t[1]
        BY <1>0, ItemFacts
    <2>2. <<k, a>> \in Queued \/ task[<<k, a>>] \in Alive \ {"resending"} \/ k = t[1]
        BY <1>1, <1>3, <2>1, ItemFacts
    <2>3. UnderWay(t[1])
        BY <1>0, ItemFacts DEF UnderWay, Alive
    <2> QED BY <2>2, <2>3 DEF UnderWay, Queued
<1>10. \A k \in Jobs : EndedBy(k, {"retried"}) => EndedBy(k, {"retried"})'
    BY <1>0, <1>1, ItemFacts DEF EndedBy
<1>11. PublishesAreInflight' /\ SecondPublishFollowsRetry'
    BY <1>1, <1>9, <1>10 DEF IInv, PublishesAreInflight, SecondPublishFollowsRetry
<1> QED BY <1>4, <1>5, <1>6, <1>7, <1>8, <1>11 DEF IInv

-----------------------------------------------------------------------------
(* The server stops                                                        *)

LEMMA CloseStep ==
    ASSUME IInv, CloseQueue, TypeOK'
    PROVE  IInv'
<1> DEFINE refused == {t \in Items : task[t] = "resending" /\ Retried(t) \in Waiting}
<1>0. /\ UNCHANGED <<origin, row, target>> /\ server = "stopping" /\ server' = "draining"
      /\ Queued' \subseteq Queued /\ Distinct(channel')
      /\ \A u \in Waiting : u \notin Queued'
    BY BufferFacts DEF IInv, TypeOK, ItemsAreNew, Queued, CloseQueue
<1>1. \A u \in Items : \/ task'[u] = task[u]
                       \/ u \in refused /\ task'[u] = "over"
                       \/ task[u] = "handing" /\ task'[u] = "bounced"
    BY DEF IInv, TypeOK, CloseQueue
<1>2. NewJobsAreFresh'
    BY <1>0, <1>1, ItemFacts DEF IInv, NewJobsAreFresh
<1>3. ItemsAreNew'
    <2>1. Queued \subseteq Items
        BY DEF IInv, TypeOK, Queued, Range
    <2> QED BY <1>0, <1>1, <2>1 DEF IInv, ItemsAreNew
<1>4. AttemptsFollow'
    <2> SUFFICES ASSUME NEW s \in Items, NEW u \in Items, s[1] = u[1], s[2] < u[2],
                        u \in Queued' \/ task'[u] # "none", task'[s] \notin HandsOn
                 PROVE  FALSE
        BY DEF AttemptsFollow
    <2>1. u \in Queued \/ task[u] # "none"
        BY <1>0, <1>1
    <2>2. task[s] \in HandsOn
        BY <1>0, <2>1 DEF IInv, AttemptsFollow
    <2>3. s \in refused
        BY <1>1, <2>2 DEF HandsOn
    <2>4. /\ Retried(s) \in Items /\ Retried(s)[1] = s[1] /\ Retried(s)[2] = s[2] + 1
          /\ Retried(s) \in Queued /\ Retried(s) \notin Queued'
        BY <1>0, <2>3, RetriedFacts, QueuedFacts DEF IInv, TypeOK
    <2>5. task[Retried(s)] = "none"
        BY <2>4 DEF IInv, ItemsAreNew
    <2>6. CASE u = Retried(s)
        BY <1>1, <2>4, <2>5, <2>6
    <2>7. CASE u # Retried(s)
        <3>1. Retried(s)[2] < u[2]
            BY <2>4, <2>7, ItemFacts
        <3>2. task[Retried(s)] \in HandsOn
            BY <1>0, <2>1, <2>4, <3>1 DEF IInv, AttemptsFollow
        <3> QED BY <2>5, <3>2 DEF HandsOn
    <2> QED BY <2>6, <2>7
<1>5. RetriesRemain' /\ ExitIsTheEnd' /\ AttemptRemains' /\ OverIsSettled'
    BY <1>0, <1>1 DEF IInv, RetriesRemain, ExitIsTheEnd, AttemptRemains, OverIsSettled
<1>6. \A k \in Jobs : UnderWay(k)' => UnderWay(k)
    BY <1>0, <1>1, ItemFacts DEF UnderWay, Queued, Alive
<1>7. \A k \in Jobs : EndedBy(k, {"retried"}) => EndedBy(k, {"retried"})'
    BY <1>1, ItemFacts DEF EndedBy
<1>8. ASSUME NEW k \in Jobs, target[k] # NoReview, UnderWay(k)', target[k] \notin inflight'
      PROVE  \E m \in Jobs : target[m] = target[k] /\ EndedBy(m, {"retried"})
    <2>1. UnderWay(k)
        BY <1>6, <1>8
    <2>2. CASE target[k] \notin inflight
        BY <1>8, <2>1, <2>2 DEF IInv, PublishesAreInflight
    <2>3. CASE target[k] \in inflight
        <3>1. \/ \E t \in refused : target[t[1]] = target[k]
              \/ \E j \in Jobs : <<j, 0>> \in Waiting /\ target[j] = target[k]
            BY <1>8, <2>3 DEF CloseQueue
        <3>2. ASSUME NEW t \in refused, target[t[1]] = target[k]
              PROVE  \E j \in Jobs : \E u \in Items : /\ target[j] = target[k] /\ u[1] = j /\ u \in Waiting
                                                      /\ \A s \in Items : s[1] = j /\ s[2] < u[2] => task[s] \in HandsOn
            <4>1. Retried(t) \in Items /\ Retried(t)[1] = t[1] /\ Retried(t) \in Queued /\ Retried(t) \in Waiting
                BY <3>2, RetriedFacts, QueuedFacts DEF IInv, TypeOK
            <4> QED BY <1>0, <3>2, <4>1, ItemFacts DEF IInv, AttemptsFollow
        <3>3. PICK j \in Jobs, u \in Items : /\ target[j] = target[k] /\ u[1] = j /\ u \in Waiting
                                             /\ \A s \in Items : s[1] = j /\ s[2] < u[2] => task[s] \in HandsOn
            <4>1. ASSUME NEW j \in Jobs, <<j, 0>> \in Waiting, target[j] = target[k]
                  PROVE  \A s \in Items : s[1] = j /\ s[2] < 0 => task[s] \in HandsOn
                BY ItemFacts DEF Attempts
            <4>2. CASE \E t \in refused : target[t[1]] = target[k]
                BY <3>2, <4>2
            <4>3. CASE \E j \in Jobs : <<j, 0>> \in Waiting /\ target[j] = target[k]
                <5>1. PICK j \in Jobs : <<j, 0>> \in Waiting /\ target[j] = target[k]
                    BY <4>3
                <5>2. <<j, 0>> \in Items /\ <<j, 0>>[1] = j /\ <<j, 0>>[2] = 0
                    BY ItemFacts
                <5> QED BY <4>1, <5>1, <5>2
            <4> QED BY <3>1, <4>2, <4>3
        <3>4. u \in Queued /\ u \notin Queued' /\ task[u] = "none" /\ u = <<u[1], u[2]>>
            BY <1>0, <3>3, ItemFacts DEF Waiting, Queued, Range, IInv, ItemsAreNew
        <3>5. UnderWay(j)
            BY <3>3, <3>4, ItemFacts DEF UnderWay, Queued
        <3>6. CASE j # k
            BY <1>8, <2>1, <3>3, <3>5, <3>6 DEF IInv, SecondPublishFollowsRetry
        <3>7. CASE j = k
            <4>1. PICK a \in Attempts : <<k, a>> \in Queued' \/ task'[<<k, a>>] \in Alive \ {"resending"}
                BY <1>8 DEF UnderWay, Queued
            <4>2. <<k, a>> \in Items /\ <<k, a>>[1] = k /\ <<k, a>>[2] = a
                BY ItemFacts
            <4>3. <<k, a>> # u
                BY <1>1, <3>4, <4>1 DEF Alive
            <4>4. a < u[2] \/ u[2] < a
                BY <3>3, <3>7, <4>2, <4>3, ItemFacts
            <4>5. CASE a < u[2]
                <5>1. task[<<k, a>>] \in HandsOn
                    BY <3>3, <3>7, <4>2, <4>5
                <5> QED BY <1>0, <1>1, <4>1, <4>2, <5>1 DEF HandsOn, Alive, IInv, ItemsAreNew
            <4>6. CASE u[2] < a
                <5>1. <<k, a>> \in Queued \/ task[<<k, a>>] # "none"
                    BY <1>0, <1>1, <4>1, <4>2 DEF Alive
                <5>2. task[u] \in HandsOn
                    BY <1>0, <3>3, <3>7, <4>2, <4>6, <5>1 DEF IInv, AttemptsFollow
                <5> QED BY <3>4, <5>2 DEF HandsOn
            <4> QED BY <4>4, <4>5, <4>6
        <3> QED BY <3>6, <3>7
    <2> QED BY <2>2, <2>3
<1>9. PublishesAreInflight'
    BY <1>0, <1>7, <1>8 DEF PublishesAreInflight
<1>10. SecondPublishFollowsRetry'
    BY <1>0, <1>6, <1>7 DEF IInv, SecondPublishFollowsRetry
<1> QED BY <1>2, <1>3, <1>4, <1>5, <1>9, <1>10 DEF IInv

\* The server leaves "serving"; the channel stays or is dropped at the end.
LEMMA StopStep ==
    ASSUME IInv, Shutdown \/ Drained \/ Exit, TypeOK'
    PROVE  IInv'
<1>0. /\ UNCHANGED <<origin, row, target, inflight>> /\ server' # "serving" /\ server # "exited"
      /\ channel' = channel \/ (channel' = <<>> /\ \A t \in Items : task'[t] \notin Alive)
      /\ server' = "exited" => channel' = <<>> /\ \A t \in Items : task'[t] \notin Alive
      /\ \A t \in Items : \/ task'[t] = task[t]
                          \/ task[t] \in Alive /\ task'[t] = "over" /\ server' = "exited"
    BY DEF IInv, TypeOK, Shutdown, Drained, Exit, Active, Alive
<1>1. Queued' \subseteq Queued /\ Queued \subseteq Items /\ Distinct(channel')
    <2>1. CASE channel' = <<>>
        BY <2>1 DEF Queued, Range, Distinct, IInv, TypeOK
    <2>2. CASE channel' = channel
        BY <2>2 DEF Queued, Range, IInv, ItemsAreNew, TypeOK
    <2> QED BY <1>0, <2>1, <2>2
<1>2. NewJobsAreFresh'
    BY <1>0, <1>1, ItemFacts DEF IInv, NewJobsAreFresh, Alive
<1>3. ItemsAreNew'
    <2>1. CASE channel' = <<>>
        BY <2>1 DEF Queued, Range, Distinct, ItemsAreNew
    <2>2. CASE channel' = channel
        BY <1>0, <1>1, <2>2 DEF IInv, ItemsAreNew, Alive
    <2> QED BY <1>0, <2>1, <2>2
<1>4. AttemptsFollow' /\ RetriesRemain'
    BY <1>0, <1>1 DEF IInv, AttemptsFollow, RetriesRemain
<1>5. ExitIsTheEnd' /\ AttemptRemains' /\ OverIsSettled'
    BY <1>0 DEF ExitIsTheEnd, AttemptRemains, OverIsSettled
<1>6. \A k \in Jobs : UnderWay(k)' => UnderWay(k)
    BY <1>0, <1>1, ItemFacts DEF UnderWay, Queued, Alive
<1>7. \A k \in Jobs : EndedBy(k, {"retried"}) => EndedBy(k, {"retried"})'
    BY <1>0, ItemFacts DEF EndedBy, Alive
<1>8. PublishesAreInflight' /\ SecondPublishFollowsRetry'
    BY <1>0, <1>6, <1>7 DEF IInv, PublishesAreInflight, SecondPublishFollowsRetry
<1> QED BY <1>2, <1>3, <1>4, <1>5, <1>8 DEF IInv

-----------------------------------------------------------------------------

LEMMA TypeStep ==
    ASSUME IInv, [Next]_vars
    PROVE  TypeOK'
<1> USE DEF Origins
<1>0. TypeOK
    BY DEF IInv
<1>1. ASSUME NEW j \in Jobs, NEW from \in Origins, NEW r \in {"absent", "queued"}, Create(j, from, r)
      PROVE  /\ origin' \in [Jobs -> Origins] /\ channel' \in Seq(Items)
             /\ row' \in [Jobs -> {"absent", "queued", "running", "done", "failed"}]
    BY <1>0, <1>1, ItemFacts, AppendFacts DEF TypeOK, Create
<1>2. ASSUME NEW t \in Items, NEW w \in Alive \cup Ended
      PROVE  [task EXCEPT ![t] = w] \in [Items -> {"none"} \cup Alive \cup Ended]
    BY <1>0 DEF TypeOK
<1>3. ASSUME NEW t \in Items, NEW r \in {"running", "done", "failed"}, SetRow(t, r)
      PROVE  row' \in [Jobs -> {"absent", "queued", "running", "done", "failed"}]
    BY <1>0, <1>3, ItemFacts DEF TypeOK, SetRow
<1>4. ASSUME NEW j \in Jobs, EnqueueReview(j) \/ EnqueueListed(j) PROVE TypeOK'
    BY <1>0, <1>1, <1>4 DEF TypeOK, EnqueueReview, EnqueueListed
<1>5. ASSUME NEW j \in Jobs, NEW r \in Reviews, PublishAfterApproval(j, r) PROVE TypeOK'
    BY <1>0, <1>1, <1>5 DEF TypeOK, PublishAfterApproval
<1>6. CASE Receive
    <2>1. Head(channel) \in Items /\ channel' \in Seq(Items)
        BY <1>0, <1>6, TailFacts DEF Receive, IInv, ItemsAreNew, TypeOK
    <2>2. task' \in [Items -> {"none"} \cup Alive \cup Ended]
        BY <1>2, <1>6, <2>1 DEF Receive, Alive
    <2> QED BY <1>0, <1>6, <2>1, <2>2 DEF TypeOK, Receive
<1>7. CASE CloseQueue
    <2>1. channel' \in Seq(Items)
        BY <1>0, <1>7, BufferFacts DEF TypeOK, IInv, ItemsAreNew
    <2>2. task' \in [Items -> {"none"} \cup Alive \cup Ended]
        BY <1>0, <1>7 DEF TypeOK, CloseQueue, Alive, Ended
    <2> QED BY <1>0, <1>7, <2>1, <2>2 DEF TypeOK, CloseQueue
<1>8. CASE Drained
    BY <1>0, <1>8 DEF TypeOK, Drained
<1>9. CASE Shutdown
    BY <1>0, <1>9 DEF TypeOK, Shutdown
<1>10. CASE Exit
    <2>1. task' \in [Items -> {"none"} \cup Alive \cup Ended]
        BY <1>0, <1>10 DEF TypeOK, Exit, Ended
    <2> QED BY <1>0, <1>10, <2>1 DEF TypeOK, Exit
<1>11. ASSUME NEW t \in Items, MarkRunning(t) \/ Succeed(t) \/ Fail(t) PROVE TypeOK'
    <2>1. task' \in [Items -> {"none"} \cup Alive \cup Ended]
        BY <1>2, <1>11 DEF MarkRunning, Succeed, Fail, End, Alive, Ended
    <2>2. row' \in [Jobs -> {"absent", "queued", "running", "done", "failed"}]
        BY <1>3, <1>11 DEF MarkRunning, Succeed, Fail
    <2> QED BY <1>0, <1>11, <2>1, <2>2 DEF TypeOK, MarkRunning, Succeed, Fail, End
<1>12. ASSUME NEW t \in Items, BackOff(t) \/ Resent(t) \/ DatabaseError(t) \/ Panic(t) PROVE TypeOK'
    <2>1. task' \in [Items -> {"none"} \cup Alive \cup Ended]
        BY <1>2, <1>12 DEF BackOff, Resent, DatabaseError, Panic, End, Alive, Ended
    <2>2. faults' \in 0..FaultBound
        BY <1>0, <1>12, LimitsAssumption DEF TypeOK, BackOff, Resent, DatabaseError, Panic
    <2> QED BY <1>0, <1>12, <2>1, <2>2 DEF TypeOK, BackOff, Resent, DatabaseError, Panic, End
<1>13. ASSUME NEW t \in Items, Resend(t) PROVE TypeOK'
    <2>1. Retried(t) \in Items
        BY <1>13, RetriedFacts DEF IInv, Resend
    <2>2. channel' \in Seq(Items)
        BY <1>0, <1>13, <2>1 DEF TypeOK, Resend
    <2>3. task' \in [Items -> {"none"} \cup Alive \cup Ended]
        BY <1>2, <1>13 DEF Resend, End, Alive, Ended
    <2> QED BY <1>0, <1>13, <2>2, <2>3 DEF TypeOK, Resend, End
<1>14. ASSUME NEW t \in Items, NEW j \in Jobs, HandOver(t, j) PROVE TypeOK'
    <2>1. task' \in [Items -> {"none"} \cup Alive \cup Ended]
        BY <1>2, <1>14 DEF HandOver, Alive
    <2>2. child' \in [Jobs -> Jobs \cup {NoJob}]
        BY <1>0, <1>14, ItemFacts DEF TypeOK, HandOver
    <2> QED BY <1>0, <1>1, <1>14, <2>1, <2>2 DEF TypeOK, HandOver
<1>15. CASE UNCHANGED vars
    BY <1>0, <1>15 DEF TypeOK, vars
<1> QED BY <1>4, <1>5, <1>6, <1>7, <1>8, <1>9, <1>10, <1>11, <1>12, <1>13, <1>14, <1>15
        DEF Next, LoopStep, TaskStep

LEMMA InitIsInductive == Init => IInv
<1> SUFFICES ASSUME Init PROVE IInv
    OBVIOUS
<1>1. TypeOK
    BY LimitsAssumption DEF Init, TypeOK, Origins
<1>2. Queued = {}
    BY DEF Init, Queued, Range
<1>3. \A t \in Items : task[t] = "none"
    BY DEF Init
<1>4. NewJobsAreFresh
    BY <1>2, <1>3, ItemFacts DEF Init, NewJobsAreFresh
<1>5. ItemsAreNew /\ AttemptsFollow /\ RetriesRemain
    BY <1>2, <1>3 DEF Init, ItemsAreNew, Distinct, AttemptsFollow, RetriesRemain
<1>6. ExitIsTheEnd /\ AttemptRemains /\ OverIsSettled
    BY <1>3 DEF Init, ExitIsTheEnd, AttemptRemains, OverIsSettled
<1>7. \A j \in Jobs : target[j] = NoReview
    BY DEF Init
<1>8. PublishesAreInflight /\ SecondPublishFollowsRetry
    BY <1>7 DEF PublishesAreInflight, SecondPublishFollowsRetry
<1> QED BY <1>1, <1>4, <1>5, <1>6, <1>8 DEF IInv

LEMMA StepIsInductive == IInv /\ [Next]_vars => IInv'
<1> SUFFICES ASSUME IInv, [Next]_vars PROVE IInv'
    OBVIOUS
<1>0. TypeOK /\ TypeOK'
    BY TypeStep DEF IInv
<1>1. ASSUME NEW j \in Jobs, EnqueueReview(j) \/ EnqueueListed(j) PROVE IInv'
    <2>1. target[j] = NoReview /\ target' = [target EXCEPT ![j] = NoReview]
        BY <1>0, <1>1 DEF TypeOK, IInv, NewJobsAreFresh, EnqueueReview, EnqueueListed, Create
    <2>2. PICK from \in Origins \ {"none"}, r \in {"absent", "queued"} : Create(j, from, r)
        BY <1>1 DEF EnqueueReview, EnqueueListed, Origins
    <2> QED BY <1>0, <1>1, <2>1, <2>2, CreateStep DEF EnqueueReview, EnqueueListed, Open
<1>2. ASSUME NEW j \in Jobs, NEW r \in Reviews, PublishAfterApproval(j, r) PROVE IInv'
    <2>1. "approval" \in Origins \ {"none"} /\ r # NoReview
        BY NoReviewAssumption DEF Origins
    <2> QED BY <1>0, <1>2, <2>1, CreateStep DEF PublishAfterApproval
<1>3. ASSUME NEW t \in Items, NEW j \in Jobs, HandOver(t, j), server # "exited" PROVE IInv'
    <2>1. target[j] = NoReview /\ target' = [target EXCEPT ![j] = NoReview]
        BY <1>0, <1>3 DEF TypeOK, IInv, NewJobsAreFresh, HandOver, Create
    <2>2. "auto" \in Origins \ {"none"}
        BY DEF Origins
    <2>3. \A u \in Items : task'[u] = task[u] \/ (task[u] = "working" /\ task'[u] \in {"handing", "bounced"})
        BY <1>0, <1>3 DEF TypeOK, HandOver
    <2> QED BY <1>0, <1>3, <2>1, <2>2, <2>3, CreateStep DEF HandOver
<1>4. ASSUME NEW t \in Items, server # "exited",
             MarkRunning(t) \/ Succeed(t) \/ Fail(t)
      PROVE  IInv'
    <2>1. \A k \in Jobs : k # t[1] => row'[k] = row[k]
        BY <1>0, <1>4 DEF TypeOK, MarkRunning, Succeed, Fail, SetRow
    <2>2. CASE MarkRunning(t)
        BY <1>0, <1>4, <2>1, <2>2, MoveStep DEF MarkRunning, Alive, Ended
    <2>3. CASE Succeed(t) \/ Fail(t)
        <3>1. row'[t[1]] \notin {"queued", "running"}
            BY <1>0, <2>3, ItemFacts DEF TypeOK, Succeed, Fail, SetRow
        <3> QED BY <1>0, <1>4, <2>1, <2>3, <3>1, MoveStep DEF Succeed, Fail, End, Alive, Ended
    <2> QED BY <1>4, <2>2, <2>3
<1>5. ASSUME NEW t \in Items, server # "exited", BackOff(t) \/ Resent(t) PROVE IInv'
    <2>1. CASE BackOff(t)
        BY <1>0, <1>5, <2>1, MoveStep DEF BackOff, Alive, Ended
    <2>2. CASE Resent(t)
        BY <1>0, <1>5, <2>2, MoveStep DEF Resent, End, Alive, Ended
    <2> QED BY <1>5, <2>1, <2>2
<1>6. ASSUME NEW t \in Items, DatabaseError(t) \/ Panic(t) PROVE IInv'
    <2>1. server # "exited"
        BY <1>6 DEF IInv, ExitIsTheEnd, DatabaseError, Panic, Alive
    <2>2. CASE DatabaseError(t)
        BY <1>0, <2>1, <2>2, MoveStep DEF DatabaseError, End, Alive, Ended
    <2>3. CASE Panic(t)
        BY <1>0, <2>1, <2>3, MoveStep DEF Panic, Alive, Ended
    <2> QED BY <1>6, <2>2, <2>3
<1>7. ASSUME NEW t \in Items, Resend(t), server # "exited" PROVE IInv'
    <2>1. CASE Open
        BY <1>0, <1>7, <2>1, ResendStep
    <2>2. CASE ~Open
        BY <1>0, <1>7, <2>2, MoveStep DEF Resend, Open, End, Alive, Ended
    <2> QED BY <2>1, <2>2
<1>8. CASE Receive
    BY <1>0, <1>8, ReceiveStep
<1>9. CASE CloseQueue
    BY <1>0, <1>9, CloseStep
<1>10. CASE Shutdown \/ Drained \/ Exit
    BY <1>0, <1>10, StopStep
<1>11. CASE UNCHANGED vars
    <2>1. Queued' = Queued /\ UNCHANGED <<origin, row, target, channel, task, inflight, server>>
        BY <1>11 DEF vars, Queued
    <2>2. NewJobsAreFresh' /\ ItemsAreNew' /\ AttemptsFollow' /\ RetriesRemain'
        BY <2>1 DEF IInv, NewJobsAreFresh, ItemsAreNew, AttemptsFollow, RetriesRemain
    <2>3. ExitIsTheEnd' /\ AttemptRemains' /\ OverIsSettled'
        BY <2>1 DEF IInv, ExitIsTheEnd, AttemptRemains, OverIsSettled
    <2>4. \A k \in Jobs : UnderWay(k)' = UnderWay(k) /\ EndedBy(k, {"retried"})' = EndedBy(k, {"retried"})
        BY <2>1 DEF UnderWay, EndedBy
    <2>5. PublishesAreInflight' /\ SecondPublishFollowsRetry'
        BY <2>1, <2>4 DEF IInv, PublishesAreInflight, SecondPublishFollowsRetry
    <2> QED BY <1>0, <2>2, <2>3, <2>5 DEF IInv
<1> QED BY <1>1, <1>2, <1>3, <1>4, <1>5, <1>6, <1>7, <1>8, <1>9, <1>10, <1>11
        DEF Next, LoopStep, TaskStep

-----------------------------------------------------------------------------

\* The invariant the theorems below follow from.
THEOREM Inductive == Spec => []IInv
<1> QED BY InitIsInductive, StepIsInductive, PTL DEF Spec

\* Every variable keeps its type: no attempt beyond the retry limit, no job
\* beyond those created, no state outside the enumerations.
THEOREM TypeCorrect == Spec => []TypeOK
<1>1. IInv => TypeOK
    BY DEF IInv
<1> QED BY <1>1, Inductive, PTL

\* However many workers, retries and places in the channel there are: while
\* the server serves, a job whose row is unsettled has an item or a task, or
\* the database or the work itself broke.
THEOREM NoJobIsLost == Spec => []JobsAreNotLost
<1>1. ASSUME IInv PROVE JobsAreNotLost
    <2> SUFFICES ASSUME server = "serving", NEW j \in Jobs, origin[j] # "none",
                        row[j] \in {"queued", "running"}, ~EndedBy(j, {"dberror", "panicked"})
                 PROVE  Owned(j)
        BY DEF JobsAreNotLost
    <2>1. PICK a \in Attempts : <<j, a>> \in Queued \/ task[<<j, a>>] \notin HandsOn \cup {"none"}
        BY <1>1 DEF IInv, AttemptRemains
    <2>2. <<j, a>> \in Items /\ <<j, a>>[1] = j
        BY ItemFacts
    <2>3. task[<<j, a>>] # "over"
        BY <1>1, <2>2 DEF IInv, OverIsSettled
    <2>4. task[<<j, a>>] \notin {"dberror", "panicked"}
        BY DEF EndedBy
    <2>5. task[<<j, a>>] \in {"none"} \cup Alive \cup Ended
        BY <1>1, <2>2 DEF IInv, TypeOK
    <2>6. <<j, a>> \in Queued \/ <<j, a>> \in Active
        BY <2>1, <2>2, <2>3, <2>4, <2>5 DEF HandsOn, Ended, Active
    <2> QED BY <2>6 DEF Owned, Queued
<1> QED BY <1>1, Inductive, PTL

\* The attempts of a job are worked on one after the other, each once.
THEOREM AttemptsAreOrdered == Spec => []AttemptsDoNotOverlap
<1>1. ASSUME IInv PROVE AttemptsDoNotOverlap
    <2>1. \A u \in Queued : task[u] = "none"
        BY <1>1 DEF IInv, ItemsAreNew
    <2>2. ASSUME NEW t \in Items, NEW u \in Items, t[1] = u[1], t[2] < u[2], u \in Queued \cup Active
          PROVE  task[t] \in {"resending", "retried"}
        <3>1. server # "exited"
            BY <1>1, <2>2 DEF IInv, ExitIsTheEnd, Queued, Range, Active
        <3> QED BY <1>1, <2>2, <3>1 DEF IInv, AttemptsFollow, HandsOn, Active, Alive
    <2> QED BY <2>1, <2>2 DEF AttemptsDoNotOverlap, Queued
<1> QED BY <1>1, Inductive, PTL

\* publish_inflight keeps a second publish job of a review out, but for what
\* the wrapper of a retried one forgets.
THEOREM PublishingIsExclusive == Spec => []SecondPublishFollowsRetry
<1>1. IInv => SecondPublishFollowsRetry
    BY DEF IInv
<1> QED BY <1>1, Inductive, PTL

(***************************************************************************)
(* Where an item can go in one step, whoever takes it: into the channel,   *)
(* out of it into a task, and through the stages of the task.  When the    *)
(* server stops, it may also be dropped from the channel.                  *)
(***************************************************************************)
StageRank(stage) ==
    CASE stage = "none"                    -> 0
      [] stage = "starting"                -> 2
      [] stage = "working"                 -> 3
      [] stage \in {"handing", "backoff"}  -> 4
      [] stage \in {"bounced", "resending"} -> 5
      [] OTHER                             -> 6

Stays(u) == task'[u] = task[u] /\ (u \in Queued' <=> u \in Queued)

IsSent(u) ==
    /\ u \notin Queued /\ task[u] = "none" /\ task'[u] = "none"
    /\ origin[u[1]] = "none" \/ \E t \in Items : task[t] = "backoff" /\ u = Retried(t)

IsReceived(u) == u \in Queued /\ u \notin Queued' /\ task[u] = "none" /\ task'[u] = "starting"

IsWorkedOn(u) ==
    /\ u \notin Queued /\ u \notin Queued'
    /\ task[u] \in Alive /\ StageRank(task[u]) < StageRank(task'[u])

IsDropped(u) == u \in Queued /\ u \notin Queued' /\ task'[u] = task[u] /\ server' # server

ItemStep(u) == Stays(u) \/ IsSent(u) \/ IsReceived(u) \/ IsWorkedOn(u) \/ IsDropped(u)

LEMMA QueueTypes ==
    ASSUME IInv
    PROVE  /\ TypeOK /\ channel \in Seq(Items) /\ Queued \subseteq Items
           /\ \A u \in Items : task[u] # "none" => u \notin Queued
BY QueuedFacts DEF IInv, TypeOK, ItemsAreNew

LEMMA CreatedItems ==
    ASSUME IInv, NEW j \in Jobs, NEW from, NEW r, Create(j, from, r), NEW u \in Items,
           task'[u] = task[u]
    PROVE  ItemStep(u)
<1>1. /\ origin[j] = "none" /\ <<j, 0>> \in Items /\ <<j, 0>>[1] = j /\ channel \in Seq(Items)
      /\ task[<<j, 0>>] = "none" /\ <<j, 0>> \notin Queued
    BY ItemFacts, QueueTypes DEF Create, IInv, NewJobsAreFresh
<1>2. CASE Open
    <2>1. channel' = Append(channel, <<j, 0>>)
        BY <1>2 DEF Create
    <2>2. Queued' = Queued \cup {<<j, 0>>}
        BY <1>1, <2>1, AppendFacts DEF Queued
    <2> QED BY <1>1, <2>2 DEF ItemStep, Stays, IsSent
<1>3. CASE ~Open
    BY <1>3 DEF Create, ItemStep, Stays, Queued
<1> QED BY <1>2, <1>3

\* A step of a task other than the sending of its retry.
LEMMA WorkedItems ==
    ASSUME IInv, NEW t \in Items, NEW w, task[t] \in Alive, task' = [task EXCEPT ![t] = w],
           StageRank(task[t]) < StageRank(w), UNCHANGED channel, NEW u \in Items
    PROVE  ItemStep(u)
<1>1. Queued' = Queued
    BY DEF Queued
<1>2. task'[t] = w /\ \A v \in Items \ {t} : task'[v] = task[v]
    BY QueueTypes DEF TypeOK
<1>3. t \notin Queued
    BY QueueTypes DEF Alive
<1> QED BY <1>1, <1>2, <1>3 DEF ItemStep, Stays, IsWorkedOn

LEMMA ItemsMove ==
    ASSUME IInv, Next, NEW u \in Items
    PROVE  ItemStep(u)
<1>0. TypeOK /\ channel \in Seq(Items) /\ Queued \subseteq Items
    BY QueueTypes
<1>1. ASSUME NEW j \in Jobs, EnqueueReview(j) \/ EnqueueListed(j) PROVE ItemStep(u)
    BY <1>1, CreatedItems DEF EnqueueReview, EnqueueListed
<1>2. ASSUME NEW j \in Jobs, NEW r \in Reviews, PublishAfterApproval(j, r) PROVE ItemStep(u)
    BY <1>2, CreatedItems DEF PublishAfterApproval
<1>3. ASSUME NEW t \in Items, NEW j \in Jobs, HandOver(t, j) PROVE ItemStep(u)
    <2>1. CASE u # t
        <3>1. task'[u] = task[u]
            BY <1>0, <1>3, <2>1 DEF HandOver, TypeOK
        <3> QED BY <1>3, <3>1, CreatedItems DEF HandOver
    <2>2. CASE u = t
        <3>1. task[u] = "working" /\ task'[u] \in {"handing", "bounced"}
            BY <1>0, <1>3, <2>2 DEF HandOver, TypeOK
        <3>2. u \notin Queued
            BY <3>1, QueueTypes
        <3>3. u # <<j, 0>>
            BY <1>3, <3>1, ItemFacts DEF HandOver, Create, IInv, NewJobsAreFresh
        <3>4. u \notin Queued'
            <4>1. CASE Open
                <5>1. channel' = Append(channel, <<j, 0>>) /\ <<j, 0>> \in Items
                    BY <1>3, <4>1, ItemFacts DEF HandOver, Create
                <5> QED BY <1>0, <3>2, <3>3, <5>1, AppendFacts DEF Queued
            <4>2. CASE ~Open
                BY <1>3, <3>2, <4>2 DEF HandOver, Create, Queued
            <4> QED BY <4>1, <4>2
        <3> QED BY <3>1, <3>2, <3>4 DEF ItemStep, IsWorkedOn, StageRank, Alive
    <2> QED BY <2>1, <2>2
<1>4. ASSUME NEW t \in Items,
             \/ MarkRunning(t) \/ Succeed(t) \/ Fail(t) \/ BackOff(t) \/ Resent(t)
             \/ DatabaseError(t) \/ Panic(t)
      PROVE  ItemStep(u)
    <2>1. PICK w \in {"working", "over", "backoff", "retried", "dberror", "panicked"} :
              /\ task' = [task EXCEPT ![t] = w]
              /\ w = "working" => task[t] = "starting"
              /\ w = "backoff" => task[t] = "working"
              /\ task[t] \in Alive
        BY <1>4 DEF MarkRunning, Succeed, Fail, BackOff, Resent, DatabaseError, Panic, End, Alive
    <2>2. StageRank(task[t]) < StageRank(w)
        BY <2>1 DEF StageRank, Alive
    <2>3. UNCHANGED channel
        BY <1>4 DEF MarkRunning, Succeed, Fail, BackOff, Resent, DatabaseError, Panic
    <2> QED BY <2>1, <2>2, <2>3, WorkedItems
<1>5. ASSUME NEW t \in Items, Resend(t) PROVE ItemStep(u)
    <2>1. task[t] = "backoff"
        BY <1>5 DEF Resend
    <2>2. CASE ~Open
        <3>1. task' = [task EXCEPT ![t] = "over"] /\ UNCHANGED channel
            BY <1>5, <2>2 DEF Resend, End
        <3>2. StageRank(task[t]) < StageRank("over") /\ task[t] \in Alive
            BY <2>1 DEF StageRank, Alive
        <3> QED BY <3>1, <3>2, WorkedItems
    <2>3. CASE Open
        <3> DEFINE v == Retried(t)
        <3>1. v \in Items /\ v[1] = t[1] /\ v[2] = t[2] + 1 /\ v # t
            BY <2>1, ItemFacts, RetriedFacts DEF IInv
        <3>2. /\ channel' = Append(channel, v) /\ task'[t] = "resending"
              /\ \A k \in Items \ {t} : task'[k] = task[k]
            BY <1>0, <1>5, <2>3 DEF Resend, TypeOK
        <3>3. Queued' = Queued \cup {v} /\ t \notin Queued
            BY <1>0, <2>1, <3>1, <3>2, AppendFacts, QueueTypes DEF Queued
        <3>4. task[v] = "none"
            BY <2>1, <2>3, <3>1, ItemFacts DEF IInv, AttemptsFollow, HandsOn, Open
        <3>5. CASE u = t
            BY <2>1, <3>1, <3>2, <3>3, <3>5 DEF ItemStep, IsWorkedOn, StageRank, Alive
        <3>6. CASE u = v
            BY <2>1, <3>1, <3>2, <3>3, <3>4, <3>6 DEF ItemStep, Stays, IsSent
        <3>7. CASE u # t /\ u # v
            BY <3>2, <3>3, <3>7 DEF ItemStep, Stays
        <3> QED BY <3>5, <3>6, <3>7
    <2> QED BY <2>2, <2>3
<1>6. CASE Receive
    <2> DEFINE t == Head(channel)
    <2>1. /\ t \in Items /\ t \in Queued /\ Queued' = Queued \ {t}
          /\ task'[t] = "starting" /\ \A k \in Items \ {t} : task'[k] = task[k]
        BY <1>0, <1>6, TailFacts DEF IInv, TypeOK, ItemsAreNew, Queued, Receive
    <2>2. task[t] = "none"
        BY <2>1 DEF IInv, ItemsAreNew
    <2>3. CASE u = t
        BY <2>1, <2>2, <2>3 DEF ItemStep, IsReceived
    <2>4. CASE u # t
        BY <2>1, <2>4 DEF ItemStep, Stays
    <2> QED BY <2>3, <2>4
<1>7. CASE CloseQueue
    <2>1. Queued' \subseteq Queued /\ server' # server
        BY <1>0, <1>7, BufferFacts DEF IInv, ItemsAreNew, Queued, CloseQueue
    <2>2. \/ task'[u] = task[u]
          \/ task[u] = "resending" /\ task'[u] = "over"
          \/ task[u] = "handing" /\ task'[u] = "bounced"
        BY <1>0, <1>7 DEF CloseQueue, TypeOK
    <2>3. task[u] # "none" => u \notin Queued
        BY QueueTypes
    <2> QED BY <2>1, <2>2, <2>3 DEF ItemStep, Stays, IsWorkedOn, IsDropped, StageRank, Alive
<1>8. CASE Shutdown
    BY <1>8 DEF Shutdown, ItemStep, Stays, Queued
<1>9. CASE Drained \/ Exit
    <2>1. Queued' = {} /\ server' # server
        BY <1>9 DEF Drained, Exit, Queued, Range
    <2>2. task'[u] = task[u] \/ (task[u] \in Alive /\ task'[u] = "over")
        BY <1>0, <1>9 DEF Drained, Exit, Active, TypeOK
    <2>3. task[u] # "none" => u \notin Queued
        BY QueueTypes
    <2>4. task[u] \in Alive => task[u] # "none" /\ StageRank(task[u]) < StageRank("over")
        BY DEF Alive, StageRank
    <2> QED BY <2>1, <2>2, <2>3, <2>4 DEF ItemStep, Stays, IsWorkedOn, IsDropped
<1> QED BY <1>1, <1>2, <1>3, <1>4, <1>5, <1>6, <1>7, <1>8, <1>9
        DEF Next, LoopStep, TaskStep

-----------------------------------------------------------------------------
(* What a row says in the end                                              *)

Settled == {"done", "failed"}

\* A job whose row is settled has no attempt under way.
SettledRowsAreFinal ==
    \A j \in Jobs : row[j] \in Settled => ~UnderWay(j)

RowsAreSettledLast ==
    /\ SettledRowsAreFinal
    /\ \A j \in Jobs : origin[j] = "none" => row[j] = "absent"

\* A row that says done or failed never says anything else again.
RowsStaySettled ==
    [][\A j \in Jobs : row[j] \in Settled => row'[j] = row[j]]_vars

\* Nothing but its creation puts a job under way.
LEMMA UnderWayShrinks ==
    ASSUME IInv, Next, NEW j \in Jobs, origin[j] # "none", UnderWay(j)'
    PROVE  UnderWay(j)
<1>1. PICK a \in Attempts : <<j, a>> \in Queued' \/ task'[<<j, a>>] \in Alive \ {"resending"}
    BY DEF UnderWay, Queued
<1> DEFINE u == <<j, a>>
<1>2. u \in Items /\ u[1] = j
    BY ItemFacts
<1>3. ItemStep(u)
    BY <1>2, ItemsMove
<1>4. CASE Stays(u) \/ IsReceived(u) \/ IsDropped(u)
    BY <1>1, <1>4 DEF Stays, IsReceived, IsDropped, UnderWay, Queued
<1>5. CASE IsWorkedOn(u)
    <2>1. task'[u] \in Alive \ {"resending"}
        BY <1>1, <1>5 DEF IsWorkedOn
    <2>2. task[u] \in Alive \ {"resending"}
        BY <1>5, <2>1 DEF IsWorkedOn, StageRank, Alive
    <2> QED BY <2>2 DEF UnderWay
<1>6. CASE IsSent(u)
    <2>1. PICK t \in Items : task[t] = "backoff" /\ u = Retried(t)
        BY <1>2, <1>6 DEF IsSent
    <2>2. t[1] = j /\ t[2] \in Attempts /\ t = <<j, t[2]>>
        BY <1>2, <2>1, ItemFacts, RetriedFacts DEF IInv
    <2>3. task[<<j, t[2]>>] \in Alive \ {"resending"}
        BY <2>1, <2>2 DEF Alive
    <2> QED BY <2>2, <2>3 DEF UnderWay
<1> QED BY <1>3, <1>4, <1>5, <1>6 DEF ItemStep

\* The attempt that settles the row is the last one under way.
LEMMA LastAttempt ==
    ASSUME IInv, NEW t \in Items, task[t] \in Alive \ {"resending"}, NEW a \in Attempts,
           <<t[1], a>> \in Queued \/ task[<<t[1], a>>] \in Alive \ {"resending"}
    PROVE  <<t[1], a>> = t
<1> DEFINE u == <<t[1], a>>
<1>1. u \in Items /\ u[1] = t[1] /\ u[2] = a /\ t[2] \in Nat /\ a \in Nat /\ t = <<t[1], t[2]>>
    BY ItemFacts
<1>2. server # "exited"
    BY DEF IInv, ExitIsTheEnd
<1>3. task[u] \notin HandsOn /\ task[t] \notin HandsOn /\ task[t] # "none"
    BY <1>1 DEF HandsOn, Alive, IInv, ItemsAreNew
<1>4. u \in Queued \/ task[u] # "none"
    BY DEF Alive
<1>5. ~(t[2] < a) /\ ~(a < t[2])
    BY <1>1, <1>2, <1>3, <1>4 DEF IInv, AttemptsFollow
<1> QED BY <1>1, <1>5

\* Who writes the row of a job.
LEMMA RowWrites ==
    ASSUME IInv, Next, NEW j \in Jobs, row'[j] # row[j]
    PROVE  \/ origin[j] = "none" /\ row'[j] \in {"absent", "queued"}
           \/ \E t \in Items : /\ t[1] = j /\ task[t] \in Alive \ {"resending"}
                               /\ task' = [task EXCEPT ![t] = IF row'[j] = "running" THEN "working" ELSE "over"]
                               /\ UNCHANGED channel
<1>0. TypeOK
    BY DEF IInv
<1>1. ASSUME NEW i \in Jobs, NEW from, NEW r \in {"absent", "queued"}, Create(i, from, r)
      PROVE  origin[j] = "none" /\ row'[j] \in {"absent", "queued"}
    BY <1>0, <1>1 DEF Create, TypeOK
<1>2. ASSUME NEW t \in Items, MarkRunning(t) \/ Succeed(t) \/ Fail(t)
      PROVE  /\ t[1] = j /\ task[t] \in Alive \ {"resending"}
             /\ task' = [task EXCEPT ![t] = IF row'[j] = "running" THEN "working" ELSE "over"]
             /\ UNCHANGED channel
    <2>1. t[1] = j /\ row'[j] = (IF MarkRunning(t) THEN "running" ELSE row'[j])
        BY <1>0, <1>2, ItemFacts DEF TypeOK, MarkRunning, Succeed, Fail, SetRow
    <2>2. CASE MarkRunning(t)
        BY <2>1, <2>2 DEF MarkRunning, Alive
    <2>3. CASE Succeed(t) \/ Fail(t)
        <3>1. row'[j] # "running"
            BY <1>0, <2>1, <2>3, ItemFacts DEF TypeOK, Succeed, Fail, SetRow
        <3> QED BY <2>1, <2>3, <3>1 DEF Succeed, Fail, End, Alive
    <2> QED BY <1>2, <2>2, <2>3
<1>3. CASE \E i \in Jobs : EnqueueReview(i) \/ EnqueueListed(i) \/ \E r \in Reviews : PublishAfterApproval(i, r)
    BY <1>1, <1>3 DEF EnqueueReview, EnqueueListed, PublishAfterApproval
<1>4. CASE \E t \in Items, i \in Jobs : HandOver(t, i)
    BY <1>1, <1>4 DEF HandOver
<1>5. CASE \E t \in Items : MarkRunning(t) \/ Succeed(t) \/ Fail(t)
    BY <1>2, <1>5
<1>6. CASE \/ Receive \/ CloseQueue \/ Drained \/ Shutdown \/ Exit
           \/ \E t \in Items : BackOff(t) \/ Resend(t) \/ Resent(t) \/ DatabaseError(t) \/ Panic(t)
    BY <1>6 DEF Receive, CloseQueue, Drained, Shutdown, Exit, BackOff, Resend, Resent,
       DatabaseError, Panic
<1> QED BY <1>3, <1>4, <1>5, <1>6 DEF Next, LoopStep, TaskStep

LEMMA SettledStep ==
    ASSUME IInv, RowsAreSettledLast, Next
    PROVE  /\ RowsAreSettledLast'
           /\ \A j \in Jobs : row[j] \in Settled => row'[j] = row[j]
<1>1. ASSUME NEW j \in Jobs, row[j] \in Settled PROVE row'[j] = row[j] /\ ~UnderWay(j)'
    <2>1. origin[j] # "none" /\ ~UnderWay(j)
        BY <1>1 DEF RowsAreSettledLast, SettledRowsAreFinal, Settled
    <2>2. ASSUME NEW t \in Items, t[1] = j PROVE task[t] \notin Alive \ {"resending"}
        BY <2>1, <2>2, ItemFacts DEF UnderWay
    <2> QED BY <2>1, <2>2, RowWrites, UnderWayShrinks
<1>2. ASSUME NEW j \in Jobs, row[j] \notin Settled, row'[j] \in Settled PROVE ~UnderWay(j)'
    <2>1. PICK t \in Items : /\ t[1] = j /\ task[t] \in Alive \ {"resending"}
                             /\ task' = [task EXCEPT ![t] = "over"]
                             /\ UNCHANGED channel
        BY <1>2, RowWrites DEF Settled
    <2>2. Queued' = Queued /\ task'[t] = "over" /\ \A u \in Items \ {t} : task'[u] = task[u]
        BY <2>1 DEF Queued, IInv, TypeOK
    <2>3. ASSUME NEW a \in Attempts, <<j, a>> \in Queued' \/ task'[<<j, a>>] \in Alive \ {"resending"}
          PROVE  FALSE
        <3>1. <<j, a>> # t
            BY <2>1, <2>2, <2>3, QueueTypes DEF Alive
        <3>2. <<j, a>> \in Queued \/ task[<<j, a>>] \in Alive \ {"resending"}
            BY <2>2, <2>3, <3>1, ItemFacts
        <3> QED BY <2>1, <3>1, <3>2, LastAttempt
    <2> QED BY <2>3 DEF UnderWay, Queued
<1>3. ASSUME NEW j \in Jobs, origin'[j] = "none" PROVE row'[j] = "absent"
    <2>1. origin[j] = "none"
        BY <1>3 DEF IInv, TypeOK, Next, LoopStep, TaskStep, EnqueueReview, EnqueueListed,
           PublishAfterApproval, Create, Receive, CloseQueue, Drained, Shutdown, Exit, MarkRunning,
           Succeed, Fail, BackOff, Resend, Resent, HandOver, DatabaseError, Panic
    <2>2. row[j] = "absent"
        BY <2>1 DEF RowsAreSettledLast
    <2>3. ASSUME NEW t \in Items, t[1] = j PROVE task[t] \notin Alive
        BY <2>1, <2>3, ItemFacts DEF IInv, NewJobsAreFresh, Alive
    <2>4. CASE \E i \in Jobs, from \in Origins \ {"none"}, r \in {"absent", "queued"} : Create(i, from, r)
        BY <1>3, <2>2, <2>4 DEF Create, IInv, TypeOK
    <2>5. CASE UNCHANGED row
        BY <2>2, <2>5
    <2>6. CASE \E t \in Items, r \in {"running", "done", "failed"} : SetRow(t, r)
        BY <2>2, <2>6, ItemFacts DEF SetRow, IInv, TypeOK
    <2> QED BY <2>4, <2>5, <2>6 DEF Next, LoopStep, TaskStep, EnqueueReview, EnqueueListed, Origins,
               PublishAfterApproval, Receive, CloseQueue, Drained, Shutdown, Exit, MarkRunning,
               Succeed, Fail, BackOff, Resend, Resent, HandOver, DatabaseError, Panic
<1> QED BY <1>1, <1>2, <1>3 DEF RowsAreSettledLast, SettledRowsAreFinal

\* Whatever is retried, refused, dropped or broken: once a row says how its job
\* ended no attempt of the job is under way, and the row is not written again.
THEOREM SettledRowsStand == Spec => []SettledRowsAreFinal /\ RowsStaySettled
<1>1. Init => RowsAreSettledLast
    BY DEF Init, RowsAreSettledLast, SettledRowsAreFinal, Settled
<1>2. IInv /\ RowsAreSettledLast /\ [Next]_vars => RowsAreSettledLast'
    <2>1. CASE UNCHANGED vars
        BY <2>1 DEF vars, RowsAreSettledLast, SettledRowsAreFinal, UnderWay
    <2> QED BY <2>1, SettledStep
<1>3. /\ IInv /\ RowsAreSettledLast /\ [Next]_vars
      => [\A j \in Jobs : row[j] \in Settled => row'[j] = row[j]]_vars
    BY SettledStep
<1>4. RowsAreSettledLast => SettledRowsAreFinal
    BY DEF RowsAreSettledLast
<1> QED BY <1>1, <1>2, <1>3, <1>4, Inductive, PTL DEF Spec, RowsStaySettled

-----------------------------------------------------------------------------
(* The queue gets on                                                       *)

ServerRank ==
    CASE server = "serving"  -> 0
      [] server = "stopping" -> 1
      [] server = "draining" -> 2
      [] server = "drained"  -> 3
      [] OTHER               -> 4

ItemRank(u) == IF u \in Queued THEN 1 ELSE StageRank(task[u])

NothingFallsBack ==
    /\ \A j \in Jobs : origin[j] # "none" => origin'[j] # "none"
    /\ \A u \in Items : ItemRank(u) <= ItemRank(u)'

SomethingAdvances ==
    \/ \E j \in Jobs : origin[j] = "none" /\ origin'[j] # "none"
    \/ \E u \in Items : ItemRank(u) < ItemRank(u)'

\* Every step creates a job, takes an item further, or stops the server, the
\* only thing that takes an item out of the queue without working on it.
Advances ==
    \/ ServerRank < ServerRank'
    \/ ServerRank' = ServerRank /\ NothingFallsBack /\ SomethingAdvances
QueueAdvances == [][Advances]_vars

RanksAreBounded == ServerRank \in 0..4 /\ \A u \in Items : ItemRank(u) \in 0..6

LEMMA StageRanks == \A s : StageRank(s) \in {0, 2, 3, 4, 5, 6}
BY DEF StageRank

LEMMA ItemsAdvance ==
    ASSUME IInv, Next, NEW u \in Items, server' = server
    PROVE  /\ ItemRank(u) <= ItemRank(u)'
           /\ ~Stays(u) => ItemRank(u) < ItemRank(u)' \/ IsSent(u)
<1>1. CASE Stays(u)
    BY <1>1, StageRanks DEF Stays, ItemRank
<1>2. CASE IsSent(u)
    BY <1>2 DEF IsSent, ItemRank, StageRank
<1>3. CASE IsReceived(u)
    BY <1>3 DEF IsReceived, ItemRank, StageRank
<1>4. CASE IsWorkedOn(u)
    <2>1. ItemRank(u) = StageRank(task[u]) /\ ItemRank(u)' = StageRank(task'[u])
        BY <1>4 DEF IsWorkedOn, ItemRank
    <2> QED BY <1>4, <2>1, StageRanks DEF IsWorkedOn
<1> QED BY <1>1, <1>2, <1>3, <1>4, ItemsMove DEF ItemStep, IsDropped

LEMMA StepAdvances ==
    ASSUME IInv, Next
    PROVE  Advances
<1>1. CASE server' # server
    <2>1. CloseQueue \/ Drained \/ Shutdown \/ Exit
        BY <1>1 DEF Next, LoopStep, TaskStep, EnqueueReview, EnqueueListed, PublishAfterApproval,
           Receive, MarkRunning, Succeed, Fail, BackOff, Resend, Resent, HandOver, DatabaseError,
           Panic
    <2> QED BY <2>1 DEF CloseQueue, Drained, Shutdown, Exit, Advances, ServerRank
<1>2. CASE server' = server
    <2>1. \A u \in Items : ItemRank(u) <= ItemRank(u)'
        BY <1>2, ItemsAdvance
    <2>2. \A j \in Jobs : origin[j] # "none" => origin'[j] # "none"
        <3>1. CASE \E i \in Jobs, from \in Origins \ {"none"}, r \in {"absent", "queued"} : Create(i, from, r)
            BY <3>1 DEF Create, IInv, TypeOK
        <3>2. CASE UNCHANGED origin
            BY <3>2
        <3> QED BY <3>1, <3>2 DEF Next, LoopStep, TaskStep, EnqueueReview, EnqueueListed, Origins,
                   PublishAfterApproval, Receive, CloseQueue, Drained, Shutdown, Exit, MarkRunning,
                   Succeed, Fail, BackOff, Resend, Resent, HandOver, DatabaseError, Panic
    <2>3. SomethingAdvances
        <3>1. CASE \E i \in Jobs, from \in Origins \ {"none"}, r \in {"absent", "queued"} : Create(i, from, r)
            BY <3>1 DEF Create, IInv, TypeOK, SomethingAdvances
        <3>2. ASSUME NEW t \in Items, task'[t] # task[t] PROVE SomethingAdvances
            <4>1. ~Stays(t) /\ ~IsSent(t)
                BY <3>2 DEF Stays, IsSent
            <4> QED BY <1>2, <4>1, ItemsAdvance DEF SomethingAdvances
        <3>3. CASE Receive
            <4>1. Head(channel) \in Items /\ Head(channel) \in Queued
                BY <3>3, QueueTypes, TailFacts DEF Receive, Queued, IInv, ItemsAreNew
            <4>2. task[Head(channel)] = "none" /\ task'[Head(channel)] = "starting"
                BY <3>3, <4>1 DEF Receive, IInv, ItemsAreNew, TypeOK
            <4> QED BY <3>2, <4>1, <4>2
        <3>4. ASSUME NEW t \in Items,
                     \/ MarkRunning(t) \/ Succeed(t) \/ Fail(t) \/ BackOff(t) \/ Resend(t) \/ Resent(t)
                     \/ DatabaseError(t) \/ Panic(t)
              PROVE  task'[t] # task[t]
            BY <3>4 DEF MarkRunning, Succeed, Fail, BackOff, Resend, Resent, DatabaseError, Panic,
               End, IInv, TypeOK
        <3>5. ~(CloseQueue \/ Drained \/ Shutdown \/ Exit)
            BY <1>2 DEF CloseQueue, Drained, Shutdown, Exit
        <3> QED BY <3>1, <3>2, <3>3, <3>4, <3>5 DEF Next, LoopStep, TaskStep, EnqueueReview,
                   EnqueueListed, Origins, PublishAfterApproval, HandOver
    <2> QED BY <1>2, <2>1, <2>2, <2>3 DEF Advances, NothingFallsBack, ServerRank
<1> QED BY <1>1, <1>2

\* The jobs that are sent are worked on in a bounded number of steps, faults,
\* retries and a shutdown included: what JobsSettle and ShutdownDrains need
\* besides fairness and a step to take, which a wedged queue does not have.
THEOREM EveryStepAdvances == Spec => []RanksAreBounded /\ QueueAdvances
<1>1. IInv => RanksAreBounded
    BY StageRanks DEF RanksAreBounded, ServerRank, ItemRank
<1>2. IInv /\ [Next]_vars => [Advances]_vars
    BY StepAdvances
<1> QED BY <1>1, <1>2, Inductive, PTL DEF Spec, QueueAdvances

============================================================================

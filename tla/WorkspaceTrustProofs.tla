-------------------------- MODULE WorkspaceTrustProofs --------------------------
(* Machine-checked proofs about the workspace trust ledger, for any           *)
(* environments, paths, repositories and transactions.                        *)
EXTENDS WorkspaceTrust, SequenceTheorems, TLAPS

Statuses == {"active", "lapsed", "revoked"}

\* The histories are sequences of statuses.
LEMMA HistoriesAreSequences == Histories \subseteq Seq(Statuses)
<1>1. <<"active">> \in Seq(Statuses)
  BY DEF Statuses
<1>2. /\ <<"active", "revoked">> \in Seq(Statuses)
      /\ <<"active", "lapsed">> \in Seq(Statuses)
  BY DEF Statuses
<1>3. <<"active", "lapsed", "revoked">> \in Seq(Statuses)
  BY DEF Statuses
<1> QED BY <1>1, <1>2, <1>3 DEF Histories

\* Appending to a history of one or two states.
LEMMA AppendOne ==
    ASSUME NEW s \in Statuses
    PROVE  Append(<<"active">>, s) = <<"active", s>>
<1>1. <<"active">> \in Seq(Statuses) /\ <<"active", s>> \in Seq(Statuses)
  BY DEF Statuses
<1>2. Len(<<"active">>) = 1 /\ Len(<<"active", s>>) = 2
  OBVIOUS
<1>3. Append(<<"active">>, s) \in Seq(Statuses) /\ Len(Append(<<"active">>, s)) = 2
  BY <1>1, <1>2
<1>4. \A i \in 1 .. 2 : Append(<<"active">>, s)[i] = <<"active", s>>[i]
  BY <1>1, <1>2
<1> QED BY <1>1, <1>2, <1>3, <1>4, SeqEqual

LEMMA AppendTwo ==
    Append(<<"active", "lapsed">>, "revoked") = <<"active", "lapsed", "revoked">>
<1> DEFINE h == <<"active", "lapsed">>
           k == <<"active", "lapsed", "revoked">>
<1>1. h \in Seq(Statuses) /\ k \in Seq(Statuses) /\ "revoked" \in Statuses
  BY DEF Statuses
<1>2. Len(h) = 2 /\ Len(k) = 3
  OBVIOUS
<1>3. Append(h, "revoked") \in Seq(Statuses) /\ Len(Append(h, "revoked")) = 3
  BY <1>1, <1>2
<1>4. \A i \in 1 .. 3 : Append(h, "revoked")[i] = k[i]
  BY <1>1, <1>2
<1> QED BY <1>1, <1>2, <1>3, <1>4, SeqEqual

\* What a transition does to a history: it is appended where it counts.
LEMMA HistoryFacts ==
    ASSUME NEW h \in Histories
    PROVE  /\ h \in Seq(Statuses)
           /\ h[Len(h)] = "active" => /\ Append(h, "lapsed") \in Histories
                                      /\ Append(h, "revoked") \in Histories
           /\ h[Len(h)] = "lapsed" => Append(h, "revoked") \in Histories
<1>0. h \in Seq(Statuses)
  BY HistoriesAreSequences
<1>1. CASE h = <<"active">>
  <2>1. Len(h) = 1 /\ h[1] = "active"
    BY <1>1
  <2>2. Append(h, "lapsed") = <<"active", "lapsed">>
    BY <1>1, AppendOne DEF Statuses
  <2>3. Append(h, "revoked") = <<"active", "revoked">>
    BY <1>1, AppendOne DEF Statuses
  <2> QED BY <1>0, <2>1, <2>2, <2>3 DEF Histories
<1>2. CASE h = <<"active", "revoked">>
  <2>1. Len(h) = 2 /\ h[2] = "revoked"
    BY <1>2
  <2> QED BY <1>0, <2>1
<1>3. CASE h = <<"active", "lapsed">>
  <2>1. Len(h) = 2 /\ h[2] = "lapsed"
    BY <1>3
  <2>2. Append(h, "revoked") = <<"active", "lapsed", "revoked">>
    BY <1>3, AppendTwo
  <2> QED BY <1>0, <2>1, <2>2 DEF Histories
<1>4. CASE h = <<"active", "lapsed", "revoked">>
  <2>1. Len(h) = 3 /\ h[3] = "revoked"
    BY <1>4
  <2> QED BY <1>0, <2>1
<1> QED BY <1>1, <1>2, <1>3, <1>4 DEF Histories

\* A prefix of a history is what the history was before.
Extends(s, r) == /\ Provenance(s) = Provenance(r)
                 /\ Len(r.states) <= Len(s.states)
                 /\ SubSeq(s.states, 1, Len(r.states)) = r.states

LEMMA ExtendsItself ==
    ASSUME NEW r \in Records
    PROVE  Extends(r, r)
<1>1. r.states \in Histories
  BY DEF Records
<1>2. r.states \in Seq(Statuses)
  BY <1>1, HistoriesAreSequences
<1>3. SubSeq(r.states, 1, Len(r.states)) = r.states
  BY <1>2, SubSeqFull
<1>4. Len(r.states) <= Len(r.states)
  BY <1>2, LenProperties
<1> QED BY <1>3, <1>4 DEF Extends

\* A transition withdraws authority and keeps everything else of the record.
LEMMA TransitionFacts ==
    ASSUME NEW r \in Records, NEW s \in {"lapsed", "revoked"}
    PROVE  LET q == Transition(r, s) IN
           /\ q \in Records
           /\ Status(q) # "active"
           /\ q.transaction = r.transaction /\ q.environment = r.environment
           /\ q.path = r.path /\ q.event = r.event /\ q.repository = r.repository
           /\ Extends(q, r)
<1> DEFINE q == Transition(r, s)
<1>1. r.states \in Histories
  BY DEF Records
<1>2. CASE Status(r) = "active" \/ (Status(r) = "lapsed" /\ s = "revoked")
  <2>1. q = [r EXCEPT !.states = Append(r.states, s)]
    BY <1>2 DEF Transition
  <2>2. Append(r.states, s) \in Histories
    BY <1>1, <1>2, HistoryFacts DEF Status
  <2>3. q \in Records
    BY <2>1, <2>2 DEF Records
  <2>4. q.states = Append(r.states, s)
    BY <2>1 DEF Records
  <2>5. r.states \in Seq(Statuses) /\ s \in Statuses
    BY <1>1, HistoriesAreSequences DEF Statuses
  <2>6. Status(q) = s
    BY <2>4, <2>5 DEF Status
  <2>7. /\ q.transaction = r.transaction /\ q.environment = r.environment
        /\ q.path = r.path /\ q.event = r.event /\ q.repository = r.repository
    BY <2>1 DEF Records
  <2>8. Provenance(q) = Provenance(r)
    BY <2>7 DEF Provenance
  <2>9. Len(r.states) <= Len(q.states)
    BY <2>4, <2>5
  <2>10. SubSeq(q.states, 1, Len(r.states)) = r.states
    BY <2>4, <2>5
  <2> QED BY <2>3, <2>6, <2>7, <2>8, <2>9, <2>10 DEF Extends
<1>3. CASE ~(Status(r) = "active" \/ (Status(r) = "lapsed" /\ s = "revoked"))
  <2>1. q = r
    BY <1>3 DEF Transition
  <2>2. Status(q) # "active"
    BY <2>1, <1>3
  <2> QED BY <2>1, <2>2, ExtendsItself
<1> QED BY <1>2, <1>3

--------------------------------------------------------------------------------
\* Every record comes from a committed transaction.
Committed == \A r \in records : r.transaction \in transactions

\* A transaction is one event, in all its environments.
OneEvent == \A r, s \in records : r.transaction = s.transaction => r.event = s.event

IInv == /\ TypeOK
        /\ RecordsValid
        /\ Committed
        /\ OneEvent
        /\ ConsentRecordedOnce
        /\ ReferencesBacked
        /\ AuthorizedAsObserved

\* The records after those of H made a transition.
Moved(H, status) == {IF r \in H THEN Transition(r, status) ELSE r : r \in records}

\* What every withdrawal shares: authority is lost by exactly the records of H,
\* and nothing else of any record changes.
LEMMA Withdrawal ==
    ASSUME IInv, transactions' = transactions,
           NEW H \in SUBSET records, NEW s \in {"lapsed", "revoked"},
           records' = Moved(H, s)
    PROVE  /\ records' \subseteq Records
           /\ RecordsValid' /\ Committed' /\ OneEvent' /\ ConsentRecordedOnce'
           /\ Active' = Active \ H
           /\ \A r \in records : \E q \in records' : Extends(q, r)
<1> DEFINE After(r) == IF r \in H THEN Transition(r, s) ELSE r
<1>0. records' = {After(r) : r \in records}
  BY DEF Moved
<1>1. records \subseteq Records
  BY DEF IInv, TypeOK
<1>2. ASSUME NEW r \in records
      PROVE  /\ After(r) \in Records
             /\ After(r).transaction = r.transaction
             /\ After(r).environment = r.environment
             /\ After(r).path = r.path /\ After(r).event = r.event
             /\ After(r).repository = r.repository
             /\ Extends(After(r), r)
             /\ r \in H => Status(After(r)) # "active"
             /\ r \notin H => After(r) = r
  <2>1. r \in Records
    BY <1>1
  <2>2. CASE r \in H
    <3>1. After(r) = Transition(r, s)
      BY <2>2
    <3> HIDE DEF After
    <3> QED BY <2>1, <2>2, <3>1, TransitionFacts
  <2>3. CASE r \notin H
    <3>1. After(r) = r
      BY <2>3
    <3> HIDE DEF After
    <3> QED BY <2>1, <2>3, <3>1, ExtendsItself
  <2> QED BY <2>2, <2>3
<1> HIDE DEF After
<1>3. records' \subseteq Records
  BY <1>0, <1>2
<1>4. RecordsValid'
  BY <1>0, <1>2 DEF IInv, RecordsValid
<1>5. Committed' /\ OneEvent'
  BY <1>0, <1>2 DEF IInv, Committed, OneEvent
<1>6. ConsentRecordedOnce'
  <2> SUFFICES ASSUME NEW q \in records', NEW u \in records',
                      q.transaction = u.transaction, q.environment = u.environment
               PROVE  q = u
    BY DEF ConsentRecordedOnce
  <2>1. PICK r \in records : q = After(r)
    BY <1>0
  <2>2. PICK v \in records : u = After(v)
    BY <1>0
  <2>3. r = v
    BY <2>1, <2>2, <1>2 DEF IInv, ConsentRecordedOnce
  <2> QED BY <2>1, <2>2, <2>3
<1>7. Active' = Active \ H
  <2>1. \A q \in Active' : q \in Active \ H
    BY <1>0, <1>2 DEF Active
  <2>2. \A r \in Active \ H : r \in Active'
    BY <1>0, <1>2 DEF Active
  <2> QED BY <2>1, <2>2
<1>8. \A r \in records : \E q \in records' : Extends(q, r)
  BY <1>0, <1>2
<1> QED BY <1>3, <1>4, <1>5, <1>6, <1>7, <1>8

--------------------------------------------------------------------------------
\* The records a consent event adds.
Granted(t, envs, event, path, repository) ==
    {[transaction |-> t, environment |-> e, path |-> path, event |-> event,
      repository |-> repository, states |-> <<"active">>] : e \in envs}

\* What every consent event shares.
LEMMA Consenting ==
    ASSUME IInv, NEW t \in Transactions, NEW envs \in SUBSET Environments,
           NEW event \in Events, NEW path \in Paths, NEW repository \in Repositories,
           path # Home, repository # None => Within(path, repository.root),
           event = "implicit-bind" => repository # None /\ path = repository.root,
           Commit(t, envs, event, path, repository)
    PROVE  /\ records' \subseteq Records
           /\ transactions' \subseteq Transactions
           /\ RecordsValid' /\ Committed' /\ OneEvent' /\ ConsentRecordedOnce'
           /\ Active' = Active \union Granted(t, envs, event, path, repository)
           /\ \A r \in records : \E q \in records' : Extends(q, r)
<1> DEFINE N == Granted(t, envs, event, path, repository)
<1>1. /\ records' = records \union N
      /\ transactions' = transactions \union {t}
      /\ t \notin transactions
  BY DEF Commit, Fresh, Granted
<1>2. records \subseteq Records /\ transactions \subseteq Transactions
  BY DEF IInv, TypeOK
<1>3. ASSUME NEW n \in N
      PROVE  /\ n \in Records
             /\ n.transaction = t /\ n.environment \in envs /\ n.path = path
             /\ n.event = event /\ n.repository = repository
             /\ Status(n) = "active"
             /\ n = [transaction |-> t, environment |-> n.environment, path |-> path,
                     event |-> event, repository |-> repository, states |-> <<"active">>]
  <2>1. PICK e \in envs :
           n = [transaction |-> t, environment |-> e, path |-> path, event |-> event,
                repository |-> repository, states |-> <<"active">>]
    BY DEF Granted
  <2>2. n.states = <<"active">> /\ <<"active">> \in Histories
    BY <2>1 DEF Histories
  <2>3. Status(n) = "active"
    BY <2>2 DEF Status
  <2>4. n.environment = e
    BY <2>1
  <2>5. n \in Records
    BY <2>1, <2>2 DEF Records
  <2> QED BY <2>1, <2>3, <2>4, <2>5
<1> HIDE DEF N
<1>4. records' \subseteq Records /\ transactions' \subseteq Transactions
  BY <1>1, <1>2, <1>3
<1>5. RecordsValid'
  BY <1>1, <1>3 DEF IInv, RecordsValid
<1>6. Committed' /\ OneEvent'
  BY <1>1, <1>3 DEF IInv, Committed, OneEvent
<1>7. ConsentRecordedOnce'
  BY <1>1, <1>3 DEF IInv, Committed, ConsentRecordedOnce
<1>8. Active' = Active \union N
  BY <1>1, <1>3 DEF Active
<1>9. \A r \in records : \E q \in records' : Extends(q, r)
  BY <1>1, <1>2, ExtendsItself
<1> QED BY <1>4, <1>5, <1>6, <1>7, <1>8, <1>9 DEF N

--------------------------------------------------------------------------------
\* What a step has to show once one of the two lemmas has spoken.
Held == /\ records' \subseteq Records
        /\ RecordsValid' /\ Committed' /\ OneEvent' /\ ConsentRecordedOnce'
        /\ \A r \in records : \E q \in records' : Extends(q, r)

Stays == IInv' /\ Held

\* A grant, by hand or by a launch.
LEMMA GrantStep ==
    ASSUME IInv, NEW t \in Transactions, NEW envs \in SUBSET Environments,
           NEW path \in Paths, NEW repository \in Repositories,
           NEW event \in {"explicit-grant", "implicit-launch"},
           Grant(event, t, envs, path, repository)
    PROVE  Stays
<1>1. /\ path # Home
      /\ repository # None => Within(path, repository.root)
      /\ Commit(t, envs, event, path, repository)
      /\ bindings' = bindings
  BY DEF Grant, Admitted
<1>2. event \in Events /\ event # "implicit-bind"
  BY DEF Events
<1>3. /\ Held
      /\ transactions' \subseteq Transactions
      /\ Active' = Active \union Granted(t, envs, event, path, repository)
  BY <1>1, <1>2, Consenting DEF Held
<1>4. pendingCleanup' = pendingCleanup /\ answer' = None
  BY <1>1 DEF Commit
<1>5. TypeOK'
  BY <1>1, <1>3, <1>4 DEF Held, IInv, TypeOK
<1>6. ReferencesBacked'
  BY <1>1, <1>2, <1>3 DEF Granted, IInv, ReferencesBacked
<1>7. AuthorizedAsObserved'
  BY <1>4 DEF AuthorizedAsObserved
<1> QED BY <1>3, <1>5, <1>6, <1>7 DEF Held, IInv, Stays

LEMMA BindStep ==
    ASSUME IInv, NEW t \in Transactions, NEW envs \in SUBSET Environments,
           NEW source \in Paths, NEW repository \in Repositories,
           Bind(t, envs, source, repository)
    PROVE  Stays
<1>1. /\ repository # None
      /\ repository.root # Home
      /\ Commit(t, envs, "implicit-bind", repository.root, repository)
      /\ bindings' = bindings \union {t}
  BY DEF Bind, Admitted
<1>2. repository \in Identities /\ repository.root \in Paths
  BY <1>1, Directories DEF Repositories, Identities
<1>3. Within(repository.root, repository.root)
  BY <1>2, Directories DEF Within
<1>4. "implicit-bind" \in Events
  BY DEF Events
<1>5. /\ Held
      /\ transactions' \subseteq Transactions
      /\ Active' = Active \union
                      Granted(t, envs, "implicit-bind", repository.root, repository)
  BY <1>1, <1>2, <1>3, <1>4, Consenting DEF Held
<1>6. pendingCleanup' = pendingCleanup /\ answer' = None
  BY <1>1 DEF Commit
<1>7. TypeOK'
  BY <1>1, <1>5, <1>6 DEF Held, IInv, TypeOK
<1>8. ReferencesBacked'
  BY <1>1, <1>5 DEF Granted, IInv, ReferencesBacked
<1>9. AuthorizedAsObserved'
  BY <1>6 DEF AuthorizedAsObserved
<1> QED BY <1>5, <1>7, <1>8, <1>9 DEF Held, IInv, Stays

LEMMA BindingRemoveStep ==
    ASSUME IInv, NEW t \in Transactions, BindingRemove(t)
    PROVE  Stays
<1> DEFINE H == {r \in records : Bound(r, t)}
<1>1. /\ records' = {IF Bound(r, t) THEN Transition(r, "revoked") ELSE r : r \in records}
      /\ bindings' = bindings \ {t}
      /\ transactions' = transactions
      /\ pendingCleanup' = pendingCleanup /\ answer' = None
  BY DEF BindingRemove
<1>2. records' = Moved(H, "revoked")
  BY <1>1 DEF Moved
<1>3. Held /\ Active' = Active \ H
  BY <1>1, <1>2, Withdrawal DEF Held
<1>4. TypeOK'
  BY <1>1, <1>3 DEF Held, IInv, TypeOK
<1>5. ReferencesBacked'
  BY <1>1, <1>3 DEF Active, Bound, IInv, ReferencesBacked
<1>6. AuthorizedAsObserved'
  BY <1>1 DEF AuthorizedAsObserved
<1> QED BY <1>3, <1>4, <1>5, <1>6 DEF Held, IInv, Stays

LEMMA RemoveStep ==
    ASSUME IInv, NEW e \in Environments, NEW path \in Paths,
           NEW cleanup \in {"ok", "unreadable"}, Remove(e, path, cleanup)
    PROVE  Stays
<1> DEFINE H == {r \in records : ScopeMatches(r, e, path)}
<1>1. /\ records' = {IF ScopeMatches(r, e, path) THEN Transition(r, "revoked") ELSE r :
                        r \in records}
      /\ bindings' = bindings /\ transactions' = transactions
      /\ pendingCleanup' \in BOOLEAN /\ answer' = None
  BY DEF Remove
<1>2. records' = Moved(H, "revoked")
  BY <1>1 DEF Moved
<1>3. Held /\ Active' = Active \ H
  BY <1>1, <1>2, Withdrawal DEF Held
<1>4. TypeOK'
  BY <1>1, <1>3 DEF Held, IInv, TypeOK
<1>5. ReferencesBacked'
  BY <1>1, <1>3 DEF IInv, ReferencesBacked
<1>6. AuthorizedAsObserved'
  BY <1>1 DEF AuthorizedAsObserved
<1> QED BY <1>3, <1>4, <1>5, <1>6 DEF Held, IInv, Stays

\* A resolution, an update or a repair.
LEMMA RecheckStep ==
    ASSUME IInv, NEW e \in Environments, NEW path \in Paths,
           NEW repository \in Repositories, Recheck(e, path, repository),
           pendingCleanup' \in BOOLEAN
    PROVE  Stays
<1> DEFINE scope == {r \in Active : ScopeMatches(r, e, path)}
           kept  == {r \in scope : SameIdentity(r.repository, repository)}
           H == scope \ kept
           ans == [environment |-> e, path |-> path, repository |-> repository]
<1>1. /\ records' = {IF r \in H THEN Transition(r, "lapsed") ELSE r : r \in records}
      /\ bindings' = bindings /\ transactions' = transactions
      /\ answer' = IF kept = {} THEN None ELSE ans
  BY DEF Recheck
<1>2. records' = Moved(H, "lapsed") /\ H \in SUBSET records
  BY <1>1 DEF Moved, Active
<1>3. Held /\ Active' = Active \ H
  BY <1>1, <1>2, Withdrawal DEF Held
<1>4. ans \in Answers
  BY DEF Answers
<1>5. TypeOK'
  <2>1. answer' \in Answers \union {None}
    BY <1>1, <1>4
  <2> QED BY <1>1, <1>3, <2>1 DEF Held, IInv, TypeOK
<1>6. ReferencesBacked'
  BY <1>1, <1>3 DEF IInv, ReferencesBacked
<1>7. AuthorizedAsObserved'
  <2>1. CASE kept = {}
    BY <1>1, <2>1 DEF AuthorizedAsObserved
  <2>2. CASE kept # {}
    <3>1. answer' = ans
      BY <1>1, <2>2
    <3>2. /\ answer'.environment = e /\ answer'.path = path
          /\ answer'.repository = repository
      BY <3>1
    <3>3. {r \in Active' : ScopeMatches(r, e, path)} = kept
      BY <1>3
    <3>4. \A r \in kept : r.repository = repository
      BY DEF SameIdentity
    <3> QED BY <3>2, <3>3, <3>4, <2>2 DEF AuthorizedAsObserved
  <2> QED BY <2>1, <2>2
<1> QED BY <1>3, <1>5, <1>6, <1>7 DEF Held, IInv, Stays

\* The invariant holds, and no step loses a record or its history.
LEMMA Step ==
    ASSUME IInv, [Next]_vars
    PROVE  Stays
<1>1. CASE Next
  <2>1. CASE \E t \in Transactions, envs \in SUBSET Environments, p \in Paths,
                repository \in Repositories :
                \/ Add(t, envs, p, repository)
                \/ Launch(t, envs, p, repository)
                \/ Bind(t, envs, p, repository)
    BY <2>1, GrantStep, BindStep DEF Add, Launch
  <2>2. CASE \E t \in Transactions : BindingRemove(t)
    BY <2>2, BindingRemoveStep
  <2>3. CASE \E e \in Environments, p \in Paths, cleanup \in {"ok", "unreadable"} :
                Remove(e, p, cleanup)
    BY <2>3, RemoveStep
  <2>4. CASE \E e \in Environments, p \in Paths, repository \in Repositories :
                Resolve(e, p, repository) \/ Repair(e, p, repository)
    <3>1. pendingCleanup \in BOOLEAN
      BY DEF IInv, TypeOK
    <3> QED BY <2>4, <3>1, RecheckStep DEF Resolve, Repair
  <2>5. CASE Other
    <3>1. /\ records' = records /\ bindings' = bindings
          /\ transactions' = transactions /\ pendingCleanup' = pendingCleanup
          /\ answer' = None
      BY <2>5 DEF Other
    <3>2. IInv'
      BY <3>1 DEF IInv, TypeOK, RecordsValid, Committed, OneEvent, ConsentRecordedOnce,
                  ReferencesBacked, Active, AuthorizedAsObserved
    <3>3. \A r \in records : \E q \in records' : Extends(q, r)
      BY <3>1, ExtendsItself DEF IInv, TypeOK
    <3> QED BY <3>2, <3>3 DEF Held, IInv, TypeOK, Stays
  <2> QED BY <1>1, <2>1, <2>2, <2>3, <2>4, <2>5 DEF Next
<1>2. CASE UNCHANGED vars
  <2>1. /\ records' = records /\ bindings' = bindings
        /\ transactions' = transactions /\ pendingCleanup' = pendingCleanup
        /\ answer' = answer
    BY <1>2 DEF vars
  <2>2. IInv'
    BY <2>1 DEF IInv, TypeOK, RecordsValid, Committed, OneEvent, ConsentRecordedOnce,
                ReferencesBacked, Active, AuthorizedAsObserved
  <2>3. \A r \in records : \E q \in records' : Extends(q, r)
    BY <2>1, ExtendsItself DEF IInv, TypeOK
  <2> QED BY <2>2, <2>3 DEF Held, IInv, TypeOK, Stays
<1> QED BY <1>1, <1>2

--------------------------------------------------------------------------------
LEMMA InvInit == Init => IInv
<1> SUFFICES ASSUME Init PROVE IInv
  OBVIOUS
<1> QED BY DEF Init, IInv, TypeOK, RecordsValid, Committed, OneEvent,
               ConsentRecordedOnce, ReferencesBacked, Active, AuthorizedAsObserved

LEMMA Invariant == Spec => []IInv
<1>1. IInv /\ [Next]_vars => IInv'
  BY Step DEF Stays
<1> QED BY <1>1, InvInit, PTL DEF Spec

\* Type correctness of the ledger.
THEOREM TypeCorrect == Spec => []TypeOK
<1>1. IInv => TypeOK
  BY DEF IInv
<1> QED BY <1>1, Invariant, PTL

\* Every record the oracle makes is one that its reader accepts.
THEOREM RecordsSafety == Spec => []RecordsValid
<1>1. IInv => RecordsValid
  BY DEF IInv
<1> QED BY <1>1, Invariant, PTL

\* Retries never record a consent twice.
THEOREM OnceSafety == Spec => []ConsentRecordedOnce
<1>1. IInv => ConsentRecordedOnce
  BY DEF IInv
<1> QED BY <1>1, Invariant, PTL

\* No reference gives authority without its binding.
THEOREM ReferenceSafety == Spec => []ReferencesBacked
<1>1. IInv => ReferencesBacked
  BY DEF IInv
<1> QED BY <1>1, Invariant, PTL

\* Authority rests on the repository that was observed.
THEOREM IdentitySafety == Spec => []AuthorizedAsObserved
<1>1. IInv => AuthorizedAsObserved
  BY DEF IInv
<1> QED BY <1>1, Invariant, PTL

\* The ledger only grows: no record is lost and no history rewritten.
THEOREM HistorySafety == Spec => ProvenanceKept
<1> DEFINE Kept == \A r \in records : \E s \in records' :
                      /\ Provenance(s) = Provenance(r)
                      /\ Len(r.states) <= Len(s.states)
                      /\ SubSeq(s.states, 1, Len(r.states)) = r.states
<1>1. IInv /\ [Next]_vars => Kept
  BY Step DEF Stays, Held, Extends
<1>2. IInv /\ [Next]_vars => [Kept]_vars
  BY <1>1
<1>3. Spec => [][Kept]_vars
  <2> HIDE DEF Kept
  <2> QED BY <1>2, Invariant, PTL DEF Spec
<1> QED BY <1>3 DEF ProvenanceKept

--------------------------------------------------------------------------------
\* The refinement of WorkspaceConsent.
LEMMA AuthorityIs ==
    ASSUME NEW r \in Active
    PROVE  /\ <<r.environment, r.path, r.transaction>> \in Authority
           /\ <<r.environment, r.path, r.transaction>>[1] = r.environment
           /\ <<r.environment, r.path, r.transaction>>[2] = r.path
           /\ <<r.environment, r.path, r.transaction>>[3] = r.transaction
BY DEF Authority

\* A consent event of the ledger is one of WorkspaceConsent.
LEMMA ConsentRefines ==
    ASSUME IInv, NEW t \in Transactions, NEW envs \in SUBSET Environments,
           NEW event \in Events, NEW path \in Paths, NEW repository \in Repositories,
           path # Home, repository # None => Within(path, repository.root),
           event = "implicit-bind" => repository # None /\ path = repository.root,
           Commit(t, envs, event, path, repository)
    PROVE  Consent!Next
<1> DEFINE N == Granted(t, envs, event, path, repository)
<1>1. Active' = Active \union N
  BY Consenting
<1>2. /\ transactions' = transactions \union {t} /\ t \notin transactions
      /\ answer' = None
  BY DEF Commit, Fresh
<1>3. {<<n.environment, n.path, n.transaction>> : n \in N} = envs \X {path} \X {t}
  <2>1. ASSUME NEW n \in N
        PROVE  <<n.environment, n.path, n.transaction>> \in envs \X {path} \X {t}
    BY DEF Granted
  <2>2. ASSUME NEW g \in envs \X {path} \X {t}
        PROVE  \E n \in N : g = <<n.environment, n.path, n.transaction>>
    <3>1. PICK e \in envs : g = <<e, path, t>>
      OBVIOUS
    <3> DEFINE n == [transaction |-> t, environment |-> e, path |-> path, event |-> event,
                     repository |-> repository, states |-> <<"active">>]
    <3>2. n \in N
      BY DEF Granted
    <3>3. n.environment = e /\ n.path = path /\ n.transaction = t
      OBVIOUS
    <3> QED BY <3>1, <3>2, <3>3
  <2> HIDE DEF N
  <2> QED BY <2>1, <2>2
<1> HIDE DEF N
<1>4. Authority' = Authority \union (envs \X {path} \X {t})
  <2>1. Authority' = {<<r.environment, r.path, r.transaction>> : r \in Active \union N}
    BY <1>1 DEF Authority
  <2> QED BY <2>1, <1>3 DEF Authority
<1>5. Found' = None
  BY <1>2 DEF Found
<1>6. Consent!Consent(t, envs, path)
  BY <1>2, <1>4, <1>5 DEF Consent!Consent
<1> QED BY <1>6 DEF Consent!Next

\* Nothing happens to the authority when no record, transaction or answer does.
LEMMA OtherRefines ==
    ASSUME Active' = Active, transactions' = transactions, answer' = None
    PROVE  Consent!Next
<1>1. Authority' = Authority
  BY DEF Authority
<1>2. Found' = None
  BY DEF Found
<1> QED BY <1>1, <1>2 DEF Consent!Next, Consent!Other

LEMMA UnbindRefines ==
    ASSUME IInv, NEW t \in Transactions, BindingRemove(t)
    PROVE  Consent!Next
<1> DEFINE H == {r \in records : Bound(r, t)}
<1>1. /\ records' = Moved(H, "revoked") /\ transactions' = transactions
      /\ answer' = None
  BY DEF BindingRemove, Moved
<1>2. Active' = Active \ H
  BY <1>1, Withdrawal
<1>3. CASE H = {}
  BY <1>1, <1>2, <1>3, OtherRefines
<1>4. CASE H # {}
  <2>1. \A r \in Active : r \in H <=> r.transaction = t
    BY <1>4 DEF Active, Bound, IInv, OneEvent
  <2>2. \A g \in Authority' : g \in Authority /\ g[3] # t
    BY <1>2, <2>1, AuthorityIs DEF Authority
  <2>3. \A g \in Authority : g[3] # t => g \in Authority'
    BY <1>2, <2>1, AuthorityIs DEF Authority
  <2>4. Authority' = {g \in Authority : g[3] # t}
    BY <2>2, <2>3
  <2>5. Found' = None
    BY <1>1 DEF Found
  <2>6. Consent!Unbind(t)
    BY <1>1, <2>4, <2>5 DEF Consent!Unbind
  <2> QED BY <2>6 DEF Consent!Next
<1> QED BY <1>3, <1>4

LEMMA RemoveRefines ==
    ASSUME IInv, NEW e \in Environments, NEW path \in Paths,
           NEW cleanup \in {"ok", "unreadable"}, Remove(e, path, cleanup)
    PROVE  Consent!Next
<1> DEFINE H == {r \in records : ScopeMatches(r, e, path)}
<1>1. /\ records' = Moved(H, "revoked") /\ transactions' = transactions
      /\ answer' = None
  BY DEF Remove, Moved
<1>2. Active' = Active \ H
  BY <1>1, Withdrawal
<1>3. \A r \in Active : r \in H <=> r.environment = e /\ r.path = path
  BY DEF Active, ScopeMatches
<1>4. \A g \in Authority' : g \in Authority /\ ~(g[1] = e /\ g[2] = path)
  BY <1>2, <1>3, AuthorityIs DEF Authority
<1>5. \A g \in Authority : ~(g[1] = e /\ g[2] = path) => g \in Authority'
  BY <1>2, <1>3, AuthorityIs DEF Authority
<1>6. Authority' = Authority \ Consent!At(e, path)
  BY <1>4, <1>5 DEF Consent!At
<1>7. Found' = None
  BY <1>1 DEF Found
<1>8. Consent!Withdraw(e, path)
  BY <1>1, <1>6, <1>7 DEF Consent!Withdraw
<1> QED BY <1>8 DEF Consent!Next

LEMMA AskRefines ==
    ASSUME IInv, NEW e \in Environments, NEW path \in Paths,
           NEW repository \in Repositories, Recheck(e, path, repository)
    PROVE  Consent!Next
<1> DEFINE scope == {r \in Active : ScopeMatches(r, e, path)}
           kept  == {r \in scope : SameIdentity(r.repository, repository)}
           H == scope \ kept
           lost == {<<r.environment, r.path, r.transaction>> : r \in H}
           ans == [environment |-> e, path |-> path, repository |-> repository]
<1>1. /\ records' = Moved(H, "lapsed") /\ transactions' = transactions
      /\ answer' = IF kept = {} THEN None ELSE ans
  BY DEF Recheck, Moved
<1>2. H \in SUBSET records
  BY DEF Active
<1>3. Active' = Active \ H
  BY <1>1, <1>2, Withdrawal
<1>4. lost \in SUBSET Consent!At(e, path)
  <2>1. \A r \in H : r \in Active /\ r.environment = e /\ r.path = path
    BY DEF ScopeMatches
  <2> QED BY <2>1, AuthorityIs DEF Consent!At
\* Two records of one transaction and environment are one record, so what is
\* lost is not also kept by another.
<1>5. \A r \in Active : <<r.environment, r.path, r.transaction>> \in lost <=> r \in H
  <2>1. \A r, s \in Active :
           (r.environment = s.environment /\ r.transaction = s.transaction) => r = s
    BY DEF Active, IInv, ConsentRecordedOnce
  <2>2. H \subseteq Active
    OBVIOUS
  <2> HIDE DEF H
  <2> QED BY <2>1, <2>2
<1>6. Authority' = Authority \ lost
  <2>1. \A g \in Authority' : g \in Authority \ lost
    BY <1>3, <1>5, AuthorityIs DEF Authority
  <2>2. \A g \in Authority \ lost : g \in Authority'
    BY <1>3, <1>5, AuthorityIs DEF Authority
  <2> QED BY <2>1, <2>2
<1>7. Consent!At(e, path) \ lost = {} <=> kept = {}
  <2>1. ASSUME NEW r \in kept
        PROVE  <<r.environment, r.path, r.transaction>> \in Consent!At(e, path) \ lost
    <3>1. r \in Active /\ r.environment = e /\ r.path = path /\ r \notin H
      BY DEF ScopeMatches
    <3> QED BY <3>1, <1>5, AuthorityIs DEF Consent!At
  <2>2. ASSUME NEW g \in Consent!At(e, path) \ lost
        PROVE  \E r \in kept : TRUE
    <3>1. PICK r \in Active : g = <<r.environment, r.path, r.transaction>>
      BY DEF Consent!At, Authority
    <3>2. r.environment = e /\ r.path = path
      BY <3>1, AuthorityIs DEF Consent!At
    <3>3. r \in scope /\ r \notin H
      BY <3>1, <3>2, <1>5 DEF ScopeMatches
    <3> QED BY <3>3
  <2> QED BY <2>1, <2>2
<1>8. Found' = IF Consent!At(e, path) \ lost = {} THEN None ELSE <<e, path>>
  <2>1. ans \in Answers
    BY DEF Answers
  <2>2. ans # None /\ ans.environment = e /\ ans.path = path
    BY <2>1, NoneIsNothing
  <2>3. CASE kept = {}
    BY <1>1, <1>7, <2>3 DEF Found
  <2>4. CASE kept # {}
    <3>1. answer' = ans
      BY <1>1, <2>4
    <3> HIDE DEF kept, ans
    <3> QED BY <3>1, <2>2, <2>4, <1>7 DEF Found
  <2> QED BY <2>3, <2>4
<1>9. Consent!Ask(e, path)
  BY <1>1, <1>4, <1>6, <1>8 DEF Consent!Ask
<1> QED BY <1>9 DEF Consent!Next

\* The ledger implements WorkspaceConsent: whatever is retried, repaired, lapsed
\* or removed, authority comes from fresh consent and stays within its scope.
THEOREM Implements == Spec => ConsentSpec
<1>1. Init => Consent!Init
  BY DEF Init, Consent!Init, Authority, Active, Found
<1>2. ASSUME IInv, [Next]_vars
      PROVE  [Consent!Next]_(Consent!vars)
  <2>1. CASE \E t \in Transactions, envs \in SUBSET Environments, p \in Paths,
                repository \in Repositories :
                Add(t, envs, p, repository) \/ Launch(t, envs, p, repository)
    <3>1. PICK t \in Transactions, envs \in SUBSET Environments, p \in Paths,
               repository \in Repositories, event \in {"explicit-grant", "implicit-launch"} :
               Grant(event, t, envs, p, repository)
      BY <2>1 DEF Add, Launch
    <3>2. event \in Events /\ event # "implicit-bind"
      BY DEF Events
    <3> QED BY <3>1, <3>2, ConsentRefines, <1>2 DEF Grant, Admitted
  <2>2. CASE \E t \in Transactions, envs \in SUBSET Environments, p \in Paths,
                repository \in Repositories : Bind(t, envs, p, repository)
    <3>1. PICK t \in Transactions, envs \in SUBSET Environments, p \in Paths,
               repository \in Repositories : Bind(t, envs, p, repository)
      BY <2>2
    <3>2. repository # None /\ repository.root # Home
      BY <3>1 DEF Bind, Admitted
    <3>3. repository.root \in Paths
      BY <3>2, Directories DEF Repositories, Identities
    <3>4. Within(repository.root, repository.root)
      BY <3>3, Directories DEF Within
    <3>5. "implicit-bind" \in Events
      BY DEF Events
    <3>6. Commit(t, envs, "implicit-bind", repository.root, repository)
      BY <3>1 DEF Bind
    <3> QED BY <3>2, <3>3, <3>4, <3>5, <3>6, ConsentRefines, <1>2
  <2>3. CASE \E t \in Transactions : BindingRemove(t)
    BY <2>3, UnbindRefines, <1>2
  <2>4. CASE \E e \in Environments, p \in Paths, cleanup \in {"ok", "unreadable"} :
                Remove(e, p, cleanup)
    BY <2>4, RemoveRefines, <1>2
  <2>5. CASE \E e \in Environments, p \in Paths, repository \in Repositories :
                Resolve(e, p, repository) \/ Repair(e, p, repository)
    BY <2>5, AskRefines, <1>2 DEF Resolve, Repair
  <2>6. CASE Other
    <3>1. Active' = Active /\ transactions' = transactions /\ answer' = None
      BY <2>6 DEF Other, Active
    <3> QED BY <3>1, OtherRefines
  <2>7. CASE UNCHANGED vars
    BY <2>7 DEF vars, Consent!vars, Authority, Active, Found
  <2> QED BY <1>2, <2>1, <2>2, <2>3, <2>4, <2>5, <2>6, <2>7 DEF Next
<1> QED BY <1>1, <1>2, Invariant, PTL DEF Spec, ConsentSpec, Consent!Spec
================================================================================

-------------------------- MODULE TransportProofs --------------------------
(***************************************************************************)
(* What holds of the transport leases for every number of agents and       *)
(* leases and for all sequences of transport configurations; and of the    *)
(* agents' managers, heartbeats and clients together with them.            *)
(***************************************************************************)
EXTENDS AgentTransport, TLAPS

\* Leases that all stem from acceptable ones, one from each, and gained no
\* current flag, are acceptable.
LEMMA AcceptableDerived ==
  ASSUME NEW L, NEW M, Acceptable(L),
         \A m \in M : /\ m.ttl > 0
                      /\ \E l \in L : /\ l.id = m.id /\ l.port = m.port /\ l.agent = m.agent
                                      /\ m.current => l.current,
         \A m, n \in M : m.id = n.id => m = n
  PROVE  Acceptable(M)
<1> SUFFICES ASSUME NEW m \in M, NEW n \in M
             PROVE  /\ m.ttl > 0
                    /\ m # n => m.port # n.port /\ m.id # n.id
                    /\ m # n /\ m.agent = n.agent => ~(m.current /\ n.current)
  BY DEF Acceptable
<1>1. PICK l \in L : l.id = m.id /\ l.port = m.port /\ l.agent = m.agent /\ (m.current => l.current)
  OBVIOUS
<1>2. PICK k \in L : k.id = n.id /\ k.port = n.port /\ k.agent = n.agent /\ (n.current => k.current)
  OBVIOUS
<1>3. m # n => l # k
  BY <1>1, <1>2
<1> QED BY <1>1, <1>2, <1>3 DEF Acceptable

\* A lease with a new id and a new port may be added for an agent that has no
\* current one.
LEMMA AcceptableExtended ==
  ASSUME NEW M, Acceptable(M), NEW x, x.ttl > 0,
         \A m \in M : m.id # x.id /\ m.port # x.port /\ (m.agent = x.agent => ~m.current)
  PROVE  Acceptable(M \cup {x})
BY DEF Acceptable

\* Pruning or releasing leases leaves an acceptable store acceptable.
LEMMA AcceptableSubset ==
  ASSUME NEW L, NEW M, M \subseteq L, Acceptable(L)
  PROVE  Acceptable(M)
BY DEF Acceptable

\* A lease with the rest of its life before it again, and nothing else changed.
Prolonged(l) == [l EXCEPT !.left = l.ttl]

\* Renewing one lease of an acceptable store and pruning some of the rest.
LEMMA AcceptableProlonged ==
  ASSUME NEW L \in SUBSET Lease, Acceptable(L), NEW l \in L, NEW K \in SUBSET L
  PROVE  /\ Acceptable((K \ {l}) \cup {Prolonged(l)})
         /\ Prolonged(l) \in Lease
<1>1. l \in Lease
  OBVIOUS
<1>2. Prolonged(l) \in Lease
  BY <1>1 DEF Prolonged, Lease
<1>3. /\ Prolonged(l).id = l.id /\ Prolonged(l).port = l.port /\ Prolonged(l).agent = l.agent
      /\ Prolonged(l).current = l.current /\ Prolonged(l).ttl = l.ttl
  BY <1>1 DEF Prolonged, Lease
<1>4. PICK M : M = (K \ {l}) \cup {Prolonged(l)}
  OBVIOUS
<1>5. \A m \in M : /\ m.ttl > 0
                   /\ \E k \in L : /\ k.id = m.id /\ k.port = m.port /\ k.agent = m.agent
                                   /\ m.current => k.current
  BY <1>1, <1>3, <1>4 DEF Acceptable
<1>6. \A m, n \in M : m.id = n.id => m = n
  BY <1>3, <1>4 DEF Acceptable
<1>7. Acceptable(M)
  BY <1>5, <1>6, AcceptableDerived
<1> QED BY <1>2, <1>4, <1>7

\* A lease that fits the policy keeps its life time when it is renewed.
LEMMA RenewedIsProlonged ==
  ASSUME NEW l \in Lease, MatchesPolicy(l)
  PROVE  Renewed(l) = Prolonged(l)
BY DEF MatchesPolicy, Renewed, Prolonged, Lease

\* Superseding the leases of an agent keeps the store acceptable and leaves the
\* agent without a current one; no lease gains or loses its port.
LEMMA AcceptableDemoted ==
  ASSUME NEW L \in SUBSET Lease, Acceptable(L), NEW a
  PROVE  /\ Acceptable(Demoted(L, a))
         /\ Demoted(L, a) \in SUBSET Lease
         /\ \A m \in Demoted(L, a) : m.agent = a => ~m.current
         /\ \A m \in Demoted(L, a) :
              \E l \in L : /\ l.id = m.id /\ l.port = m.port /\ l.agent = m.agent
                           /\ l.left = m.left /\ l.ttl = m.ttl
         /\ \A l \in L :
              \E m \in Demoted(L, a) :
                l.id = m.id /\ l.port = m.port /\ l.agent = m.agent /\ l.left = m.left
<1> DEFINE D(l) == [l EXCEPT !.current = @ /\ l.agent # a]
<1>1. ASSUME NEW l \in L
      PROVE  /\ D(l) \in Lease
             /\ D(l).id = l.id /\ D(l).port = l.port /\ D(l).agent = l.agent
             /\ D(l).ttl = l.ttl /\ D(l).left = l.left
             /\ D(l).current => l.current /\ l.agent # a
  BY DEF Lease
<1>2. Demoted(L, a) = {D(l) : l \in L}
  BY DEF Demoted
<1> HIDE DEF D
<1>3. PICK M : M = Demoted(L, a)
  OBVIOUS
<1>4. \A m \in M : \E l \in L : m = D(l)
  BY <1>2, <1>3
<1>5. \A m \in M : /\ m.ttl > 0
                   /\ \E l \in L : /\ l.id = m.id /\ l.port = m.port /\ l.agent = m.agent
                                   /\ m.current => l.current
  BY <1>1, <1>4 DEF Acceptable
<1>6. \A m, n \in M : m.id = n.id => m = n
  BY <1>1, <1>4 DEF Acceptable
<1>7. Acceptable(M)
  BY <1>5, <1>6, AcceptableDerived
<1>8. M \in SUBSET Lease /\ \A m \in M : m.agent = a => ~m.current
  BY <1>1, <1>4
<1>9. \A m \in M : \E l \in L : /\ l.id = m.id /\ l.port = m.port /\ l.agent = m.agent
                                /\ l.left = m.left /\ l.ttl = m.ttl
  BY <1>1, <1>4
<1>10. \A l \in L : D(l) \in M
  BY <1>2, <1>3
<1>11. \A l \in L : \E m \in M :
         l.id = m.id /\ l.port = m.port /\ l.agent = m.agent /\ l.left = m.left
  BY <1>1, <1>10
<1> QED BY <1>3, <1>7, <1>8, <1>9, <1>11

\* Time passing keeps the store acceptable and shortens every life alike.
LEMMA AcceptableLater ==
  ASSUME NEW L \in SUBSET Lease, Acceptable(L)
  PROVE  /\ Acceptable(Later(L))
         /\ Later(L) \in SUBSET Lease
         /\ \A m \in Later(L) : \E l \in L : l.id = m.id /\ (l.left <= l.ttl => m.left <= m.ttl)
         /\ \A l \in L :
              \E m \in Later(L) :
                /\ l.id = m.id /\ l.port = m.port /\ l.agent = m.agent
                /\ m.left = IF l.left > 0 THEN l.left - 1 ELSE 0
<1> DEFINE D(l) == [l EXCEPT !.left = IF @ > 0 THEN @ - 1 ELSE 0]
<1>1. ASSUME NEW l \in L
      PROVE  /\ D(l) \in Lease
             /\ D(l).id = l.id /\ D(l).port = l.port /\ D(l).agent = l.agent
             /\ D(l).ttl = l.ttl /\ D(l).current = l.current
             /\ D(l).left = IF l.left > 0 THEN l.left - 1 ELSE 0
  BY DEF Lease
<1>2. Later(L) = {D(l) : l \in L}
  BY DEF Later
<1> HIDE DEF D
<1>3. PICK M : M = Later(L)
  OBVIOUS
<1>4. \A m \in M : \E l \in L : m = D(l)
  BY <1>2, <1>3
<1>5. \A m \in M : /\ m.ttl > 0
                   /\ \E l \in L : /\ l.id = m.id /\ l.port = m.port /\ l.agent = m.agent
                                   /\ m.current => l.current
  BY <1>1, <1>4 DEF Acceptable
<1>6. \A m, n \in M : m.id = n.id => m = n
  BY <1>1, <1>4 DEF Acceptable
<1>7. Acceptable(M)
  BY <1>5, <1>6, AcceptableDerived
<1>8. M \in SUBSET Lease
  BY <1>1, <1>4
<1>9. \A l \in L : D(l) \in M
  BY <1>2, <1>3
<1>10. \A l \in L : \E m \in M :
         /\ l.id = m.id /\ l.port = m.port /\ l.agent = m.agent
         /\ m.left = IF l.left > 0 THEN l.left - 1 ELSE 0
  BY <1>1, <1>9
<1>11. \A m \in M : \E l \in L : l.id = m.id /\ (l.left <= l.ttl => m.left <= m.ttl)
  <2>1. SUFFICES ASSUME NEW m \in M
                 PROVE  \E l \in L : l.id = m.id /\ (l.left <= l.ttl => m.left <= m.ttl)
    OBVIOUS
  <2>2. PICK l \in L : m = D(l)
    BY <1>4
  <2>3. l.left \in Nat /\ l.ttl \in Nat
    BY DEF Lease
  <2> QED BY <1>1, <2>2, <2>3
<1> QED BY <1>3, <1>7, <1>8, <1>10, <1>11
-----------------------------------------------------------------------------
(* Steps.                                                                  *)

\* What a handed lease needs of a store, and what a store may hold.
Backed(h, L) ==
  \E l \in L : l.agent = h.agent /\ l.id = h.id /\ l.port = h.port /\ l.left >= h.left

Handed == [agent : Agents, id : Ids, port : Ports, left : Nat \ {0}]

\* Pruning an acceptable store leaves every lease an agent relies on.
LEMMA BackedByLive ==
  ASSUME NEW L \in SUBSET Lease, NEW h \in Handed, Backed(h, L)
  PROVE  Backed(h, Live(L))
BY DEF Backed, Live, Lease, Handed

\* A step that renews one lease of the store, with or without pruning.
LEMMA RenewedStep ==
  ASSUME InductiveInv, NEW l \in leases, l.left > 0,
         NEW K \in SUBSET leases, Live(leases) \subseteq K,
         Save((K \ {l}) \cup {Prolonged(l)}),
         UNCHANGED <<config, started, used>>,
         handed' = handed \/ handed' = handed \cup {Response(Prolonged(l))}
  PROVE  InductiveInv'
<1>1. /\ leases = disk /\ Acceptable(leases) /\ leases \in SUBSET Lease /\ config \in Configs
      /\ \A k \in leases : k.id \in used /\ k.left <= k.ttl
      /\ handed \in SUBSET Handed
  BY DEF InductiveInv, TypeOK, Consistent, Handed
<1>2. l \in Lease /\ l.ttl \in Nat /\ l.ttl > 0
  BY <1>1 DEF Acceptable, Lease
<1>3. PICK M : M = (K \ {l}) \cup {Prolonged(l)}
  OBVIOUS
<1>4. Acceptable(M) /\ Prolonged(l) \in Lease
  BY <1>1, <1>3, AcceptableProlonged
<1>5. /\ Prolonged(l).id = l.id /\ Prolonged(l).port = l.port /\ Prolonged(l).agent = l.agent
      /\ Prolonged(l).left = l.ttl /\ Prolonged(l).ttl = l.ttl
  BY <1>2 DEF Prolonged, Lease
<1>6. leases' = M /\ disk' = M
  BY <1>3 DEF Save
<1>7. \A m \in M : m \in Lease /\ m.id \in used /\ m.left <= m.ttl
  BY <1>1, <1>2, <1>3, <1>4, <1>5
<1>8. Consistent'
  BY <1>4, <1>6, <1>7 DEF Consistent
<1>9. handed' \in SUBSET Handed
  BY <1>1, <1>2, <1>5 DEF Handed, Response, Lease
<1>10. ASSUME NEW h \in handed'
       PROVE  Backed(h, M)
  <2>1. CASE h \in handed
    <3>1. PICK k \in leases : k.agent = h.agent /\ k.id = h.id /\ k.port = h.port /\ k.left >= h.left
      BY <1>1, <2>1 DEF InductiveInv, HandedIsDurable
    <3>2. h.left \in Nat \ {0} /\ k.left \in Nat /\ l.left \in Nat
      BY <1>1, <1>2, <2>1 DEF Handed, Lease
    <3>3. CASE k = l
      <4>1. Prolonged(l).left >= h.left
        BY <1>1, <1>2, <1>5, <3>1, <3>2, <3>3
      <4> QED BY <1>3, <1>5, <3>1, <3>3, <4>1 DEF Backed
    <3>4. CASE k # l
      <4>1. k \in Live(leases)
        BY <3>1, <3>2 DEF Live
      <4> QED BY <1>3, <3>1, <3>4, <4>1 DEF Backed
    <3> QED BY <3>3, <3>4
  <2>2. CASE h = Response(Prolonged(l))
    BY <1>2, <1>3, <1>5, <2>2 DEF Backed, Response
  <2> QED BY <2>1, <2>2
<1>11. HandedIsDurable'
  BY <1>6, <1>10 DEF HandedIsDurable, Backed
<1>12. TypeOK'
  BY <1>6, <1>7, <1>9 DEF InductiveInv, TypeOK, Handed
<1> QED BY <1>8, <1>11, <1>12 DEF InductiveInv

\* A new lease gets a port no stored lease has, also none that was demoted.
LEMMA AcquireNewStep ==
  ASSUME InductiveInv, NEW a \in Agents, NEW id, NEW excluded, NEW newId \in Ids,
         AcquireNew(a, id, excluded, newId)
  PROVE  InductiveInv'
<1>1. /\ leases = disk /\ Acceptable(leases) /\ leases \in SUBSET Lease /\ config \in Configs
      /\ \A k \in leases : k.id \in used /\ k.left <= k.ttl
      /\ handed \in SUBSET Handed
      /\ used \in SUBSET Ids
  BY DEF InductiveInv, TypeOK, Consistent, Handed
<1>2. PICK p \in FreePorts(excluded) :
        LET lease == [agent |-> a, id |-> newId, slot |-> p - config.start, port |-> p,
                      gen |-> config.gen, current |-> TRUE,
                      ttl |-> config.ttl, left |-> config.ttl]
        IN Save(Demoted(Live(leases), a) \cup {lease}) /\ Answer(lease)
  BY DEF AcquireNew
<1>3. PICK x : x = [agent |-> a, id |-> newId, slot |-> p - config.start, port |-> p,
                    gen |-> config.gen, current |-> TRUE,
                    ttl |-> config.ttl, left |-> config.ttl]
  OBVIOUS
<1>4. /\ config.ttl \in Nat /\ config.ttl > 0 /\ config.start \in Nat
      /\ p \in config.start .. config.end /\ p \in Ports /\ p \in Int /\ config.gen \in Gens
      /\ \A l \in Live(leases) : l.port # p
  BY <1>1, TransportLeaseAssumption DEF FreePorts, Ports, Gens
<1>5. x \in Lease
  BY <1>3, <1>4 DEF Lease
<1>6. /\ x.agent = a /\ x.id = newId /\ x.port = p /\ x.ttl = config.ttl /\ x.left = config.ttl
  BY <1>3
<1>7. Live(leases) \in SUBSET Lease /\ Acceptable(Live(leases)) /\ Live(leases) \subseteq leases
  BY <1>1, AcceptableSubset DEF Live
<1>8. PICK M : M = Demoted(Live(leases), a)
  OBVIOUS
<1>9. /\ Acceptable(M)
      /\ M \in SUBSET Lease
      /\ \A m \in M : m.agent = a => ~m.current
      /\ \A m \in M :
           \E l \in Live(leases) : /\ l.id = m.id /\ l.port = m.port /\ l.agent = m.agent
                                   /\ l.left = m.left /\ l.ttl = m.ttl
      /\ \A l \in Live(leases) :
           \E m \in M : l.id = m.id /\ l.port = m.port /\ l.agent = m.agent /\ l.left = m.left
  BY <1>7, <1>8, AcceptableDemoted
<1>10. /\ leases' = M \cup {x} /\ disk' = M \cup {x}
       /\ handed' = handed \/ handed' = handed \cup {Response(x)}
  BY <1>2, <1>3, <1>8 DEF Save, Answer
<1>11. newId \notin used /\ used' = used \cup {newId} /\ UNCHANGED <<config, started>>
  BY DEF AcquireNew
<1>12. \A m \in M : /\ m.id \in used /\ m.id # newId /\ m.port # p
                    /\ m.left <= m.ttl
  BY <1>1, <1>4, <1>7, <1>9, <1>11
<1>13. Acceptable(M \cup {x})
  BY <1>4, <1>6, <1>9, <1>12, AcceptableExtended
<1>14. Consistent'
  BY <1>4, <1>6, <1>10, <1>11, <1>12, <1>13 DEF Consistent
<1>15. handed' \in SUBSET Handed
  BY <1>1, <1>4, <1>6, <1>10 DEF Handed, Response
<1>16. ASSUME NEW h \in handed'
       PROVE  Backed(h, M \cup {x})
  <2>1. CASE h \in handed
    <3>1. Backed(h, leases)
      BY <1>1, <2>1 DEF InductiveInv, HandedIsDurable, Backed
    <3>2. Backed(h, Live(leases))
      BY <1>1, <2>1, <3>1, BackedByLive
    <3> QED BY <1>9, <3>2 DEF Backed
  <2>2. CASE h = Response(x)
    BY <1>4, <1>6, <2>2 DEF Backed, Response
  <2> QED BY <1>10, <2>1, <2>2
<1>17. HandedIsDurable'
  BY <1>10, <1>16 DEF HandedIsDurable, Backed
<1>18. TypeOK'
  BY <1>5, <1>9, <1>10, <1>11, <1>15 DEF InductiveInv, TypeOK, Handed
<1> QED BY <1>14, <1>17, <1>18 DEF InductiveInv

\* Removing leases no agent relies on.
LEMMA PrunedStep ==
  ASSUME InductiveInv, NEW M \in SUBSET Live(leases),
         leases' = M, disk' = M,
         started' \in BOOLEAN, UNCHANGED <<config, used>>, handed' \in SUBSET handed,
         \A h \in handed' : \A l \in Live(leases) : l.agent = h.agent /\ l.id = h.id => l \in M
  PROVE  InductiveInv'
<1>1. /\ leases = disk /\ Acceptable(leases) /\ leases \in SUBSET Lease
      /\ \A k \in leases : k.id \in used /\ k.left <= k.ttl
      /\ handed \in SUBSET Handed
  BY DEF InductiveInv, TypeOK, Consistent, Handed
<1>2. M \subseteq leases
  BY DEF Live
<1>3. Consistent'
  BY <1>1, <1>2, AcceptableSubset DEF Consistent
<1>4. ASSUME NEW h \in handed'
      PROVE  Backed(h, M)
  <2>1. Backed(h, leases)
    BY <1>1 DEF InductiveInv, HandedIsDurable, Backed
  <2>2. Backed(h, Live(leases))
    BY <1>1, <2>1, BackedByLive
  <2> QED BY <2>2 DEF Backed
<1>5. HandedIsDurable'
  BY <1>4 DEF HandedIsDurable, Backed
<1>6. TypeOK'
  BY <1>1, <1>2 DEF InductiveInv, TypeOK
<1> QED BY <1>3, <1>5, <1>6 DEF InductiveInv

\* Time passes alike for memory, file and agents, so nothing an agent holds
\* outlives its lease.
LEMMA TickStep ==
  ASSUME InductiveInv, Tick
  PROVE  InductiveInv'
<1>1. /\ leases = disk /\ Acceptable(leases) /\ leases \in SUBSET Lease
      /\ \A k \in leases : k.id \in used /\ k.left <= k.ttl
      /\ handed \in SUBSET Handed
  BY DEF InductiveInv, TypeOK, Consistent, Handed
<1>2. PICK M : M = Later(leases)
  OBVIOUS
<1>3. /\ Acceptable(M) /\ M \in SUBSET Lease
      /\ \A m \in M : \E l \in leases : l.id = m.id /\ (l.left <= l.ttl => m.left <= m.ttl)
      /\ \A l \in leases : \E m \in M :
           /\ l.id = m.id /\ l.port = m.port /\ l.agent = m.agent
           /\ m.left = IF l.left > 0 THEN l.left - 1 ELSE 0
  BY <1>1, <1>2, AcceptableLater
<1>4. leases' = M /\ disk' = M /\ UNCHANGED <<config, started, used>>
  BY <1>1, <1>2 DEF Tick
<1>5. ASSUME NEW h \in handed'
      PROVE  /\ h \in Handed
             /\ \E g \in handed : /\ g.agent = h.agent /\ g.id = h.id /\ g.port = h.port
                                  /\ h.left = g.left - 1
  <2>1. PICK g \in handed : /\ h = [g EXCEPT !.left = IF @ > 0 THEN @ - 1 ELSE 0]
                            /\ h.left > 0
    BY DEF Tick, Live, Later
  <2>2. g \in Handed
    BY <1>1
  <2> QED BY <2>1, <2>2 DEF Handed
<1>6. ASSUME NEW h \in handed'
      PROVE  Backed(h, M)
  <2>1. PICK g \in handed : /\ g.agent = h.agent /\ g.id = h.id /\ g.port = h.port
                            /\ h.left = g.left - 1
    BY <1>5
  <2>2. PICK k \in leases : k.agent = g.agent /\ k.id = g.id /\ k.port = g.port /\ k.left >= g.left
    BY <1>1 DEF InductiveInv, HandedIsDurable
  <2>3. PICK m \in M : /\ k.id = m.id /\ k.port = m.port /\ k.agent = m.agent
                       /\ m.left = IF k.left > 0 THEN k.left - 1 ELSE 0
    BY <1>3
  <2>4. g.left \in Nat \ {0} /\ k.left \in Nat
    BY <1>1 DEF Handed, Lease
  <2>5. m.left >= h.left
    BY <2>1, <2>2, <2>3, <2>4
  <2> QED BY <2>1, <2>2, <2>3, <2>5 DEF Backed
<1>7. Consistent'
  BY <1>1, <1>3, <1>4 DEF Consistent
<1>8. HandedIsDurable'
  BY <1>4, <1>6 DEF HandedIsDurable, Backed
<1>9. TypeOK'
  BY <1>3, <1>4, <1>5 DEF InductiveInv, TypeOK, Handed
<1> QED BY <1>7, <1>8, <1>9 DEF InductiveInv

\* An agent keeps its lease, for another life time.
LEMMA AcquireStickyStep ==
  ASSUME InductiveInv, NEW a, NEW id, NEW excluded, AcquireSticky(a, id, excluded)
  PROVE  InductiveInv'
<1>1. PICK l \in Current(Live(leases), a) :
        /\ Sticky(l, excluded)
        /\ Save((Live(leases) \ {l}) \cup {Renewed(l)})
        /\ Answer(Renewed(l))
  BY DEF AcquireSticky
<1>2. l \in leases /\ l.left > 0 /\ MatchesPolicy(l)
  BY <1>1 DEF Current, Live, Sticky
<1>3. Renewed(l) = Prolonged(l)
  BY <1>2, RenewedIsProlonged DEF InductiveInv, TypeOK
<1>4. Live(leases) \in SUBSET leases
  BY DEF Live
<1>5. UNCHANGED <<config, started, used>>
  BY DEF AcquireSticky
<1> QED BY <1>1, <1>2, <1>3, <1>4, <1>5, RenewedStep DEF Answer

\* Every request, renewal, release, crash, configuration change and tick keeps
\* the invariant.
LEMMA InductiveStep ==
  ASSUME InductiveInv, [Next]_vars
  PROVE  InductiveInv'
<1>1. ASSUME NEW a \in Agents, NEW id, Renew(a, id)
      PROVE  InductiveInv'
  <2>1. PICK l \in Current(leases, a) :
          /\ l.left > 0 /\ MatchesPolicy(l)
          /\ Save((leases \ {l}) \cup {Renewed(l)})
    BY <1>1 DEF Renew
  <2>2. l \in leases /\ Live(leases) \subseteq leases
    BY <2>1 DEF Current, Live
  <2>3. Renewed(l) = Prolonged(l)
    BY <2>1, <2>2, RenewedIsProlonged DEF InductiveInv, TypeOK
  <2>4. UNCHANGED <<config, started, used, handed>>
    BY <1>1 DEF Renew
  <2> QED BY <2>1, <2>2, <2>3, <2>4, RenewedStep
<1>2. ASSUME NEW a \in Agents, NEW id, NEW gen, Release(a, id, gen)
      PROVE  InductiveInv'
  <2>1. PICK R : R = {l \in Current(Live(leases), a) : l.id = id /\ l.gen = gen}
    OBVIOUS
  <2>2. PICK M : M = Live(leases) \ R
    OBVIOUS
  <2>3. /\ leases' = M /\ disk' = M /\ UNCHANGED <<config, started, used>>
        /\ handed' = {h \in handed : ~(h.agent = a /\ h.id = id)}
    BY <1>2, <2>1, <2>2 DEF Release, Save
  <2>4. \A h \in handed' : \A l \in Live(leases) : l.agent = h.agent /\ l.id = h.id => l \in M
    BY <2>1, <2>2, <2>3 DEF Current
  <2>5. started' \in BOOLEAN /\ handed' \in SUBSET handed /\ M \in SUBSET Live(leases)
    BY <2>2, <2>3 DEF InductiveInv, TypeOK
  <2> QED BY <2>3, <2>4, <2>5, PrunedStep
<1>3. CASE Restart
  <2>1. CASE Save(Live(disk)) /\ started' = TRUE
    <3>1. /\ leases' = Live(leases) /\ disk' = Live(leases)
          /\ UNCHANGED <<config, used, handed>>
      BY <1>3, <2>1 DEF Restart, Save, InductiveInv, Consistent
    <3> QED BY <2>1, <3>1, PrunedStep
  <2>2. CASE started' = FALSE /\ UNCHANGED <<leases, disk>>
    <3>1. UNCHANGED <<config, leases, disk, used, handed>>
      BY <1>3, <2>2 DEF Restart
    <3> QED BY <2>2, <3>1 DEF InductiveInv, TypeOK, Consistent, HandedIsDurable
  <2> QED BY <1>3, <2>1, <2>2 DEF Restart
<1>4. CASE Reconfigure
  BY <1>4 DEF Reconfigure, InductiveInv, TypeOK, Consistent, HandedIsDurable
<1>5. CASE Tick
  BY <1>5, TickStep
<1>6. CASE UNCHANGED vars
  BY <1>6 DEF vars, InductiveInv, TypeOK, Consistent, HandedIsDurable
<1> QED BY <1>1, <1>2, <1>3, <1>4, <1>5, <1>6, AcquireStickyStep, AcquireNewStep DEF Next

\* Memory, file and the agents' knowledge stay consistent.
THEOREM Invariance == Spec => []InductiveInv
<1>1. Init => InductiveInv
  BY DEF Init, InductiveInv, TypeOK, Consistent, HandedIsDurable, Acceptable
<1>2. InductiveInv /\ [Next]_vars => InductiveInv'
  BY InductiveStep
<1> QED BY <1>1, <1>2, PTL DEF Spec

\* The manager's fields stay well typed, ports inside the configured ranges.
THEOREM TypeCorrect == Spec => []TypeOK
<1>1. InductiveInv => TypeOK
  BY DEF InductiveInv
<1> QED BY <1>1, Invariance, PTL

\* A restarting gateway never refuses the file it wrote.
THEOREM RestartLoads == Spec => []StoreLoads
<1>1. ASSUME InductiveInv
      PROVE  StoreLoads
  <2>1. Live(disk) \subseteq disk
    BY DEF Live
  <2> QED BY <1>1, <2>1, AcceptableSubset DEF InductiveInv, Consistent, StoreLoads
<1> QED BY <1>1, Invariance, PTL

\* What an agent was told it holds is on disk for at least that long.
THEOREM HandedOutIsKept == Spec => []HandedIsDurable
<1>1. InductiveInv => HandedIsDurable
  BY DEF InductiveInv
<1> QED BY <1>1, Invariance, PTL

\* No two leases in the hands of agents have the same port.
THEOREM NoPortTwice == Spec => []PortsExclusive
<1>1. ASSUME InductiveInv
      PROVE  PortsExclusive
  <2>1. SUFFICES ASSUME NEW g \in handed, NEW h \in handed, g.id # h.id
                 PROVE  g.port # h.port
    BY DEF PortsExclusive
  <2>2. PICK k \in disk : k.id = g.id /\ k.port = g.port
    BY <1>1 DEF InductiveInv, HandedIsDurable
  <2>3. PICK l \in disk : l.id = h.id /\ l.port = h.port
    BY <1>1 DEF InductiveInv, HandedIsDurable
  <2> QED BY <1>1, <2>1, <2>2, <2>3 DEF InductiveInv, Consistent, Acceptable
<1> QED BY <1>1, Invariance, PTL

\* A store that keeps some leases, shortens or prolongs their lives and adds
\* only leases with ids never drawn before revives and moves nothing.
LEMMA DerivedNotRevived ==
  ASSUME Consistent, leases \in SUBSET Lease,
         \A k \in leases' :
           \/ k.id \notin used
           \/ \E l \in leases : /\ l.id = k.id /\ l.agent = k.agent /\ l.port = k.port
                                /\ k.current => l.current,
         NEW l \in leases, NEW k \in leases', l.id = k.id
  PROVE  k.agent = l.agent /\ k.port = l.port /\ (k.current => l.current)
<1>1. leases = disk /\ l.id \in used
  BY DEF Consistent
<1>2. PICK m \in leases : /\ m.id = k.id /\ m.agent = k.agent /\ m.port = k.port
                          /\ k.current => m.current
  BY <1>1
<1>3. m = l
  BY <1>1, <1>2 DEF Consistent, Acceptable
<1> QED BY <1>2, <1>3

\* Every stored lease is one of before, at most superseded, or has a new id.
LEMMA StoreDerived ==
  ASSUME InductiveInv, [Next]_vars, NEW k \in leases'
  PROVE  \/ k.id \notin used
         \/ \E l \in leases : /\ l.id = k.id /\ l.agent = k.agent /\ l.port = k.port
                              /\ k.current => l.current
<1> DEFINE Kept(x) == \E l \in leases : /\ l.id = x.id /\ l.agent = x.agent /\ l.port = x.port
                                        /\ x.current => l.current
<1>1. leases = disk /\ leases \in SUBSET Lease /\ config \in Configs
  BY DEF InductiveInv, TypeOK, Consistent
<1>2. ASSUME k \in leases
      PROVE  Kept(k)
  BY <1>2
<1>3. ASSUME NEW l \in leases
      PROVE  Kept(Renewed(l))
  BY <1>1 DEF Renewed, Lease
<1>4. ASSUME NEW a \in Agents, NEW id, NEW excluded, AcquireSticky(a, id, excluded)
      PROVE  Kept(k)
  <2>1. PICK l \in Current(Live(leases), a) : leases' = (Live(leases) \ {l}) \cup {Renewed(l)}
    BY <1>4 DEF AcquireSticky, Save
  <2>2. l \in leases /\ Live(leases) \subseteq leases
    BY DEF Current, Live
  <2>3. k \in leases \/ k = Renewed(l)
    BY <2>1, <2>2
  <2> QED BY <1>2, <1>3, <2>2, <2>3
<1>5. ASSUME NEW a \in Agents, NEW id, Renew(a, id)
      PROVE  Kept(k)
  <2>1. PICK l \in Current(leases, a) : leases' = (leases \ {l}) \cup {Renewed(l)}
    BY <1>5 DEF Renew, Save
  <2>2. l \in leases
    BY DEF Current
  <2> QED BY <1>2, <1>3, <2>1, <2>2
<1>6. ASSUME NEW a \in Agents, NEW id, NEW excluded, NEW newId \in Ids,
             AcquireNew(a, id, excluded, newId)
      PROVE  k.id \notin used \/ Kept(k)
  <2>1. PICK p : leases' = Demoted(Live(leases), a) \cup
                   {[agent |-> a, id |-> newId, slot |-> p - config.start, port |-> p,
                     gen |-> config.gen, current |-> TRUE,
                     ttl |-> config.ttl, left |-> config.ttl]}
    BY <1>6 DEF AcquireNew, Save
  <2>2. newId \notin used
    BY <1>6 DEF AcquireNew
  <2>3. CASE k \in Demoted(Live(leases), a)
    <3>1. PICK l \in leases : k = [l EXCEPT !.current = @ /\ l.agent # a]
      BY <2>3 DEF Demoted, Live
    <3>2. /\ k.id = l.id /\ k.agent = l.agent /\ k.port = l.port
          /\ k.current => l.current
      BY <1>1, <3>1 DEF Lease
    <3> QED BY <3>2
  <2>4. CASE k \notin Demoted(Live(leases), a)
    BY <2>1, <2>2, <2>4
  <2> QED BY <2>3, <2>4
<1>7. ASSUME NEW a \in Agents, NEW id, NEW gen, Release(a, id, gen)
      PROVE  Kept(k)
  <2>1. leases' \subseteq leases
    BY <1>7 DEF Release, Save, Live
  <2> QED BY <1>2, <2>1
<1>8. CASE Restart
  <2>1. leases' \subseteq leases
    BY <1>1, <1>8 DEF Restart, Save, Live
  <2> QED BY <1>2, <2>1
<1>9. CASE Reconfigure \/ UNCHANGED vars
  <2>1. leases' = leases
    BY <1>9 DEF Reconfigure, vars
  <2> QED BY <1>2, <2>1
<1>10. CASE Tick
  <2>1. PICK l \in leases : k = [l EXCEPT !.left = IF @ > 0 THEN @ - 1 ELSE 0]
    BY <1>10 DEF Tick, Later
  <2>2. k.id = l.id /\ k.agent = l.agent /\ k.port = l.port /\ k.current = l.current
    BY <1>1, <2>1 DEF Lease
  <2> QED BY <2>2
<1> QED BY <1>4, <1>5, <1>6, <1>7, <1>8, <1>9, <1>10 DEF Next

\* A stored lease keeps its agent and its port, and a superseded one is never
\* current again, through renewals, restarts and configuration changes.
THEOREM NothingRevived == Spec => NeverRevived
<1>1. ASSUME InductiveInv, [Next]_vars
      PROVE  [\A l \in leases, k \in leases' :
                l.id = k.id => /\ k.agent = l.agent
                               /\ k.port = l.port
                               /\ k.current => l.current]_vars
  <2>1. Consistent /\ leases \in SUBSET Lease
    BY <1>1 DEF InductiveInv, TypeOK
  <2>2. \A k \in leases' :
           \/ k.id \notin used
           \/ \E l \in leases : /\ l.id = k.id /\ l.agent = k.agent /\ l.port = k.port
                                /\ k.current => l.current
    BY <1>1, StoreDerived
  <2> QED BY <2>1, <2>2, DerivedNotRevived
<1> QED BY <1>1, Invariance, PTL DEF Spec, NeverRevived

(***************************************************************************)
(* The managers, heartbeats and clients of the agents.                     *)
(***************************************************************************)

Phases == {"fetch", "asking", "starting", "active", "examining", "parked", "legacy"}
HbSteps == {"none", "sent", "looked", "renewed", "refused", "invalidate"}

\* What an agent knows of a lease, and the records of its two loops.
Given == [id : Ids, slot : Int, port : Ports, gen : Gens]
Manager == [phase : Phases, cfg : Configs \cup {NoCfg},
            lease : Given \cup {NoLease}, repl : Given \cup {NoLease}]
Heartbeat == [step : HbSteps, lease : Given \cup {NoLease}, cfg : Configs \cup {NoCfg}]
Route == [id : Ids \cup {NoId}, port : Ports \cup {0}, leased : BOOLEAN, fresh : 0 .. StaleAfter]
Released == [agent : Agents, id : Ids, gen : Gens]
Tunnel == [agent : Agents, id : Ids, port : Ports]

\* A manager with a client has a lease for it.
MgrProper ==
  /\ mgr \in [Agents -> Manager]
  /\ \A a \in Agents :
       mgr[a].phase \in {"starting", "active", "examining", "parked"} => mgr[a].lease \in Given

\* A heartbeat under way names a lease; the handler took a configuration.
HbProper ==
  /\ hb \in [Agents -> Heartbeat]
  /\ \A a \in Agents :
       /\ hb[a].step # "none" => hb[a].lease \in Given
       /\ hb[a].step \in {"looked", "renewed"} => hb[a].cfg \in Configs
       /\ hb[a].step = "looked" => hb[a].cfg.managed

RestTyped ==
  /\ invalid \in [Agents -> SUBSET used]
  /\ signal \in [Agents -> BOOLEAN]
  /\ wire \subseteq Released
  /\ tunnels \subseteq Tunnel
  /\ route \in [Agents -> Route]
  /\ faults \in 0 .. MaxFaults

\* A lease id that was drawn for agent a: no other agent has a lease with it.
Owned(a, id, U, L) == id \in U /\ \A l \in L : l.id = id => l.agent = a

\* What an agent's loops and its route name was drawn for that agent.
IdsOwned ==
  \A a \in Agents :
    /\ mgr[a].lease # NoLease => Owned(a, mgr[a].lease.id, used, leases)
    /\ hb[a].step # "none" => Owned(a, hb[a].lease.id, used, leases)
    /\ route[a].leased => Owned(a, route[a].id, used, leases)

\* Whatever is pending will be looked at.
PendingSeen ==
  \A a \in Agents :
    invalid[a] # {} => signal[a] \/ hb[a].step = "invalidate" \/ mgr[a].phase = "examining"

AgentIInv ==
  /\ InductiveInv
  /\ MgrProper
  /\ HbProper
  /\ RestTyped
  /\ IdsOwned
  /\ PendingSeen

-----------------------------------------------------------------------------
(* What the steps of the lease manager leave of the leases.                *)

\* Every stored lease has a new id, or is one of before, of the same agent.
Derives ==
  \A k \in leases' : k.id \notin used \/ \E l \in leases : l.id = k.id /\ l.agent = k.agent

\* Besides, none lost any of its life, and none came back to life.
Prolongs ==
  \A k \in leases' :
    \/ k.id \notin used
    \/ \E l \in leases : /\ l.id = k.id /\ l.agent = k.agent
                         /\ k.left >= l.left
                         /\ k.left > 0 => l.left > 0

\* No live lease is gone.
KeepsLive == \A l \in leases : l.left > 0 => \E k \in leases' : k.id = l.id /\ k.left > 0

\* Prolonging one of the live leases, and perhaps pruning the expired ones.
LEMMA ProlongedGoesOn ==
  ASSUME InductiveInv, NEW l \in leases, l.left > 0, NEW K \in SUBSET leases,
         Live(leases) \subseteq K, leases' = (K \ {l}) \cup {Prolonged(l)}
  PROVE  Prolongs /\ KeepsLive
<1>1. leases \in SUBSET Lease /\ \A k \in leases : k.left <= k.ttl
  BY DEF InductiveInv, TypeOK, Consistent
<1>2. /\ Prolonged(l).id = l.id /\ Prolonged(l).agent = l.agent
      /\ Prolonged(l).left >= l.left /\ Prolonged(l).left > 0
  BY <1>1 DEF Prolonged, Lease
<1>3. Prolongs
  <2>1. SUFFICES ASSUME NEW k \in leases'
                 PROVE  \E j \in leases : /\ j.id = k.id /\ j.agent = k.agent
                                          /\ k.left >= j.left
                                          /\ k.left > 0 => j.left > 0
    BY DEF Prolongs
  <2>2. CASE k = Prolonged(l)
    BY <1>2, <2>2
  <2>3. CASE k # Prolonged(l)
    <3>1. k \in leases
      BY <2>3
    <3>2. k.left >= k.left
      BY <1>1, <3>1 DEF Lease
    <3> QED BY <3>1, <3>2
  <2> QED BY <2>2, <2>3
<1>4. KeepsLive
  <2>1. SUFFICES ASSUME NEW j \in leases, j.left > 0
                 PROVE  \E k \in leases' : k.id = j.id /\ k.left > 0
    BY DEF KeepsLive
  <2>2. CASE j = l
    BY <1>2, <2>2
  <2>3. CASE j # l
    <3>1. j \in leases'
      BY <2>1, <2>3 DEF Live
    <3> QED BY <2>1, <3>1
  <2> QED BY <2>2, <2>3
<1> QED BY <1>3, <1>4

\* The leases stay as they are.
LEMMA SameGoesOn ==
  ASSUME InductiveInv, UNCHANGED leases
  PROVE  Prolongs /\ KeepsLive
<1>1. \A l \in leases : l.left >= l.left
  BY DEF InductiveInv, TypeOK, Lease
<1> QED BY <1>1 DEF Prolongs, KeepsLive

\* The lease manager gives an agent a lease: the store goes on, and what it
\* gave is the current lease of the agent.
LEMMA GrantGoesOn ==
  ASSUME InductiveInv, NEW a \in Agents, Granted(a)
  PROVE  /\ InductiveInv'
         /\ Prolongs /\ KeepsLive
         /\ used \subseteq used'
         /\ \E k \in leases' : k.agent = a /\ k.current
<1>1. leases \in SUBSET Lease
  BY DEF InductiveInv, TypeOK
<1>2. ASSUME NEW id, NEW excluded, AcquireSticky(a, id, excluded)
      PROVE  /\ InductiveInv'
             /\ Prolongs /\ KeepsLive
             /\ used \subseteq used'
             /\ \E k \in leases' : k.agent = a /\ k.current
  <2>1. PICK l \in Current(Live(leases), a) :
          /\ Sticky(l, excluded)
          /\ leases' = (Live(leases) \ {l}) \cup {Renewed(l)}
    BY <1>2 DEF AcquireSticky, Save
  <2>2. l \in leases /\ l.left > 0 /\ MatchesPolicy(l) /\ l.agent = a /\ l.current
    BY <2>1 DEF Current, Live, Sticky
  <2>3. Renewed(l) = Prolonged(l)
    BY <1>1, <2>2, RenewedIsProlonged
  <2>4. Live(leases) \in SUBSET leases
    BY DEF Live
  <2>5. Prolongs /\ KeepsLive
    BY <2>1, <2>2, <2>3, <2>4, ProlongedGoesOn
  <2>6. Prolonged(l).agent = a /\ Prolonged(l).current
    BY <1>1, <2>2 DEF Prolonged, Lease
  <2>7. InductiveInv' /\ used' = used
    BY <1>2, AcquireStickyStep DEF AcquireSticky
  <2> QED BY <2>1, <2>3, <2>5, <2>6, <2>7
<1>3. ASSUME NEW id, NEW excluded, NEW newId \in Ids, AcquireNew(a, id, excluded, newId)
      PROVE  /\ InductiveInv'
             /\ Prolongs /\ KeepsLive
             /\ used \subseteq used'
             /\ \E k \in leases' : k.agent = a /\ k.current
  <2>1. PICK p : leases' = Demoted(Live(leases), a) \cup
                   {[agent |-> a, id |-> newId, slot |-> p - config.start, port |-> p,
                     gen |-> config.gen, current |-> TRUE,
                     ttl |-> config.ttl, left |-> config.ttl]}
    BY <1>3 DEF AcquireNew, Save
  <2>2. newId \notin used /\ used' = used \cup {newId}
    BY <1>3 DEF AcquireNew
  <2>3. \A l \in Live(leases) :
          /\ [l EXCEPT !.current = @ /\ l.agent # a].id = l.id
          /\ [l EXCEPT !.current = @ /\ l.agent # a].agent = l.agent
          /\ [l EXCEPT !.current = @ /\ l.agent # a].left = l.left
          /\ l.left \in Nat
    BY <1>1 DEF Live, Lease
  <2>4. Prolongs
    <3>1. SUFFICES ASSUME NEW k \in leases', k.id \in used
                   PROVE  \E l \in leases : /\ l.id = k.id /\ l.agent = k.agent
                                            /\ k.left >= l.left
                                            /\ k.left > 0 => l.left > 0
      BY DEF Prolongs
    <3>2. k \in Demoted(Live(leases), a)
      BY <2>1, <2>2, <3>1
    <3>3. PICK l \in Live(leases) : k = [l EXCEPT !.current = @ /\ l.agent # a]
      BY <3>2 DEF Demoted
    <3>4. l \in leases /\ k.id = l.id /\ k.agent = l.agent /\ k.left = l.left /\ l.left \in Nat
      BY <2>3, <3>3 DEF Live
    <3> QED BY <3>4
  <2>5. KeepsLive
    <3>1. SUFFICES ASSUME NEW l \in leases, l.left > 0
                   PROVE  \E k \in leases' : k.id = l.id /\ k.left > 0
      BY DEF KeepsLive
    <3>2. l \in Live(leases)
      BY <3>1 DEF Live
    <3>3. [l EXCEPT !.current = @ /\ l.agent # a] \in leases'
      BY <2>1, <3>2 DEF Demoted
    <3> QED BY <2>3, <3>1, <3>2, <3>3
  <2>6. InductiveInv'
    BY <1>3, AcquireNewStep
  <2>7. \E k \in leases' : k.agent = a /\ k.current
    <3>1. PICK k : k = [agent |-> a, id |-> newId, slot |-> p - config.start, port |-> p,
                       gen |-> config.gen, current |-> TRUE,
                       ttl |-> config.ttl, left |-> config.ttl]
      OBVIOUS
    <3>2. k \in leases' /\ k.agent = a /\ k.current
      BY <2>1, <3>1
    <3> QED BY <3>2
  <2>8. used \subseteq used'
    BY <2>2
  <2> QED BY <2>4, <2>5, <2>6, <2>7, <2>8
<1> QED BY <1>2, <1>3 DEF Granted

\* What the agent is told of it was drawn for the agent.
LEMMA AnswerOwned ==
  ASSUME InductiveInv, NEW a \in Agents, Granted(a)
  PROVE  GrantedLease(a) \in Given /\ Owned(a, GrantedLease(a).id, used', leases')
<1>1. InductiveInv' /\ \E k \in leases' : k.agent = a /\ k.current
  BY GrantGoesOn
<1>2. PICK l : l = CHOOSE k \in leases' : k.agent = a /\ k.current
  OBVIOUS
<1>3. l \in leases' /\ l.agent = a
  BY <1>1, <1>2
<1>4. l \in Lease /\ l.id \in used' /\ \A k \in leases' : k.id = l.id => k = l
  BY <1>1, <1>3 DEF InductiveInv, TypeOK, Consistent, Acceptable, Lease, Ports, Gens
<1>5. GrantedLease(a) = [id |-> l.id, slot |-> l.slot, port |-> l.port, gen |-> l.gen]
  BY <1>2 DEF GrantedLease
<1> QED BY <1>3, <1>4, <1>5 DEF Given, Owned, Lease

\* A renewal under the policy that the handler took.
LEMMA RenewalGoesOn ==
  ASSUME AgentIInv, NEW a \in Agents, HbRenew(a)
  PROVE  /\ InductiveInv'
         /\ Prolongs /\ KeepsLive
         /\ UNCHANGED used
<1>1. leases \in SUBSET Lease
  BY DEF AgentIInv, InductiveInv, TypeOK
<1>2. CASE UNCHANGED vars
  <2>1. InductiveInv'
    BY <1>2, InductiveStep DEF AgentIInv
  <2> QED BY <1>2, <2>1, SameGoesOn DEF AgentIInv, vars
<1>3. CASE ~UNCHANGED vars
  <2>1. PICK l \in Current(leases, a) :
          /\ l.left > 0 /\ l.ttl = hb[a].cfg.ttl
          /\ IF Due(l, hb[a].cfg)
               THEN Save((leases \ {l}) \cup {[l EXCEPT !.left = hb[a].cfg.ttl]})
               ELSE UNCHANGED <<leases, disk>>
          /\ UNCHANGED <<config, started, used, handed>>
    BY <1>3 DEF HbRenew
  <2>2. l \in leases /\ Live(leases) \subseteq leases
    BY DEF Current, Live
  <2>3. CASE Due(l, hb[a].cfg)
    <3>1. Save((leases \ {l}) \cup {Prolonged(l)})
      BY <2>1, <2>3 DEF Prolonged
    <3>2. InductiveInv'
      BY <2>1, <2>2, <3>1, RenewedStep DEF AgentIInv
    <3>3. Prolongs /\ KeepsLive
      BY <2>1, <2>2, <3>1, ProlongedGoesOn DEF AgentIInv, Save
    <3> QED BY <2>1, <3>2, <3>3
  <2>4. CASE ~Due(l, hb[a].cfg)
    BY <1>3, <2>1, <2>4 DEF vars
  <2> QED BY <2>3, <2>4
<1> QED BY <1>2, <1>3

\* A release, a restart or time: what is stored was stored before.
LEMMA OthersDerive ==
  ASSUME InductiveInv, Restart \/ Tick \/ \E a \in Agents, id \in Ids, gen \in Gens : Release(a, id, gen)
  PROVE  Derives /\ UNCHANGED used
<1>1. leases = disk /\ leases \in SUBSET Lease
  BY DEF InductiveInv, TypeOK, Consistent
<1>2. CASE Tick
  <2>1. ASSUME NEW k \in leases'
        PROVE  \E l \in leases : l.id = k.id /\ l.agent = k.agent
    <3>1. PICK l \in leases : k = [l EXCEPT !.left = IF @ > 0 THEN @ - 1 ELSE 0]
      BY <1>2 DEF Tick, Later
    <3>2. k.id = l.id /\ k.agent = l.agent
      BY <1>1, <3>1 DEF Lease
    <3> QED BY <3>2
  <2> QED BY <1>2, <2>1 DEF Derives, Tick
<1>3. CASE ~Tick
  <2>1. leases' \subseteq leases /\ used' = used
    BY <1>1, <1>3 DEF Restart, Release, Save, Live
  <2> QED BY <2>1 DEF Derives
<1> QED BY <1>2, <1>3

\* A release or a restart only removes leases.
LEMMA RemovalProlongs ==
  ASSUME InductiveInv, Restart \/ \E a \in Agents, id \in Ids, gen \in Gens : Release(a, id, gen)
  PROVE  Prolongs
<1>1. leases = disk /\ leases \in SUBSET Lease
  BY DEF InductiveInv, TypeOK, Consistent
<1>2. leases' \subseteq leases
  BY <1>1 DEF Restart, Release, Save, Live
<1>3. \A l \in leases : l.left >= l.left
  BY <1>1 DEF Lease
<1> QED BY <1>2, <1>3 DEF Prolongs

LEMMA ProlongsDerives ==
  ASSUME Prolongs PROVE Derives
BY DEF Prolongs, Derives

\* An id that was drawn for an agent stays the agent's.
LEMMA OwnedStays ==
  ASSUME Derives, used \subseteq used', NEW a, NEW id, Owned(a, id, used, leases)
  PROVE  Owned(a, id, used', leases')
BY DEF Derives, Owned
-----------------------------------------------------------------------------
(* The steps of the loops.                                                 *)

\* The names in the loops and routes stay the agents' own, when a manager's
\* lease is kept, given up or just given, a heartbeat takes its manager's, and
\* a route its heartbeat's.
LEMMA IdsOwnedKept ==
  ASSUME AgentIInv, Derives, used \subseteq used',
         \A b \in Agents :
           /\ \/ mgr'[b].lease \in {mgr[b].lease, NoLease}
              \/ Owned(b, mgr'[b].lease.id, used', leases')
           /\ \/ hb'[b].step = "none"
              \/ hb[b].step # "none" /\ hb'[b].lease = hb[b].lease
              \/ mgr[b].lease # NoLease /\ hb'[b].lease = mgr[b].lease
           /\ \/ ~route'[b].leased
              \/ route[b].leased /\ route'[b].id = route[b].id
              \/ hb[b].step # "none" /\ route'[b].id = hb[b].lease.id
  PROVE  IdsOwned'
<1>1. ASSUME NEW b \in Agents
      PROVE  /\ mgr'[b].lease # NoLease => Owned(b, mgr'[b].lease.id, used', leases')
             /\ hb'[b].step # "none" => Owned(b, hb'[b].lease.id, used', leases')
             /\ route'[b].leased => Owned(b, route'[b].id, used', leases')
  <2>1. /\ mgr[b].lease # NoLease => Owned(b, mgr[b].lease.id, used', leases')
        /\ hb[b].step # "none" => Owned(b, hb[b].lease.id, used', leases')
        /\ route[b].leased => Owned(b, route[b].id, used', leases')
    BY OwnedStays DEF AgentIInv, IdsOwned
  <2>2. mgr'[b].lease # NoLease => Owned(b, mgr'[b].lease.id, used', leases')
    BY <2>1
  <2>3. hb'[b].step # "none" => Owned(b, hb'[b].lease.id, used', leases')
    BY <2>1
  <2>4. route'[b].leased => Owned(b, route'[b].id, used', leases')
    BY <2>1
  <2> QED BY <2>2, <2>3, <2>4
<1> QED BY <1>1 DEF IdsOwned, Owned

\* A step of one manager that has nothing to examine.
LEMMA ManagerKeeps ==
  ASSUME AgentIInv, NEW a \in Agents,
         InductiveInv', Derives, used \subseteq used',
         mgr' \in [Agents -> Manager],
         \A b \in Agents : b # a => mgr'[b] = mgr[b],
         mgr'[a].phase \in {"starting", "active", "examining", "parked"} => mgr'[a].lease \in Given,
         \/ mgr'[a].lease \in {mgr[a].lease, NoLease}
         \/ Owned(a, mgr'[a].lease.id, used', leases'),
         mgr[a].phase # "examining",
         UNCHANGED <<invalid, signal, hb, route>>,
         wire' \subseteq Released, tunnels' \subseteq Tunnel, faults' \in 0 .. MaxFaults
  PROVE  AgentIInv'
<1>1. MgrProper'
  BY DEF AgentIInv, MgrProper
<1>2. HbProper'
  BY DEF AgentIInv, HbProper
<1>3. invalid' \in [Agents -> SUBSET used']
  BY DEF AgentIInv, RestTyped
<1>4. RestTyped'
  BY <1>3 DEF AgentIInv, RestTyped
<1>5. IdsOwned'
  <2>1. \A b \in Agents :
           /\ \/ mgr'[b].lease \in {mgr[b].lease, NoLease}
              \/ Owned(b, mgr'[b].lease.id, used', leases')
           /\ \/ hb'[b].step = "none"
              \/ hb[b].step # "none" /\ hb'[b].lease = hb[b].lease
              \/ mgr[b].lease # NoLease /\ hb'[b].lease = mgr[b].lease
           /\ \/ ~route'[b].leased
              \/ route[b].leased /\ route'[b].id = route[b].id
              \/ hb[b].step # "none" /\ route'[b].id = hb[b].lease.id
    OBVIOUS
  <2> QED BY <2>1, IdsOwnedKept
<1>6. PendingSeen'
  <2>1. ASSUME NEW b \in Agents, invalid[b] # {}, ~signal[b], hb[b].step # "invalidate"
        PROVE  mgr'[b].phase = "examining"
    BY <2>1 DEF AgentIInv, PendingSeen
  <2> QED BY <2>1 DEF PendingSeen
<1> QED BY <1>1, <1>2, <1>4, <1>5, <1>6 DEF AgentIInv

\* A lease given up or kept, a phase reached: what becomes of the manager.
LEMMA RestartingForm ==
  ASSUME AgentIInv, NEW a \in Agents, NEW lease \in Given \cup {NoLease}, Restarting(a, lease)
  PROVE  /\ mgr' \in [Agents -> Manager]
         /\ \A b \in Agents : b # a => mgr'[b] = mgr[b]
         /\ mgr'[a].phase = "fetch" /\ mgr'[a].lease = NoLease /\ mgr'[a].repl = lease
<1>1. mgr \in [Agents -> Manager]
  BY DEF AgentIInv, MgrProper
<1>2. PICK m : m = [Fresh EXCEPT !.repl = lease]
  OBVIOUS
<1>3. m \in Manager /\ m.phase = "fetch" /\ m.lease = NoLease /\ m.repl = lease
  BY <1>2 DEF Fresh, Manager, Phases
<1>4. mgr' = [mgr EXCEPT ![a] = m]
  BY <1>2 DEF Restarting
<1> QED BY <1>1, <1>3, <1>4

LEMMA PhaseForm ==
  ASSUME AgentIInv, NEW a \in Agents, NEW phase \in Phases, mgr' = [mgr EXCEPT ![a].phase = phase]
  PROVE  /\ mgr' \in [Agents -> Manager]
         /\ \A b \in Agents : b # a => mgr'[b] = mgr[b]
         /\ mgr'[a].phase = phase /\ mgr'[a].lease = mgr[a].lease
<1>1. mgr \in [Agents -> Manager] /\ mgr[a] \in Manager
  BY DEF AgentIInv, MgrProper
<1>2. PICK m : m = [mgr[a] EXCEPT !.phase = phase]
  OBVIOUS
<1>3. m \in Manager /\ m.phase = phase /\ m.lease = mgr[a].lease
  BY <1>1, <1>2 DEF Manager
<1>4. mgr' = [mgr EXCEPT ![a] = m]
  BY <1>2
<1> QED BY <1>1, <1>3, <1>4

LEMMA ReleaseTyped ==
  ASSUME NEW a \in Agents, NEW lease \in Given \cup {NoLease}
  PROVE  ReleaseOf(a, lease) \subseteq Released
BY DEF ReleaseOf, Released, Given

LEMMA FaultCounted ==
  ASSUME AgentIInv, ClientEnds
  PROVE  faults' \in 0 .. MaxFaults
BY AgentTransportAssumption DEF AgentIInv, RestTyped, ClientEnds

\* The leases as they are.
LEMMA QuietVars ==
  ASSUME InductiveInv, UNCHANGED vars
  PROVE  InductiveInv' /\ Prolongs /\ Derives /\ KeepsLive /\ used \subseteq used'
BY InductiveStep, SameGoesOn, ProlongsDerives DEF vars

\* The manager's fetch and its questions for a lease.
LEMMA FetchStep ==
  ASSUME AgentIInv, NEW a \in Agents, FetchDesired(a)
  PROVE  AgentIInv'
<1>1. /\ UNCHANGED <<vars, invalid, signal, hb, tunnels, route, faults>>
      /\ mgr[a].phase # "examining"
      /\ wire' \in {wire, wire \cup ReleaseOf(a, mgr[a].repl)}
  BY DEF FetchDesired
<1>2. mgr \in [Agents -> Manager] /\ mgr[a].repl \in Given \cup {NoLease}
  BY DEF AgentIInv, MgrProper, Manager
<1>3. config \in Configs
  BY DEF AgentIInv, InductiveInv, TypeOK
<1>4. PICK m \in Manager : /\ mgr' = [mgr EXCEPT ![a] = m]
                           /\ m.phase \in {"asking", "legacy"} /\ m.lease = NoLease
  <2>1. PICK phase \in {"asking", "legacy"}, repl \in {mgr[a].repl, NoLease} :
          mgr' = [mgr EXCEPT ![a] = [Fresh EXCEPT !.phase = phase, !.cfg = config, !.repl = repl]]
    BY DEF FetchDesired, Desired
  <2>2. PICK m : m = [Fresh EXCEPT !.phase = phase, !.cfg = config, !.repl = repl]
    OBVIOUS
  <2>3. m \in Manager /\ m.phase = phase /\ m.lease = NoLease
    BY <1>2, <1>3, <2>2 DEF Fresh, Manager, Phases
  <2> QED BY <2>1, <2>2, <2>3
<1>5. /\ mgr' \in [Agents -> Manager]
      /\ \A b \in Agents : b # a => mgr'[b] = mgr[b]
      /\ mgr'[a].phase \in {"asking", "legacy"} /\ mgr'[a].lease = NoLease
  BY <1>2, <1>4
<1>6. wire' \subseteq Released /\ tunnels' \subseteq Tunnel /\ faults' \in 0 .. MaxFaults
  BY <1>1, <1>2, ReleaseTyped DEF AgentIInv, RestTyped
<1>7. InductiveInv' /\ Derives /\ used \subseteq used'
  BY <1>1, QuietVars DEF AgentIInv
<1> QED BY <1>1, <1>5, <1>6, <1>7, ManagerKeeps

LEMMA AskStep ==
  ASSUME AgentIInv, NEW a \in Agents, AskGranted(a) \/ AskGrantedUnheard(a) \/ AskRefused(a)
  PROVE  AgentIInv'
<1>1. /\ UNCHANGED <<invalid, signal, hb, wire, tunnels, route, faults>>
      /\ mgr[a].phase = "asking"
  BY DEF AskGranted, AskGrantedUnheard, AskRefused
<1>2. wire' \subseteq Released /\ tunnels' \subseteq Tunnel /\ faults' \in 0 .. MaxFaults
  BY <1>1 DEF AgentIInv, RestTyped
<1>3. CASE AskGranted(a)
  <2>1. InductiveInv' /\ Derives /\ used \subseteq used'
    BY <1>3, GrantGoesOn, ProlongsDerives DEF AgentIInv, AskGranted
  <2>2. PICK l : l = GrantedLease(a)
    OBVIOUS
  <2>3. l \in Given /\ Owned(a, l.id, used', leases')
    BY <1>3, <2>2, AnswerOwned DEF AgentIInv, AskGranted
  <2>4. mgr \in [Agents -> Manager] /\ mgr[a] \in Manager
    BY DEF AgentIInv, MgrProper
  <2>5. mgr' = [mgr EXCEPT ![a].phase = "starting", ![a].lease = l]
    BY <1>3, <2>2 DEF AskGranted
  <2>6. PICK m : m = [mgr[a] EXCEPT !.phase = "starting", !.lease = l]
    OBVIOUS
  <2>7. m \in Manager /\ m.phase = "starting" /\ m.lease = l
    BY <2>3, <2>4, <2>6 DEF Manager, Phases
  <2>8. mgr' = [mgr EXCEPT ![a] = m]
    BY <2>4, <2>5, <2>6
  <2>9. /\ mgr' \in [Agents -> Manager]
        /\ \A b \in Agents : b # a => mgr'[b] = mgr[b]
        /\ mgr'[a].phase = "starting" /\ mgr'[a].lease = l
    BY <2>4, <2>7, <2>8
  <2> QED BY <1>1, <1>2, <2>1, <2>3, <2>9, ManagerKeeps
<1>4. CASE AskGrantedUnheard(a) \/ AskRefused(a)
  <2>1. InductiveInv' /\ Derives /\ used \subseteq used'
    BY <1>4, GrantGoesOn, ProlongsDerives, QuietVars DEF AgentIInv, AskGrantedUnheard, AskRefused
  <2>2. mgr' = [mgr EXCEPT ![a].phase = "fetch"] /\ "fetch" \in Phases
    BY <1>4 DEF AskGrantedUnheard, AskRefused, Phases
  <2>3. /\ mgr' \in [Agents -> Manager]
        /\ \A b \in Agents : b # a => mgr'[b] = mgr[b]
        /\ mgr'[a].phase = "fetch" /\ mgr'[a].lease = mgr[a].lease
    BY <2>2, PhaseForm
  <2> QED BY <1>1, <1>2, <2>1, <2>3, ManagerKeeps
<1> QED BY <1>3, <1>4

\* A registration is of the manager's lease.
LEMMA RegistersTyped ==
  ASSUME AgentIInv, NEW a \in Agents, mgr[a].lease \in Given, Registers(a)
  PROVE  tunnels' \subseteq Tunnel
BY DEF AgentIInv, RestTyped, Registers, Tunnel, Given

\* The client is ready, or its registration fails.
LEMMA ClientStep ==
  ASSUME AgentIInv, NEW a \in Agents, Ready(a) \/ RegistrationFails(a) \/ RunEnds(a)
  PROVE  AgentIInv'
<1>1. /\ UNCHANGED <<vars, invalid, signal, hb, route, wire>>
      /\ mgr[a].phase \in {"starting", "active"}
  BY DEF Ready, RegistrationFails, RunEnds
<1>2. mgr \in [Agents -> Manager] /\ mgr[a] \in Manager /\ mgr[a].lease \in Given
  BY <1>1 DEF AgentIInv, MgrProper
<1>3. InductiveInv' /\ Derives /\ used \subseteq used'
  BY <1>1, QuietVars DEF AgentIInv
<1>4. wire' \subseteq Released
  BY <1>1 DEF AgentIInv, RestTyped
<1>5. CASE Ready(a)
  <2>1. tunnels' \subseteq Tunnel /\ faults' \in 0 .. MaxFaults
    BY <1>2, <1>5, RegistersTyped DEF Ready, AgentIInv, RestTyped
  <2>2. mgr' = [mgr EXCEPT ![a].phase = "active", ![a].repl = NoLease]
    BY <1>5 DEF Ready
  <2>3. PICK m : m = [mgr[a] EXCEPT !.phase = "active", !.repl = NoLease]
    OBVIOUS
  <2>4. m \in Manager /\ m.phase = "active" /\ m.lease = mgr[a].lease
    BY <1>2, <2>3 DEF Manager, Phases
  <2>5. mgr' = [mgr EXCEPT ![a] = m]
    BY <1>2, <2>2, <2>3
  <2>6. /\ mgr' \in [Agents -> Manager]
        /\ \A b \in Agents : b # a => mgr'[b] = mgr[b]
        /\ mgr'[a].phase = "active" /\ mgr'[a].lease = mgr[a].lease
    BY <1>2, <2>4, <2>5
  <2> QED BY <1>1, <1>2, <1>3, <1>4, <2>1, <2>6, ManagerKeeps
<1>6. CASE RegistrationFails(a) \/ RunEnds(a)
  <2>1. tunnels' \subseteq Tunnel
    BY <1>6 DEF RegistrationFails, RunEnds, ClientClosed, AgentIInv, RestTyped
  <2>2. faults' \in 0 .. MaxFaults
    BY <1>6, FaultCounted DEF RegistrationFails, RunEnds, AgentIInv, RestTyped
  <2>3. Restarting(a, mgr[a].lease)
    BY <1>6 DEF RegistrationFails, RunEnds
  <2>4. /\ mgr' \in [Agents -> Manager]
        /\ \A b \in Agents : b # a => mgr'[b] = mgr[b]
        /\ mgr'[a].phase = "fetch" /\ mgr'[a].lease = NoLease
    BY <1>2, <2>3, RestartingForm
  <2> QED BY <1>1, <1>3, <1>4, <2>1, <2>2, <2>4, ManagerKeeps
<1> QED BY <1>5, <1>6

\* What stopping or parking a client makes of the manager, with a lease.
LEMMA StoppedForm ==
  ASSUME AgentIInv, NEW a \in Agents, mgr[a].lease \in Given,
         (StopAndRelease(a) /\ (UNCHANGED faults \/ ClientEnds)) \/ Park(a)
  PROVE  /\ mgr' \in [Agents -> Manager]
         /\ \A b \in Agents : b # a => mgr'[b] = mgr[b]
         /\ \/ mgr'[a].phase = "fetch" /\ mgr'[a].lease = NoLease
            \/ mgr'[a].phase = "parked" /\ mgr'[a].lease = mgr[a].lease
         /\ wire' \subseteq Released /\ tunnels' \subseteq Tunnel /\ faults' \in 0 .. MaxFaults
<1>1. wire \subseteq Released /\ tunnels \subseteq Tunnel /\ faults \in 0 .. MaxFaults
  BY DEF AgentIInv, RestTyped
<1>2. CASE StopAndRelease(a) /\ (UNCHANGED faults \/ ClientEnds)
  <2>1. Restarting(a, NoLease)
    BY <1>2 DEF StopAndRelease
  <2>2. /\ mgr' \in [Agents -> Manager]
        /\ \A b \in Agents : b # a => mgr'[b] = mgr[b]
        /\ mgr'[a].phase = "fetch" /\ mgr'[a].lease = NoLease
    BY <2>1, RestartingForm
  <2>3. wire' \subseteq Released /\ tunnels' \subseteq Tunnel
    BY <1>1, <1>2, ReleaseTyped DEF StopAndRelease, ClientClosed
  <2>4. faults' \in 0 .. MaxFaults
    BY <1>1, <1>2, FaultCounted
  <2> QED BY <2>2, <2>3, <2>4
<1>3. CASE Park(a)
  <2>1. "parked" \in Phases /\ mgr' = [mgr EXCEPT ![a].phase = "parked"]
    BY <1>3 DEF Park, Phases
  <2>2. faults' \in 0 .. MaxFaults
    BY <1>3, FaultCounted DEF Park, ClientEnds
  <2> QED BY <1>1, <1>3, <2>1, <2>2, PhaseForm DEF Park
<1> QED BY <1>2, <1>3

\* A client that cannot be made, or is not wanted any more, is stopped.
LEMMA StopStep ==
  ASSUME AgentIInv, NEW a \in Agents, BootstrapFails(a) \/ PollChanged(a)
  PROVE  AgentIInv'
<1>1. /\ UNCHANGED <<vars, invalid, signal, hb, route>>
      /\ mgr[a].phase \in {"starting", "active"}
      /\ (StopAndRelease(a) /\ (UNCHANGED faults \/ ClientEnds)) \/ Park(a)
  BY DEF BootstrapFails, PollChanged
<1>2. mgr[a].lease \in Given
  BY <1>1 DEF AgentIInv, MgrProper
<1>3. /\ mgr' \in [Agents -> Manager]
      /\ \A b \in Agents : b # a => mgr'[b] = mgr[b]
      /\ \/ mgr'[a].phase = "fetch" /\ mgr'[a].lease = NoLease
         \/ mgr'[a].phase = "parked" /\ mgr'[a].lease = mgr[a].lease
      /\ wire' \subseteq Released /\ tunnels' \subseteq Tunnel /\ faults' \in 0 .. MaxFaults
  BY <1>1, <1>2, StoppedForm
<1>4. InductiveInv' /\ Derives /\ used \subseteq used'
  BY <1>1, QuietVars DEF AgentIInv
<1> QED BY <1>1, <1>2, <1>3, <1>4, ManagerKeeps

\* The signal of an invalidation is received: it is being looked at.
LEMMA ExamineStep ==
  ASSUME AgentIInv, NEW a \in Agents, ExamineInvalidation(a)
  PROVE  AgentIInv'
<1>1. /\ UNCHANGED <<vars, invalid, hb, wire, tunnels, route, faults>>
      /\ mgr[a].phase = "active"
      /\ signal' = [signal EXCEPT ![a] = FALSE]
      /\ mgr' = [mgr EXCEPT ![a].phase = "examining"] /\ "examining" \in Phases
  BY DEF ExamineInvalidation, Phases
<1>2. /\ mgr' \in [Agents -> Manager]
      /\ \A b \in Agents : b # a => mgr'[b] = mgr[b]
      /\ mgr'[a].phase = "examining" /\ mgr'[a].lease = mgr[a].lease
  BY <1>1, PhaseForm
<1>3. InductiveInv' /\ Derives /\ used \subseteq used' /\ UNCHANGED used
  BY <1>1, QuietVars DEF AgentIInv, vars
<1>4. MgrProper'
  BY <1>1, <1>2 DEF AgentIInv, MgrProper
<1>5. HbProper' /\ RestTyped'
  BY <1>1, <1>3 DEF AgentIInv, HbProper, RestTyped
<1>6. IdsOwned'
  <2>1. \A b \in Agents : mgr'[b].lease = mgr[b].lease
    BY <1>2
  <2> QED BY <1>1, <1>3, <2>1, IdsOwnedKept
<1>7. PendingSeen'
  <2>1. \A b \in Agents : b # a => signal'[b] = signal[b]
    BY <1>1 DEF AgentIInv, RestTyped
  <2> QED BY <1>1, <1>2, <2>1 DEF AgentIInv, PendingSeen
<1> QED BY <1>3, <1>4, <1>5, <1>6, <1>7 DEF AgentIInv

\* Everything pending is taken at once.
LEMMA TakeStep ==
  ASSUME AgentIInv, NEW a \in Agents, TakeInvalidation(a)
  PROVE  AgentIInv'
<1>1. /\ UNCHANGED <<vars, signal, hb, route>>
      /\ mgr[a].phase = "examining"
      /\ invalid' = [invalid EXCEPT ![a] = {}]
  BY DEF TakeInvalidation
<1>2. mgr[a].lease \in Given
  BY <1>1 DEF AgentIInv, MgrProper
<1>3. /\ mgr' \in [Agents -> Manager]
      /\ \A b \in Agents : b # a => mgr'[b] = mgr[b]
      /\ \/ mgr'[a].phase = "fetch" /\ mgr'[a].lease = NoLease
         \/ mgr'[a].phase \in {"parked", "active"} /\ mgr'[a].lease = mgr[a].lease
      /\ wire' \subseteq Released /\ tunnels' \subseteq Tunnel /\ faults' \in 0 .. MaxFaults
  <2>1. CASE (StopAndRelease(a) /\ UNCHANGED faults) \/ Park(a)
    BY <1>2, <2>1, StoppedForm
  <2>2. CASE mgr' = [mgr EXCEPT ![a].phase = "active"] /\ UNCHANGED <<wire, tunnels, faults>>
    <3>1. "active" \in Phases
      BY DEF Phases
    <3>2. wire' \subseteq Released /\ tunnels' \subseteq Tunnel /\ faults' \in 0 .. MaxFaults
      BY <2>2 DEF AgentIInv, RestTyped
    <3> QED BY <2>2, <3>1, <3>2, PhaseForm
  <2> QED BY <2>1, <2>2 DEF TakeInvalidation
<1>4. InductiveInv' /\ Derives /\ used \subseteq used' /\ UNCHANGED used
  BY <1>1, QuietVars DEF AgentIInv, vars
<1>5. MgrProper'
  BY <1>2, <1>3 DEF AgentIInv, MgrProper
<1>6. HbProper'
  BY <1>1 DEF AgentIInv, HbProper
<1>7. RestTyped'
  BY <1>1, <1>3, <1>4 DEF AgentIInv, RestTyped
<1>8. IdsOwned'
  <2>1. \A b \in Agents : mgr'[b].lease \in {mgr[b].lease, NoLease}
    BY <1>3
  <2> QED BY <1>1, <1>4, <2>1, IdsOwnedKept
<1>9. PendingSeen'
  <2>1. invalid'[a] = {} /\ \A b \in Agents : b # a => invalid'[b] = invalid[b]
    BY <1>1 DEF AgentIInv, RestTyped
  <2> QED BY <1>1, <1>3, <2>1 DEF AgentIInv, PendingSeen
<1> QED BY <1>4, <1>5, <1>6, <1>7, <1>8, <1>9 DEF AgentIInv

\* The agent's process ends, in order or not: the next one knows nothing.
LEMMA RebornStep ==
  ASSUME AgentIInv, NEW a \in Agents, Shutdown(a) \/ Crash(a)
  PROVE  AgentIInv'
<1>1. /\ UNCHANGED <<vars, route>>
      /\ faults < MaxFaults /\ faults' = faults + 1
      /\ hb' = [hb EXCEPT ![a] = Quiet]
      /\ mgr' = [mgr EXCEPT ![a] = Fresh]
      /\ invalid' = [invalid EXCEPT ![a] = {}]
      /\ signal' = [signal EXCEPT ![a] = FALSE]
  BY DEF Shutdown, Crash, Reborn
<1>2. /\ mgr \in [Agents -> Manager] /\ hb \in [Agents -> Heartbeat]
      /\ Fresh \in Manager /\ Fresh.phase = "fetch" /\ Fresh.lease = NoLease
      /\ Quiet \in Heartbeat /\ Quiet.step = "none"
  BY DEF AgentIInv, MgrProper, HbProper, Fresh, Manager, Phases, Quiet, Heartbeat, HbSteps
<1>3. /\ mgr' \in [Agents -> Manager] /\ mgr'[a] = Fresh
      /\ hb' \in [Agents -> Heartbeat] /\ hb'[a] = Quiet
      /\ \A b \in Agents : b # a => mgr'[b] = mgr[b] /\ hb'[b] = hb[b]
  BY <1>1, <1>2
<1>4. InductiveInv' /\ Derives /\ used \subseteq used' /\ UNCHANGED used
  BY <1>1, QuietVars DEF AgentIInv, vars
<1>5. MgrProper' /\ HbProper'
  BY <1>2, <1>3 DEF AgentIInv, MgrProper, HbProper
<1>6. RestTyped'
  <2>1. mgr[a].lease \in Given \cup {NoLease} /\ mgr[a].repl \in Given \cup {NoLease}
    BY <1>2 DEF Manager
  <2>2. wire' \subseteq wire \cup ReleaseOf(a, mgr[a].lease) \cup ReleaseOf(a, mgr[a].repl)
    <3>1. CASE Crash(a)
      BY <3>1 DEF Crash
    <3>2. CASE Shutdown(a)
      BY <3>2 DEF Shutdown
    <3> QED BY <3>1, <3>2
  <2>3. wire' \subseteq Released
    BY <2>1, <2>2, ReleaseTyped DEF AgentIInv, RestTyped
  <2>4. tunnels' \subseteq tunnels
    BY DEF Shutdown, Crash, ClientClosed
  <2>5. faults' \in 0 .. MaxFaults
    BY <1>1, FaultCounted DEF ClientEnds
  <2> QED BY <1>1, <1>4, <2>3, <2>4, <2>5 DEF AgentIInv, RestTyped
<1>7. IdsOwned'
  <2>1. \A b \in Agents : /\ mgr'[b].lease \in {mgr[b].lease, NoLease}
                          /\ \/ hb'[b].step = "none"
                             \/ hb[b].step # "none" /\ hb'[b].lease = hb[b].lease
    BY <1>2, <1>3
  <2> QED BY <1>1, <1>4, <2>1, IdsOwnedKept
<1>8. PendingSeen'
  <2>1. /\ invalid'[a] = {}
        /\ \A b \in Agents : b # a => invalid'[b] = invalid[b] /\ signal'[b] = signal[b]
    BY <1>1 DEF AgentIInv, RestTyped
  <2> QED BY <1>3, <2>1 DEF AgentIInv, PendingSeen
<1> QED BY <1>4, <1>5, <1>6, <1>7, <1>8 DEF AgentIInv

\* A heartbeat's next step.
LEMMA HbForm ==
  ASSUME AgentIInv, NEW a \in Agents, NEW step \in HbSteps, HbGoes(a, step)
  PROVE  /\ hb' \in [Agents -> Heartbeat]
         /\ \A b \in Agents : b # a => hb'[b] = hb[b]
         /\ hb'[a].step = step /\ hb'[a].lease = hb[a].lease /\ hb'[a].cfg = hb[a].cfg
<1>1. hb \in [Agents -> Heartbeat] /\ hb[a] \in Heartbeat
  BY DEF AgentIInv, HbProper
<1>2. PICK h : h = [hb[a] EXCEPT !.step = step]
  OBVIOUS
<1>3. h \in Heartbeat /\ h.step = step /\ h.lease = hb[a].lease /\ h.cfg = hb[a].cfg
  BY <1>1, <1>2 DEF Heartbeat
<1>4. hb' = [hb EXCEPT ![a] = h]
  BY <1>2 DEF HbGoes
<1> QED BY <1>1, <1>3, <1>4

LEMMA QuietForm ==
  ASSUME AgentIInv, NEW a \in Agents, hb' = [hb EXCEPT ![a] = Quiet]
  PROVE  /\ hb' \in [Agents -> Heartbeat]
         /\ \A b \in Agents : b # a => hb'[b] = hb[b]
         /\ hb'[a].step = "none"
<1>1. hb \in [Agents -> Heartbeat] /\ Quiet \in Heartbeat /\ Quiet.step = "none"
  BY DEF AgentIInv, HbProper, Quiet, Heartbeat, HbSteps
<1> QED BY <1>1

\* A step of one heartbeat that is not about to signal.
LEMMA HeartbeatKeeps ==
  ASSUME AgentIInv, NEW a \in Agents,
         InductiveInv', Derives, used \subseteq used',
         hb' \in [Agents -> Heartbeat],
         \A b \in Agents : b # a => hb'[b] = hb[b],
         hb'[a].step # "none" => hb'[a].lease \in Given,
         hb'[a].step \in {"looked", "renewed"} => hb'[a].cfg \in Configs,
         hb'[a].step = "looked" => hb'[a].cfg.managed,
         \/ hb'[a].step = "none"
         \/ hb[a].step # "none" /\ hb'[a].lease = hb[a].lease
         \/ mgr[a].lease # NoLease /\ hb'[a].lease = mgr[a].lease,
         route' \in [Agents -> Route],
         \A b \in Agents :
           \/ ~route'[b].leased
           \/ route[b].leased /\ route'[b].id = route[b].id
           \/ hb[b].step # "none" /\ route'[b].id = hb[b].lease.id,
         hb[a].step # "invalidate",
         UNCHANGED <<mgr, invalid, signal, wire, tunnels, faults>>
  PROVE  AgentIInv'
<1>1. MgrProper'
  BY DEF AgentIInv, MgrProper
<1>2. HbProper'
  BY DEF AgentIInv, HbProper
<1>3. invalid' \in [Agents -> SUBSET used']
  BY DEF AgentIInv, RestTyped
<1>4. RestTyped'
  BY <1>3 DEF AgentIInv, RestTyped
<1>5. IdsOwned'
  BY IdsOwnedKept
<1>6. PendingSeen'
  <2>1. \A b \in Agents : hb[b].step = "invalidate" => hb'[b].step = "invalidate"
    OBVIOUS
  <2> QED BY <2>1 DEF AgentIInv, PendingSeen
<1> QED BY <1>1, <1>2, <1>4, <1>5, <1>6 DEF AgentIInv

\* A heartbeat is sent, or there is no tunnel to report.
LEMMA HbSendStep ==
  ASSUME AgentIInv, NEW a \in Agents, HbSend(a) \/ HbNotReady(a)
  PROVE  AgentIInv'
<1>1. UNCHANGED vars /\ UNCHANGED <<mgr, invalid, signal, wire, tunnels, faults>> /\ hb[a].step = "none"
  BY DEF HbSend, HbNotReady
<1>2. InductiveInv' /\ Derives /\ used \subseteq used'
  BY <1>1, QuietVars DEF AgentIInv
<1>3. CASE HbSend(a)
  <2>1. mgr[a].lease \in Given /\ mgr[a].lease # NoLease
    BY <1>3, TransportLeaseAssumption DEF HbSend, Serving, AgentIInv, MgrProper, Given, NoLease
  <2>2. PICK h : h = [step |-> "sent", lease |-> mgr[a].lease, cfg |-> NoCfg]
    OBVIOUS
  <2>3. h \in Heartbeat /\ h.step = "sent" /\ h.lease = mgr[a].lease
    BY <2>1, <2>2 DEF Heartbeat, HbSteps
  <2>4. hb' = [hb EXCEPT ![a] = h] /\ UNCHANGED route
    BY <1>3, <2>2 DEF HbSend
  <2>5. /\ hb' \in [Agents -> Heartbeat]
        /\ \A b \in Agents : b # a => hb'[b] = hb[b]
        /\ hb'[a].step = "sent" /\ hb'[a].lease = mgr[a].lease
    BY <2>3, <2>4 DEF AgentIInv, HbProper
  <2>6. route' \in [Agents -> Route]
    BY <2>4 DEF AgentIInv, RestTyped
  <2> QED BY <1>1, <1>2, <2>1, <2>4, <2>5, <2>6, HeartbeatKeeps
<1>4. CASE HbNotReady(a)
  <2>1. route' = [route EXCEPT ![a] = NoRoute] /\ UNCHANGED hb
    BY <1>4 DEF HbNotReady
  <2>2. NoRoute \in Route /\ ~NoRoute.leased
    BY AgentTransportAssumption DEF NoRoute, Route
  <2>3. /\ route' \in [Agents -> Route] /\ ~route'[a].leased
        /\ \A b \in Agents : b # a => route'[b] = route[b]
    BY <2>1, <2>2 DEF AgentIInv, RestTyped
  <2>4. hb' \in [Agents -> Heartbeat]
    BY <2>1 DEF AgentIInv, HbProper
  <2>5. \A b \in Agents :
           \/ ~route'[b].leased
           \/ route[b].leased /\ route'[b].id = route[b].id
           \/ hb[b].step # "none" /\ route'[b].id = hb[b].lease.id
    BY <2>3
  <2> QED BY <1>1, <1>2, <2>1, <2>3, <2>4, <2>5, HeartbeatKeeps
<1> QED BY <1>3, <1>4

\* The handler looks the lease up and renews it.
LEMMA HbHandleStep ==
  ASSUME AgentIInv, NEW a \in Agents, HbLookup(a) \/ HbRenew(a)
  PROVE  AgentIInv'
<1>1. /\ UNCHANGED <<mgr, invalid, signal, wire, tunnels, route, faults>>
      /\ hb[a].step \in {"sent", "looked"}
  BY DEF HbLookup, HbRenew
<1>2. /\ hb \in [Agents -> Heartbeat] /\ hb[a] \in Heartbeat /\ hb[a].lease \in Given
      /\ route \in [Agents -> Route]
  BY <1>1 DEF AgentIInv, HbProper, RestTyped
<1>3. CASE HbLookup(a)
  <2>1. UNCHANGED vars /\ config \in Configs
    BY <1>3 DEF HbLookup, AgentIInv, InductiveInv, TypeOK
  <2>2. InductiveInv' /\ Derives /\ used \subseteq used'
    BY <2>1, QuietVars DEF AgentIInv
  <2>3. PICK step \in {"renewed", "none", "looked", "refused"} :
          /\ hb' = [hb EXCEPT ![a].cfg = config, ![a].step = step]
          /\ step = "looked" => config.managed
    <3>1. CASE ~config.managed
      BY <1>3, <3>1 DEF HbLookup
    <3>2. CASE config.managed /\ ~started
      BY <1>3, <3>2 DEF HbLookup
    <3>3. CASE config.managed /\ started
      BY <1>3, <3>3 DEF HbLookup
    <3> QED BY <3>1, <3>2, <3>3
  <2>4. PICK h : h = [hb[a] EXCEPT !.cfg = config, !.step = step]
    OBVIOUS
  <2>5. h \in Heartbeat /\ h.step = step /\ h.cfg = config /\ h.lease = hb[a].lease
    BY <1>2, <2>1, <2>4 DEF Heartbeat, HbSteps
  <2>6. hb' = [hb EXCEPT ![a] = h]
    BY <1>2, <2>3, <2>4
  <2>7. /\ hb' \in [Agents -> Heartbeat] /\ hb'[a] = h
        /\ \A b \in Agents : b # a => hb'[b] = hb[b]
    BY <1>2, <2>5, <2>6
  <2>8. \A b \in Agents : ~route'[b].leased \/ (route[b].leased /\ route'[b].id = route[b].id)
    BY <1>1
  <2>9. hb'[a].step = "looked" => hb'[a].cfg.managed
    BY <2>3, <2>5, <2>7
  <2> QED BY <1>1, <1>2, <2>1, <2>2, <2>5, <2>7, <2>8, <2>9, HeartbeatKeeps
<1>4. CASE HbRenew(a)
  <2>1. InductiveInv' /\ Derives /\ used \subseteq used'
    BY <1>4, RenewalGoesOn, ProlongsDerives
  <2>2. PICK step \in {"refused", "renewed"} : HbGoes(a, step)
    BY <1>4 DEF HbRenew
  <2>3. step \in HbSteps
    BY DEF HbSteps
  <2>4. /\ hb' \in [Agents -> Heartbeat]
        /\ \A b \in Agents : b # a => hb'[b] = hb[b]
        /\ hb'[a].step = step /\ hb'[a].lease = hb[a].lease /\ hb'[a].cfg = hb[a].cfg
    BY <2>2, <2>3, HbForm
  <2>5. hb[a].cfg \in Configs
    BY <1>4 DEF HbRenew, AgentIInv, HbProper
  <2>6. \A b \in Agents : ~route'[b].leased \/ (route[b].leased /\ route'[b].id = route[b].id)
    BY <1>1
  <2> QED BY <1>1, <1>2, <2>1, <2>4, <2>5, <2>6, HeartbeatKeeps
<1> QED BY <1>3, <1>4

\* The tunnel's URL becomes the worker's.
LEMMA HbUpsertStep ==
  ASSUME AgentIInv, NEW a \in Agents, HbUpsert(a)
  PROVE  AgentIInv'
<1>1. /\ UNCHANGED vars /\ UNCHANGED <<mgr, invalid, signal, wire, tunnels, faults>>
      /\ hb[a].step = "renewed"
      /\ hb' = [hb EXCEPT ![a] = Quiet]
  BY DEF HbUpsert
<1>2. InductiveInv' /\ Derives /\ used \subseteq used'
  BY <1>1, QuietVars DEF AgentIInv
<1>3. /\ hb' \in [Agents -> Heartbeat]
      /\ \A b \in Agents : b # a => hb'[b] = hb[b]
      /\ hb'[a].step = "none"
  BY <1>1, QuietForm
<1>4. PICK r : r = [id |-> hb[a].lease.id, port |-> hb[a].lease.port,
                    leased |-> hb[a].cfg.managed, fresh |-> StaleAfter]
  OBVIOUS
<1>5. r \in Route /\ r.id = hb[a].lease.id
  <2>1. hb[a].lease \in Given /\ hb[a].cfg.managed \in BOOLEAN
    BY <1>1, AgentTransportAssumption DEF AgentIInv, HbProper
  <2> QED BY <1>4, <2>1, AgentTransportAssumption DEF Route, Given
<1>6. route' = [route EXCEPT ![a] = r]
  BY <1>4 DEF HbUpsert
<1>7. /\ route' \in [Agents -> Route] /\ route'[a].id = hb[a].lease.id
      /\ \A b \in Agents : b # a => route'[b] = route[b]
  BY <1>5, <1>6 DEF AgentIInv, RestTyped
<1>8. \A b \in Agents :
           \/ ~route'[b].leased
           \/ route[b].leased /\ route'[b].id = route[b].id
           \/ hb[b].step # "none" /\ route'[b].id = hb[b].lease.id
  BY <1>1, <1>7
<1> QED BY <1>1, <1>2, <1>3, <1>7, <1>8, HeartbeatKeeps

\* A conflict is heard and recorded, or lost; then it is signalled.
LEMMA HbConflictStep ==
  ASSUME AgentIInv, NEW a \in Agents, HbRefused(a) \/ HbSignal(a)
  PROVE  AgentIInv'
<1>1. UNCHANGED vars /\ UNCHANGED <<mgr, wire, tunnels, route, faults>>
  BY DEF HbRefused, HbSignal
<1>2. InductiveInv' /\ Derives /\ used \subseteq used' /\ UNCHANGED used
  BY <1>1, QuietVars DEF AgentIInv, vars
<1>3. MgrProper'
  BY <1>1 DEF AgentIInv, MgrProper
<1>4. route' \in [Agents -> Route]
  BY <1>1 DEF AgentIInv, RestTyped
<1>5. \A b \in Agents : ~route'[b].leased \/ (route[b].leased /\ route'[b].id = route[b].id)
  BY <1>1
<1>6. CASE hb[a].step = "refused" /\ hb' = [hb EXCEPT ![a] = Quiet] /\ UNCHANGED <<invalid, signal>>
  BY <1>1, <1>2, <1>4, <1>5, <1>6, QuietForm, HeartbeatKeeps
<1>7. CASE /\ hb[a].step = "refused"
           /\ HbGoes(a, "invalidate")
           /\ invalid' = [invalid EXCEPT ![a] = @ \cup {hb[a].lease.id}]
           /\ UNCHANGED signal
  <2>1. "invalidate" \in HbSteps
    BY DEF HbSteps
  <2>2. /\ hb' \in [Agents -> Heartbeat]
        /\ \A b \in Agents : b # a => hb'[b] = hb[b]
        /\ hb'[a].step = "invalidate" /\ hb'[a].lease = hb[a].lease
    BY <1>7, <2>1, HbForm
  <2>3. hb[a].lease.id \in used
    BY <1>7 DEF AgentIInv, IdsOwned, Owned
  <2>4. HbProper'
    BY <1>7, <2>2 DEF AgentIInv, HbProper
  <2>5. RestTyped'
    BY <1>1, <1>2, <1>7, <2>3 DEF AgentIInv, RestTyped
  <2>6. IdsOwned'
    <3>1. \A b \in Agents : \/ hb'[b].step = "none"
                            \/ hb[b].step # "none" /\ hb'[b].lease = hb[b].lease
      BY <1>7, <2>2
    <3> QED BY <1>1, <1>2, <1>5, <3>1, IdsOwnedKept
  <2>7. PendingSeen'
    <3>1. \A b \in Agents : b # a => invalid'[b] = invalid[b]
      BY <1>7 DEF AgentIInv, RestTyped
    <3> QED BY <1>1, <1>7, <2>2, <3>1 DEF AgentIInv, PendingSeen
  <2> QED BY <1>2, <1>3, <2>4, <2>5, <2>6, <2>7 DEF AgentIInv
<1>8. CASE /\ signal' = [signal EXCEPT ![a] = TRUE]
           /\ hb' = [hb EXCEPT ![a] = Quiet]
           /\ UNCHANGED invalid
  <2>1. /\ hb' \in [Agents -> Heartbeat]
        /\ \A b \in Agents : b # a => hb'[b] = hb[b]
        /\ hb'[a].step = "none"
    BY <1>8, QuietForm
  <2>2. HbProper'
    BY <2>1 DEF AgentIInv, HbProper
  <2>3. RestTyped'
    BY <1>1, <1>2, <1>8 DEF AgentIInv, RestTyped
  <2>4. IdsOwned'
    <3>1. \A b \in Agents : \/ hb'[b].step = "none"
                            \/ hb[b].step # "none" /\ hb'[b].lease = hb[b].lease
      BY <2>1
    <3> QED BY <1>1, <1>2, <1>5, <3>1, IdsOwnedKept
  <2>5. PendingSeen'
    <3>1. signal'[a] = TRUE /\ \A b \in Agents : b # a => signal'[b] = signal[b]
      BY <1>8 DEF AgentIInv, RestTyped
    <3> QED BY <1>1, <1>8, <2>1, <3>1 DEF AgentIInv, PendingSeen
  <2> QED BY <1>2, <1>3, <2>2, <2>3, <2>4, <2>5 DEF AgentIInv
<1> QED BY <1>6, <1>7, <1>8 DEF HbRefused, HbSignal
-----------------------------------------------------------------------------
(* The network, the gateway process, the FRP server and time.              *)

\* Releases, registrations, restarts and ticks leave the loops alone, but that
\* a restart ends the handlers and forgets the routes.
LEMMA OutsideKeeps ==
  ASSUME AgentIInv, InductiveInv', Derives, UNCHANGED used,
         UNCHANGED <<mgr, invalid, signal>>,
         hb' \in [Agents -> Heartbeat],
         \A b \in Agents :
           \/ hb'[b] = hb[b]
           \/ hb'[b].step = "none" /\ hb[b].step # "invalidate",
         route' \in [Agents -> Route],
         \A b \in Agents : ~route'[b].leased \/ (route[b].leased /\ route'[b].id = route[b].id),
         wire' \subseteq Released, tunnels' \subseteq Tunnel, faults' \in 0 .. MaxFaults
  PROVE  AgentIInv'
<1>1. MgrProper' /\ HbProper'
  BY DEF AgentIInv, MgrProper, HbProper
<1>2. RestTyped'
  BY DEF AgentIInv, RestTyped
<1>3. IdsOwned'
  <2>1. \A b \in Agents : \/ hb'[b].step = "none"
                          \/ hb[b].step # "none" /\ hb'[b].lease = hb[b].lease
    OBVIOUS
  <2> QED BY <2>1, IdsOwnedKept
<1>4. PendingSeen'
  <2>1. \A b \in Agents : hb[b].step = "invalidate" => hb'[b].step = "invalidate"
    OBVIOUS
  <2> QED BY <2>1 DEF AgentIInv, PendingSeen
<1> QED BY <1>1, <1>2, <1>3, <1>4 DEF AgentIInv

LEMMA OutsideStep ==
  ASSUME AgentIInv,
         \/ \E m \in wire : GatewayRelease(m) \/ LoseRelease(m)
         \/ GatewayRestart \/ GatewayReconfigure
         \/ \E t \in tunnels : Drop(t)
         \/ \E a \in Agents : Reregister(a)
         \/ Elapse
         \/ UNCHANGED allVars
  PROVE  AgentIInv'
<1>1. /\ hb \in [Agents -> Heartbeat] /\ route \in [Agents -> Route]
      /\ wire \subseteq Released /\ tunnels \subseteq Tunnel /\ faults \in 0 .. MaxFaults
  BY DEF AgentIInv, HbProper, RestTyped
<1>2. ASSUME NEW m \in wire, GatewayRelease(m)
      PROVE  AgentIInv'
  <2>1. m.agent \in Agents /\ m.id \in Ids /\ m.gen \in Gens
    BY <1>1 DEF Released
  <2>2. Release(m.agent, m.id, m.gen) /\ m.id \in used
    BY <1>2 DEF GatewayRelease, Release
  <2>3. InductiveInv'
    BY <2>1, <2>2, InductiveStep DEF AgentIInv, Next
  <2>4. Derives /\ UNCHANGED used
    BY <2>1, <2>2, OthersDerive DEF AgentIInv
  <2>5. UNCHANGED <<mgr, invalid, signal, hb, tunnels, route, faults>> /\ wire' \subseteq wire
    BY <1>2 DEF GatewayRelease
  <2> QED BY <1>1, <2>3, <2>4, <2>5, OutsideKeeps
<1>3. CASE GatewayRestart
  <2>1. InductiveInv'
    BY <1>3, InductiveStep DEF GatewayRestart, AgentIInv, Next
  <2>2. Derives /\ UNCHANGED used
    BY <1>3, OthersDerive DEF GatewayRestart, AgentIInv
  <2>3. NoRoute \in Route /\ ~NoRoute.leased /\ Quiet \in Heartbeat /\ Quiet.step = "none"
    BY AgentTransportAssumption DEF NoRoute, Route, Quiet, Heartbeat, HbSteps
  <2>4. route' \in [Agents -> Route] /\ \A b \in Agents : ~route'[b].leased
    BY <1>3, <2>3 DEF GatewayRestart
  <2>5. /\ hb' \in [Agents -> Heartbeat]
        /\ \A b \in Agents :
             \/ hb'[b] = hb[b]
             \/ hb'[b].step = "none" /\ hb[b].step # "invalidate"
    BY <1>1, <1>3, <2>3 DEF GatewayRestart
  <2>6. UNCHANGED <<mgr, invalid, signal, wire, tunnels>> /\ faults' \in 0 .. MaxFaults
    BY <1>3, FaultCounted DEF GatewayRestart, ClientEnds
  <2> QED BY <1>1, <2>1, <2>2, <2>4, <2>5, <2>6, OutsideKeeps
<1>4. CASE GatewayReconfigure
  <2>1. InductiveInv'
    BY <1>4, InductiveStep DEF GatewayReconfigure, AgentIInv, Next
  <2>2. UNCHANGED <<leases, used>>
    BY <1>4 DEF GatewayReconfigure, Reconfigure
  <2>3. Derives
    BY <2>2, SameGoesOn, ProlongsDerives DEF AgentIInv
  <2>4. UNCHANGED <<mgr, invalid, signal, hb, wire, tunnels, route>> /\ faults' \in 0 .. MaxFaults
    BY <1>4, FaultCounted DEF GatewayReconfigure, ClientEnds
  <2> QED BY <1>1, <2>1, <2>2, <2>3, <2>4, OutsideKeeps
<1>5. CASE Elapse
  <2>1. InductiveInv'
    BY <1>5, InductiveStep DEF Elapse, AgentIInv, Next
  <2>2. Derives /\ UNCHANGED used
    BY <1>5, OthersDerive DEF Elapse, AgentIInv
  <2>3. ASSUME NEW b \in Agents, NEW r, r = [route[b] EXCEPT !.fresh = IF @ > 0 THEN @ - 1 ELSE 0]
        PROVE  r \in Route /\ r.leased = route[b].leased /\ r.id = route[b].id
    BY <1>1, <2>3, AgentTransportAssumption DEF Route
  <2>4. /\ route' \in [Agents -> Route]
        /\ \A b \in Agents : route'[b].leased = route[b].leased /\ route'[b].id = route[b].id
    BY <1>5, <2>3 DEF Elapse
  <2>5. UNCHANGED <<mgr, invalid, signal, hb, wire, tunnels, faults>>
    BY <1>5 DEF Elapse
  <2> QED BY <1>1, <2>1, <2>2, <2>4, <2>5, OutsideKeeps
<1>6. CASE \/ \E m \in wire : LoseRelease(m)
           \/ \E t \in tunnels : Drop(t)
           \/ \E a \in Agents : Reregister(a)
           \/ UNCHANGED allVars
  <2>1. UNCHANGED vars /\ UNCHANGED <<mgr, invalid, signal, hb, route, faults>>
    BY <1>6 DEF LoseRelease, Drop, Reregister, allVars, agentVars
  <2>2. InductiveInv' /\ Derives /\ UNCHANGED used
    BY <2>1, QuietVars DEF AgentIInv, vars
  <2>3. wire' \subseteq wire
    BY <1>6 DEF LoseRelease, Drop, Reregister, allVars, agentVars
  <2>4. tunnels' \subseteq Tunnel
    <3>1. ASSUME NEW a \in Agents, Reregister(a)
          PROVE  tunnels' \subseteq Tunnel
      <4>1. mgr[a].lease \in Given
        BY <3>1 DEF Reregister, Serving, AgentIInv, MgrProper
      <4> QED BY <3>1, <4>1, RegistersTyped DEF Reregister
    <3> QED BY <1>1, <1>6, <3>1 DEF LoseRelease, Drop, allVars, agentVars
  <2> QED BY <1>1, <2>1, <2>2, <2>3, <2>4, OutsideKeeps
<1> QED BY <1>2, <1>3, <1>4, <1>5, <1>6

LEMMA AgentStep ==
  ASSUME AgentIInv, [AgentNext]_allVars
  PROVE  AgentIInv'
<1>1. ASSUME NEW a \in Agents, ManagerStep(a)
      PROVE  AgentIInv'
  <2>1. CASE FetchDesired(a)
    BY <2>1, FetchStep
  <2>2. CASE AskGranted(a) \/ AskGrantedUnheard(a) \/ AskRefused(a)
    BY <2>2, AskStep
  <2>3. CASE Ready(a) \/ RegistrationFails(a) \/ RunEnds(a)
    BY <2>3, ClientStep
  <2>4. CASE BootstrapFails(a) \/ PollChanged(a)
    BY <2>4, StopStep
  <2>5. CASE ExamineInvalidation(a)
    BY <2>5, ExamineStep
  <2>6. CASE TakeInvalidation(a)
    BY <2>6, TakeStep
  <2>7. CASE Shutdown(a) \/ Crash(a)
    BY <2>7, RebornStep
  <2> QED BY <1>1, <2>1, <2>2, <2>3, <2>4, <2>5, <2>6, <2>7 DEF ManagerStep
<1>2. ASSUME NEW a \in Agents, HeartbeatStep(a)
      PROVE  AgentIInv'
  <2>1. CASE HbSend(a) \/ HbNotReady(a)
    BY <2>1, HbSendStep
  <2>2. CASE HbLookup(a) \/ HbRenew(a)
    BY <2>2, HbHandleStep
  <2>3. CASE HbUpsert(a)
    BY <2>3, HbUpsertStep
  <2>4. CASE HbRefused(a) \/ HbSignal(a)
    BY <2>4, HbConflictStep
  <2> QED BY <1>2, <2>1, <2>2, <2>3, <2>4 DEF HeartbeatStep
<1> QED BY <1>1, <1>2, OutsideStep DEF AgentNext

\* With its agents, managers, clients and the network, the system keeps its
\* invariant: the leases stay consistent although a handler may renew one under
\* a policy that has been replaced meanwhile.
THEOREM AgentInvariance == AgentSpec => []AgentIInv
<1>1. AgentInit => AgentIInv
  <2> SUFFICES ASSUME AgentInit PROVE AgentIInv
    OBVIOUS
  <2>1. InductiveInv
    BY DEF AgentInit, Init, InductiveInv, TypeOK, Consistent, HandedIsDurable, Acceptable
  <2>2. MgrProper /\ HbProper
    BY DEF AgentInit, MgrProper, HbProper, Fresh, Quiet, Manager, Heartbeat, Phases, HbSteps
  <2>3. RestTyped
    BY AgentTransportAssumption DEF AgentInit, RestTyped, Route, NoRoute
  <2>4. IdsOwned /\ PendingSeen
    BY DEF AgentInit, IdsOwned, PendingSeen, Fresh, Quiet, NoRoute
  <2> QED BY <2>1, <2>2, <2>3, <2>4 DEF AgentIInv
<1>2. AgentIInv /\ [AgentNext]_allVars => AgentIInv'
  BY AgentStep
<1> QED BY <1>1, <1>2, PTL DEF AgentSpec

\* Every variable of gateway, agents and network keeps its type; a client, and
\* whatever was invalidated, is of a lease id that was drawn.
THEOREM AgentTypeCorrect == AgentSpec => []AgentTypeOK
<1>1. AgentIInv => AgentTypeOK
  <2> SUFFICES ASSUME AgentIInv PROVE AgentTypeOK
    OBVIOUS
  <2>1. TypeOK
    BY DEF AgentIInv, InductiveInv
  <2>2. ASSUME NEW a \in Agents
        PROVE  /\ mgr[a].phase \in {"fetch", "asking", "starting", "active", "examining",
                                    "parked", "legacy"}
               /\ (Serving(a) \/ mgr[a].phase = "starting") => mgr[a].lease.id \in used
               /\ hb[a].step \in {"none", "sent", "looked", "renewed", "refused", "invalidate"}
               /\ invalid[a] \subseteq used
               /\ route[a].fresh \in 0 .. StaleAfter
    <3>1. mgr[a] \in Manager /\ hb[a] \in Heartbeat /\ route[a] \in Route /\ invalid[a] \subseteq used
      BY DEF AgentIInv, MgrProper, HbProper, RestTyped
    <3>2. ASSUME Serving(a) \/ mgr[a].phase = "starting"
          PROVE  mgr[a].lease.id \in used
      <4>1. mgr[a].lease \in Given /\ mgr[a].lease # NoLease
        BY <3>2, TransportLeaseAssumption DEF Serving, AgentIInv, MgrProper, Given, NoLease
      <4> QED BY <4>1 DEF AgentIInv, IdsOwned, Owned
    <3> QED BY <3>1, <3>2 DEF Manager, Phases, Heartbeat, HbSteps, Route
  <2>3. faults \in 0 .. MaxFaults
    BY DEF AgentIInv, RestTyped
  <2> QED BY <2>1, <2>2, <2>3 DEF AgentTypeOK
<1> QED BY <1>1, AgentInvariance, PTL

\* Whatever agents, handlers and the network do, a restarting gateway accepts
\* the file of leases it finds.
THEOREM RestartLoadsWithAgents == AgentSpec => []StoreLoads
<1>1. ASSUME AgentIInv
      PROVE  StoreLoads
  <2>1. Live(disk) \subseteq disk
    BY DEF Live
  <2> QED BY <1>1, <2>1, AcceptableSubset DEF AgentIInv, InductiveInv, Consistent, StoreLoads
<1> QED BY <1>1, AgentInvariance, PTL

\* No recorded conflict is forgotten while its lease is the active one.
THEOREM ConflictsArrive == AgentSpec => []InvalidationArrives
<1>1. AgentIInv => InvalidationArrives
  <2>1. SUFFICES ASSUME AgentIInv, NEW a \in Agents,
                        mgr[a].phase = "active", mgr[a].lease.id \in invalid[a]
                 PROVE  signal[a] \/ hb[a].step = "invalidate"
    BY DEF InvalidationArrives
  <2>2. invalid[a] # {}
    BY <2>1
  <2> QED BY <2>1, <2>2 DEF AgentIInv, PendingSeen
<1> QED BY <1>1, AgentInvariance, PTL

\* Which steps send a release: they leave the manager without a lease.
LEMMA ReleasersStop ==
  ASSUME AgentIInv, [AgentNext]_allVars, NEW m \in wire' \ wire
  PROVE  mgr'[m.agent].lease = NoLease
<1>1. mgr \in [Agents -> Manager]
  BY DEF AgentIInv, MgrProper
<1>2. ASSUME NEW a \in Agents, ManagerStep(a)
      PROVE  mgr'[m.agent].lease = NoLease
  <2>1. CASE FetchDesired(a)
    <3>1. m \in ReleaseOf(a, mgr[a].repl)
      BY <2>1 DEF FetchDesired
    <3>2. m.agent = a
      BY <3>1 DEF ReleaseOf
    <3>3. \E phase, repl :
            mgr' = [mgr EXCEPT ![a] = [Fresh EXCEPT !.phase = phase, !.cfg = config, !.repl = repl]]
      BY <2>1 DEF FetchDesired, Desired
    <3> QED BY <1>1, <3>2, <3>3 DEF Fresh
  <2>2. CASE BootstrapFails(a) \/ PollChanged(a) \/ TakeInvalidation(a)
    <3>1. StopAndRelease(a)
      BY <2>2 DEF BootstrapFails, PollChanged, TakeInvalidation, Park
    <3>2. m.agent = a
      BY <3>1 DEF StopAndRelease, ReleaseOf
    <3>3. mgr' = [mgr EXCEPT ![a] = [Fresh EXCEPT !.repl = NoLease]]
      BY <3>1 DEF StopAndRelease, Restarting
    <3> QED BY <1>1, <3>2, <3>3 DEF Fresh
  <2>3. CASE Shutdown(a)
    <3>1. m \in ReleaseOf(a, mgr[a].lease) \cup ReleaseOf(a, mgr[a].repl)
      BY <2>3 DEF Shutdown
    <3>2. m.agent = a
      BY <3>1 DEF ReleaseOf
    <3>3. mgr' = [mgr EXCEPT ![a] = Fresh]
      BY <2>3 DEF Shutdown, Reborn
    <3> QED BY <1>1, <3>2, <3>3 DEF Fresh
  <2>4. CASE \/ AskGranted(a) \/ AskGrantedUnheard(a) \/ AskRefused(a) \/ Ready(a)
             \/ RegistrationFails(a) \/ RunEnds(a) \/ ExamineInvalidation(a) \/ Crash(a)
    BY <2>4 DEF AskGranted, AskGrantedUnheard, AskRefused, Ready, RegistrationFails, RunEnds,
       ExamineInvalidation, Crash
  <2> QED BY <1>2, <2>1, <2>2, <2>3, <2>4 DEF ManagerStep
<1>3. ASSUME NEW a \in Agents, HeartbeatStep(a) \/ Reregister(a)
      PROVE  UNCHANGED wire
  BY <1>3 DEF HeartbeatStep, HbSend, HbNotReady, HbLookup, HbRenew, HbUpsert, HbRefused, HbSignal,
     Reregister
<1>4. ASSUME NEW r \in wire, GatewayRelease(r) \/ LoseRelease(r)
      PROVE  wire' \subseteq wire
  BY <1>4 DEF GatewayRelease, LoseRelease
<1>5. CASE \/ GatewayRestart \/ GatewayReconfigure \/ (\E t \in tunnels : Drop(t)) \/ Elapse
           \/ UNCHANGED allVars
  BY <1>5 DEF GatewayRestart, GatewayReconfigure, Drop, Elapse, allVars, agentVars
<1> QED BY <1>2, <1>3, <1>4, <1>5 DEF AgentNext

\* An agent asks for the release of a lease only when its client is gone: every
\* step that does leaves the manager without the lease, so no registration of
\* this process has it.
THEOREM ReleasesFollowStops == AgentSpec => ReleasedAfterStop
<1>1. ASSUME AgentIInv, AgentIInv', [AgentNext]_allVars
      PROVE  [\A m \in wire' \ wire :
                ~\E t \in tunnels' : /\ t.agent = m.agent /\ t.id = m.id
                                     /\ mgr'[t.agent].lease.id = t.id]_allVars
  <2>1. SUFFICES ASSUME NEW m \in wire' \ wire, NEW t \in tunnels',
                        t.agent = m.agent, mgr'[t.agent].lease.id = t.id
                 PROVE  FALSE
    OBVIOUS
  <2>2. mgr'[m.agent].lease = NoLease
    BY <1>1, ReleasersStop
  <2>3. t.id \in Ids
    BY <1>1 DEF AgentIInv, RestTyped, Tunnel
  <2> QED BY <2>1, <2>2, <2>3, TransportLeaseAssumption DEF NoLease
<1> QED BY <1>1, AgentInvariance, PTL DEF AgentSpec, ReleasedAfterStop
-----------------------------------------------------------------------------
(* Routes and leases.                                                      *)

\* No managed configuration lets a lease that was not due for renewal run out
\* before its worker counts as stale (180 s, the life time of the default
\* configuration, and the registry's 6 s keep this by far).
LifeCoversStale == \A c \in Configs : c.managed => 2 * (StaleAfter - 1) <= c.ttl

\* What is left of a lease, if it is still live.
Lasts(id, n, L) == \A l \in L : l.id = id /\ l.left > 0 => l.left >= n

\* The lease of a route, while it is live, lives as long as the worker is fresh;
\* so does the one a handler has just renewed and is about to make a route of.
RoutesLast ==
  \A a \in Agents :
    /\ route[a].leased => Lasts(route[a].id, route[a].fresh, leases)
    /\ hb[a].step = "renewed" /\ hb[a].cfg.managed => Lasts(hb[a].lease.id, StaleAfter, leases)

LEMMA LastsStays ==
  ASSUME AgentIInv, InductiveInv', Prolongs, NEW id \in used, NEW n \in Nat, Lasts(id, n, leases)
  PROVE  Lasts(id, n, leases')
<1>1. leases \in SUBSET Lease /\ leases' \in SUBSET Lease
  BY DEF AgentIInv, InductiveInv, TypeOK, Lease
<1>2. SUFFICES ASSUME NEW k \in leases', k.id = id, k.left > 0
               PROVE  k.left >= n
  BY DEF Lasts
<1>3. PICK l \in leases : l.id = k.id /\ k.left >= l.left /\ l.left > 0
  BY <1>2 DEF Prolongs
<1>4. l.left >= n
  BY <1>2, <1>3 DEF Lasts
<1>5. l.left \in Nat /\ k.left \in Nat
  BY <1>1 DEF Lease
<1> QED BY <1>3, <1>4, <1>5

\* A step that takes no life from the leases, and makes a route at most of what
\* a handler has just renewed.
LEMMA RoutesKept ==
  ASSUME AgentIInv, InductiveInv', Prolongs, RoutesLast,
         \A b \in Agents :
           /\ \/ ~route'[b].leased
              \/ /\ route[b].leased
                 /\ route'[b].id = route[b].id /\ route'[b].fresh = route[b].fresh
              \/ /\ hb[b].step = "renewed" /\ hb[b].cfg.managed
                 /\ route'[b].id = hb[b].lease.id /\ route'[b].fresh = StaleAfter
           /\ \/ hb'[b].step # "renewed" \/ ~hb'[b].cfg.managed
              \/ hb'[b] = hb[b]
              \/ Lasts(hb'[b].lease.id, StaleAfter, leases')
  PROVE  RoutesLast'
<1>1. ASSUME NEW b \in Agents
      PROVE  /\ route'[b].leased => Lasts(route'[b].id, route'[b].fresh, leases')
             /\ (hb'[b].step = "renewed" /\ hb'[b].cfg.managed)
                  => Lasts(hb'[b].lease.id, StaleAfter, leases')
  <2>1. StaleAfter \in Nat /\ route[b].fresh \in Nat
    BY AgentTransportAssumption DEF AgentIInv, RestTyped, Route
  <2>2. route[b].leased => Lasts(route[b].id, route[b].fresh, leases')
    <3>1. SUFFICES ASSUME route[b].leased
                   PROVE  Lasts(route[b].id, route[b].fresh, leases')
      OBVIOUS
    <3>2. route[b].id \in used /\ Lasts(route[b].id, route[b].fresh, leases)
      BY <3>1 DEF AgentIInv, IdsOwned, Owned, RoutesLast
    <3> QED BY <2>1, <3>2, LastsStays
  <2>3. (hb[b].step = "renewed" /\ hb[b].cfg.managed) => Lasts(hb[b].lease.id, StaleAfter, leases')
    <3>1. SUFFICES ASSUME hb[b].step = "renewed", hb[b].cfg.managed
                   PROVE  Lasts(hb[b].lease.id, StaleAfter, leases')
      OBVIOUS
    <3>2. hb[b].lease.id \in used /\ Lasts(hb[b].lease.id, StaleAfter, leases)
      BY <3>1 DEF AgentIInv, IdsOwned, Owned, RoutesLast
    <3> QED BY <2>1, <3>2, LastsStays
  <2>4. route'[b].leased => Lasts(route'[b].id, route'[b].fresh, leases')
    BY <2>2, <2>3
  <2>5. (hb'[b].step = "renewed" /\ hb'[b].cfg.managed)
          => Lasts(hb'[b].lease.id, StaleAfter, leases')
    BY <2>3
  <2> QED BY <2>4, <2>5
<1> QED BY <1>1 DEF RoutesLast, Lasts

\* A lease that has just been renewed, or was not due yet, outlives its worker.
LEMMA RenewalLasts ==
  ASSUME AgentIInv, LifeCoversStale, NEW a \in Agents, HbRenew(a)
  PROVE  \/ HbGoes(a, "refused")
         \/ HbGoes(a, "renewed") /\ Lasts(hb[a].lease.id, StaleAfter, leases')
<1>1. hb[a].cfg \in Configs /\ hb[a].cfg.managed
  BY DEF HbRenew, AgentIInv, HbProper
<1>2. /\ hb[a].cfg.ttl \in Nat /\ hb[a].cfg.ttl > 0 /\ StaleAfter \in Nat \ {0}
      /\ 2 * (StaleAfter - 1) <= hb[a].cfg.ttl
  BY <1>1, TransportLeaseAssumption, AgentTransportAssumption DEF LifeCoversStale
<1>3. SUFFICES ASSUME ~HbGoes(a, "refused")
               PROVE  HbGoes(a, "renewed") /\ Lasts(hb[a].lease.id, StaleAfter, leases')
  OBVIOUS
<1>4. PICK l \in Current(leases, a) :
        /\ HbGoes(a, "renewed")
        /\ l.id = hb[a].lease.id
        /\ l.ttl = hb[a].cfg.ttl
        /\ IF Due(l, hb[a].cfg)
             THEN Save((leases \ {l}) \cup {[l EXCEPT !.left = hb[a].cfg.ttl]})
             ELSE UNCHANGED <<leases, disk>>
  BY <1>3 DEF HbRenew
<1>5. l \in leases /\ leases \in SUBSET Lease /\ \A k \in leases : k.id = l.id => k = l
  BY <1>4 DEF Current, AgentIInv, InductiveInv, TypeOK, Consistent, Acceptable
<1>6. l.left \in Nat
  BY <1>5 DEF Lease
<1>7. SUFFICES ASSUME NEW k \in leases', k.id = l.id
               PROVE  k.left >= StaleAfter
  BY <1>4 DEF Lasts
<1>8. CASE Due(l, hb[a].cfg)
  <2>1. k = [l EXCEPT !.left = hb[a].cfg.ttl]
    BY <1>4, <1>5, <1>7, <1>8 DEF Save
  <2>2. k.left = hb[a].cfg.ttl
    BY <1>5, <2>1 DEF Lease
  <2> QED BY <1>2, <2>2
<1>9. CASE ~Due(l, hb[a].cfg)
  <2>1. k = l
    BY <1>4, <1>5, <1>7, <1>9
  <2>2. ~(2 * l.left <= hb[a].cfg.ttl)
    BY <1>9 DEF Due
  <2> QED BY <1>2, <1>6, <2>1, <2>2
<1> QED BY <1>8, <1>9

\* A manager's step takes no life from the leases.
LEMMA ManagerGoesOn ==
  ASSUME AgentIInv, NEW a \in Agents, ManagerStep(a)
  PROVE  /\ Prolongs /\ KeepsLive
         /\ UNCHANGED route
         /\ UNCHANGED hb \/ hb' = [hb EXCEPT ![a] = Quiet]
<1>1. CASE AskGranted(a) \/ AskGrantedUnheard(a)
  <2>1. Granted(a)
    BY <1>1 DEF AskGranted, AskGrantedUnheard
  <2>2. Prolongs /\ KeepsLive
    BY <2>1, GrantGoesOn DEF AgentIInv
  <2> QED BY <1>1, <2>2 DEF AskGranted, AskGrantedUnheard
<1>2. CASE ~(AskGranted(a) \/ AskGrantedUnheard(a))
  <2>1. UNCHANGED <<vars, route>> /\ (UNCHANGED hb \/ hb' = [hb EXCEPT ![a] = Quiet])
    BY <1>2 DEF ManagerStep, FetchDesired, AskRefused, Ready, RegistrationFails, BootstrapFails,
       RunEnds, PollChanged, ExamineInvalidation, TakeInvalidation, Shutdown, Crash, Reborn
  <2> QED BY <2>1, QuietVars DEF AgentIInv
<1> QED BY <1>1, <1>2

\* Time takes one unit from leases and routes alike.
LEMMA ElapseLasts ==
  ASSUME AgentIInv, RoutesLast, Elapse
  PROVE  RoutesLast'
<1>1. leases \in SUBSET Lease /\ leases' = Later(leases)
  BY DEF AgentIInv, InductiveInv, TypeOK, Elapse, Tick
<1>2. ASSUME NEW b \in Agents, route'[b].leased
      PROVE  Lasts(route'[b].id, route'[b].fresh, leases')
  <2>1. route[b] \in Route
    BY DEF AgentIInv, RestTyped
  <2>2. route'[b] = [route[b] EXCEPT !.fresh = IF @ > 0 THEN @ - 1 ELSE 0]
    BY DEF Elapse
  <2>3. /\ route[b].leased /\ route'[b].id = route[b].id
        /\ route'[b].fresh = IF route[b].fresh > 0 THEN route[b].fresh - 1 ELSE 0
        /\ route[b].fresh \in Nat
    BY <1>2, <2>1, <2>2, AgentTransportAssumption DEF Route
  <2>4. SUFFICES ASSUME NEW k \in leases', k.id = route[b].id, k.left > 0
                 PROVE  k.left >= route'[b].fresh
    BY <2>3 DEF Lasts
  <2>5. PICK l \in leases : k = [l EXCEPT !.left = IF @ > 0 THEN @ - 1 ELSE 0]
    BY <1>1 DEF Later
  <2>6. l.left \in Nat /\ k.id = l.id /\ k.left = IF l.left > 0 THEN l.left - 1 ELSE 0
    BY <1>1, <2>5 DEF Lease
  <2>7. l.left > 0
    BY <2>4, <2>6
  <2>8. l.left >= route[b].fresh
    BY <2>3, <2>4, <2>6, <2>7 DEF RoutesLast, Lasts
  <2> QED BY <2>3, <2>6, <2>7, <2>8
<1>3. \A b \in Agents : hb'[b].step # "renewed"
  BY DEF Elapse
<1> QED BY <1>2, <1>3 DEF RoutesLast, Lasts

LEMMA RoutesStep ==
  ASSUME AgentIInv, LifeCoversStale, RoutesLast, [AgentNext]_allVars
  PROVE  RoutesLast'
<1>1. InductiveInv' /\ hb \in [Agents -> Heartbeat] /\ route \in [Agents -> Route]
  BY AgentStep DEF AgentIInv, HbProper, RestTyped
<1>2. ASSUME Prolongs, UNCHANGED route,
             \A b \in Agents : \/ hb'[b].step # "renewed" \/ ~hb'[b].cfg.managed
                               \/ hb'[b] = hb[b]
                               \/ Lasts(hb'[b].lease.id, StaleAfter, leases')
      PROVE  RoutesLast'
  BY <1>1, <1>2, RoutesKept
<1>3. ASSUME NEW a \in Agents, ManagerStep(a)
      PROVE  RoutesLast'
  <2>1. \A b \in Agents : hb'[b].step # "renewed" \/ hb'[b] = hb[b]
    BY <1>1, <1>3, ManagerGoesOn DEF Quiet
  <2> QED BY <1>2, <1>3, <2>1, ManagerGoesOn
<1>4. ASSUME NEW a \in Agents, HeartbeatStep(a)
      PROVE  RoutesLast'
  <2>1. CASE HbRenew(a)
    <3>1. PICK step \in {"refused", "renewed"} :
            /\ HbGoes(a, step)
            /\ step = "renewed" => Lasts(hb[a].lease.id, StaleAfter, leases')
      BY <2>1, RenewalLasts
    <3>2. step \in HbSteps
      BY DEF HbSteps
    <3>3. /\ \A b \in Agents : b # a => hb'[b] = hb[b]
          /\ hb'[a].step = step /\ hb'[a].lease = hb[a].lease
      BY <3>1, <3>2, HbForm
    <3>4. Prolongs /\ UNCHANGED route
      BY <2>1, RenewalGoesOn DEF HbRenew
    <3> QED BY <1>2, <3>1, <3>3, <3>4
  <2>2. CASE HbUpsert(a)
    <3>1. /\ UNCHANGED vars /\ hb[a].step = "renewed"
          /\ hb' = [hb EXCEPT ![a] = Quiet]
          /\ route' = [route EXCEPT ![a] = [id |-> hb[a].lease.id, port |-> hb[a].lease.port,
                                            leased |-> hb[a].cfg.managed, fresh |-> StaleAfter]]
      BY <2>2 DEF HbUpsert
    <3>2. Prolongs
      BY <3>1, QuietVars DEF AgentIInv
    <3>3. /\ route'[a].id = hb[a].lease.id /\ route'[a].fresh = StaleAfter
          /\ route'[a].leased = hb[a].cfg.managed
          /\ \A b \in Agents : b # a => route'[b] = route[b]
      BY <1>1, <3>1
    <3>4. \A b \in Agents : hb'[b].step # "renewed" \/ hb'[b] = hb[b]
      BY <1>1, <3>1 DEF Quiet
    <3> QED BY <1>1, <3>1, <3>2, <3>3, <3>4, RoutesKept
  <2>3. CASE HbLookup(a)
    <3>1. UNCHANGED vars /\ UNCHANGED route
      BY <2>3 DEF HbLookup
    <3>2. Prolongs
      BY <3>1, QuietVars DEF AgentIInv
    <3>3. PICK step : /\ hb' = [hb EXCEPT ![a].cfg = config, ![a].step = step]
                      /\ step = "renewed" => ~config.managed
      <4>1. CASE ~config.managed
        BY <2>3, <4>1 DEF HbLookup
      <4>2. CASE config.managed /\ ~started
        BY <2>3, <4>2 DEF HbLookup
      <4>3. CASE config.managed /\ started
        BY <2>3, <4>3 DEF HbLookup
      <4> QED BY <4>1, <4>2, <4>3
    <3>4. /\ \A b \in Agents : b # a => hb'[b] = hb[b]
          /\ hb'[a].step = step /\ hb'[a].cfg = config
      BY <1>1, <3>3 DEF Heartbeat
    <3> QED BY <1>2, <3>1, <3>2, <3>3, <3>4
  <2>4. CASE HbSend(a) \/ HbRefused(a) \/ HbSignal(a)
    <3>1. UNCHANGED vars /\ UNCHANGED route
      BY <2>4 DEF HbSend, HbRefused, HbSignal
    <3>2. Prolongs
      BY <3>1, QuietVars DEF AgentIInv
    <3>3. \A b \in Agents : hb'[b].step # "renewed" \/ hb'[b] = hb[b]
      BY <1>1, <2>4 DEF HbSend, HbRefused, HbSignal, HbGoes, Quiet, Heartbeat
    <3> QED BY <1>2, <3>1, <3>2, <3>3
  <2>5. CASE HbNotReady(a)
    <3>1. UNCHANGED vars /\ UNCHANGED hb /\ route' = [route EXCEPT ![a] = NoRoute]
      BY <2>5 DEF HbNotReady
    <3>2. Prolongs
      BY <3>1, QuietVars DEF AgentIInv
    <3>3. \A b \in Agents : ~route'[b].leased \/ route'[b] = route[b]
      BY <1>1, <3>1 DEF NoRoute
    <3>4. \A b \in Agents :
            \/ ~route'[b].leased
            \/ /\ route[b].leased
               /\ route'[b].id = route[b].id /\ route'[b].fresh = route[b].fresh
      BY <3>3
    <3> QED BY <1>1, <3>1, <3>2, <3>4, RoutesKept
  <2> QED BY <1>4, <2>1, <2>2, <2>3, <2>4, <2>5 DEF HeartbeatStep
<1>5. ASSUME NEW m \in wire, GatewayRelease(m)
      PROVE  RoutesLast'
  <2>1. m.agent \in Agents /\ m.id \in Ids /\ m.gen \in Gens
    BY DEF AgentIInv, RestTyped, Released
  <2>2. Prolongs
    BY <1>5, <2>1, RemovalProlongs DEF GatewayRelease, AgentIInv
  <2> QED BY <1>2, <1>5, <2>2 DEF GatewayRelease
<1>6. CASE GatewayRestart
  <2>1. Prolongs
    BY <1>6, RemovalProlongs DEF GatewayRestart, AgentIInv
  <2>2. \A b \in Agents : ~route'[b].leased /\ (hb'[b].step # "renewed")
    BY <1>6 DEF GatewayRestart, NoRoute, Quiet
  <2> QED BY <1>1, <2>1, <2>2, RoutesKept
<1>7. CASE Elapse
  BY <1>7, ElapseLasts
<1>8. CASE \/ \E m \in wire : LoseRelease(m)
           \/ GatewayReconfigure
           \/ \E t \in tunnels : Drop(t)
           \/ \E a \in Agents : Reregister(a)
           \/ UNCHANGED allVars
  <2>1. UNCHANGED <<leases, hb, route>>
    BY <1>8 DEF LoseRelease, GatewayReconfigure, Reconfigure, Drop, Reregister, vars, allVars,
       agentVars
  <2>2. Prolongs
    BY <2>1, SameGoesOn DEF AgentIInv
  <2> QED BY <1>2, <2>1, <2>2
<1> QED BY <1>3, <1>4, <1>5, <1>6, <1>7, <1>8 DEF AgentNext

\* A route that is left alone while its lease goes: only a release does that.
LEMMA RouteLosesLease ==
  ASSUME AgentIInv, RoutesLast, [AgentNext]_allVars, NEW a \in Agents,
         route[a].leased,
         route'[a] = [route[a] EXCEPT !.fresh = route'[a].fresh],
         route'[a].fresh > 0,
         NEW l \in leases, l.id = route[a].id, l.left > 0,
         \A k \in leases' : ~(k.id = route[a].id /\ k.left > 0)
  PROVE  \E m \in wire \ wire' : m.agent = a /\ m.id = route[a].id
<1>1. /\ route \in [Agents -> Route] /\ leases \in SUBSET Lease
      /\ l.agent = a
  BY DEF AgentIInv, RestTyped, InductiveInv, TypeOK, IdsOwned, Owned
<1>2. ~KeepsLive
  BY DEF KeepsLive
<1>3. ASSUME NEW b \in Agents, ManagerStep(b)
      PROVE  FALSE
  BY <1>2, <1>3, ManagerGoesOn
<1>4. ASSUME NEW b \in Agents, HeartbeatStep(b)
      PROVE  FALSE
  <2>1. CASE HbRenew(b)
    BY <1>2, <2>1, RenewalGoesOn
  <2>2. CASE ~HbRenew(b)
    <3>1. UNCHANGED vars
      BY <1>4, <2>2 DEF HeartbeatStep, HbSend, HbNotReady, HbLookup, HbUpsert, HbRefused, HbSignal
    <3> QED BY <1>2, <3>1, QuietVars DEF AgentIInv
  <2> QED BY <2>1, <2>2
<1>5. ASSUME NEW m \in wire, GatewayRelease(m)
      PROVE  m \in wire \ wire' /\ m.agent = a /\ m.id = route[a].id
  <2>1. leases' = Live(leases) \ {k \in Current(Live(leases), m.agent) : k.id = m.id /\ k.gen = m.gen}
    BY <1>5 DEF GatewayRelease, Release, Save
  <2>2. l \in Live(leases) /\ l \notin leases'
    BY DEF Live
  <2>3. l.agent = m.agent /\ l.id = m.id
    BY <2>1, <2>2 DEF Current
  <2>4. m \notin wire'
    BY <1>5 DEF GatewayRelease
  <2> QED BY <1>1, <2>3, <2>4
<1>6. CASE GatewayRestart
  <2>1. ~route'[a].leased
    BY <1>6 DEF GatewayRestart, NoRoute
  <2>2. route[a] \in Route
    BY <1>1
  <2>3. [route[a] EXCEPT !.fresh = route'[a].fresh].leased = route[a].leased
    BY <2>2 DEF Route
  <2> QED BY <2>1, <2>3
<1>7. CASE Elapse
  <2>1. route'[a] = [route[a] EXCEPT !.fresh = IF @ > 0 THEN @ - 1 ELSE 0]
    BY <1>7 DEF Elapse
  <2>2. /\ route[a].fresh \in Nat
        /\ route'[a].fresh = IF route[a].fresh > 0 THEN route[a].fresh - 1 ELSE 0
    BY <1>1, <2>1, AgentTransportAssumption DEF Route
  <2>3. l.left >= route[a].fresh /\ l.left \in Nat
    BY <1>1 DEF RoutesLast, Lasts, Lease
  <2>4. PICK k : k = [l EXCEPT !.left = IF @ > 0 THEN @ - 1 ELSE 0]
    OBVIOUS
  <2>5. k \in leases'
    BY <1>7, <2>4 DEF Elapse, Tick, Later
  <2>6. k.id = l.id /\ k.left = IF l.left > 0 THEN l.left - 1 ELSE 0
    BY <1>1, <2>4 DEF Lease
  <2>7. k.left > 0
    BY <2>2, <2>3, <2>6
  <2> QED BY <2>5, <2>6, <2>7
<1>8. CASE \/ \E m \in wire : LoseRelease(m)
           \/ GatewayReconfigure
           \/ \E t \in tunnels : Drop(t)
           \/ \E b \in Agents : Reregister(b)
           \/ UNCHANGED allVars
  <2>1. UNCHANGED leases
    BY <1>8 DEF LoseRelease, GatewayReconfigure, Reconfigure, Drop, Reregister, vars, allVars,
       agentVars
  <2> QED BY <1>2, <2>1, SameGoesOn DEF AgentIInv
<1> QED BY <1>3, <1>4, <1>5, <1>6, <1>7, <1>8 DEF AgentNext

\* Lookup, renewal and upsert of a heartbeat take different locks, answers and
\* releases arrive late, processes die and configurations change: while its
\* worker is fresh, a route's lease still goes only by a release of the
\* worker's own agent.
THEOREM RoutesAreCovered == LifeCoversStale /\ AgentSpec => RouteOutlivedByLease
<1>1. AgentInit => RoutesLast
  BY DEF AgentInit, RoutesLast, Quiet, NoRoute
<1>2. AgentIInv /\ LifeCoversStale /\ RoutesLast /\ [AgentNext]_allVars => RoutesLast'
  BY RoutesStep
<1>3. ASSUME AgentIInv, RoutesLast, [AgentNext]_allVars
      PROVE  [\A a \in Agents :
                (/\ route[a].leased
                 /\ route'[a] = [route[a] EXCEPT !.fresh = route'[a].fresh]
                 /\ route'[a].fresh > 0
                 /\ Held(route[a].id)
                 /\ ~Held(route[a].id)')
                => \E m \in wire \ wire' : m.agent = a /\ m.id = route[a].id]_allVars
  <2>1. SUFFICES ASSUME NEW a \in Agents,
                        route[a].leased,
                        route'[a] = [route[a] EXCEPT !.fresh = route'[a].fresh],
                        route'[a].fresh > 0,
                        \E l \in leases : l.id = route[a].id /\ l.left > 0,
                        ~\E l \in leases' : l.id = route'[a].id /\ l.left > 0
                 PROVE  \E m \in wire \ wire' : m.agent = a /\ m.id = route[a].id
    BY DEF Held
  <2>2. route'[a].id = route[a].id
    BY <1>3, <2>1 DEF AgentIInv, RestTyped, Route
  <2>3. PICK l \in leases : l.id = route[a].id /\ l.left > 0
    BY <2>1
  <2>4. \A k \in leases' : ~(k.id = route[a].id /\ k.left > 0)
    BY <2>1, <2>2
  <2> QED BY <1>3, <2>1, <2>3, <2>4, RouteLosesLease
<1>4. LifeCoversStale => []LifeCoversStale
  <2>1. LifeCoversStale => LifeCoversStale'
    BY DEF LifeCoversStale
  <2> QED BY <2>1, PTL
<1> QED BY <1>1, <1>2, <1>3, <1>4, AgentInvariance, PTL DEF AgentSpec, RouteOutlivedByLease
=============================================================================

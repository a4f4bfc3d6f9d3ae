--------------------------- MODULE TransportLease ---------------------------
(***************************************************************************)
(* The gateway's leases of reverse-tunnel ports                            *)
(* (src/internal/gateway/transport_lease.go), their file store             *)
(* (transport_lease_store.go) and the two handlers that use them           *)
(* (server.go: handleTransportLease, handleAgentHeartbeat).                *)
(*                                                                         *)
(* Every method of the manager runs under m.mu and saves before it changes *)
(* memory, so a method is one action.  Save replaces the file by a rename: *)
(* a Save that fails changes nothing (a stutter here), and a process that  *)
(* dies right after it behaves as one that dies a moment later with the    *)
(* response lost.  So a crash is Restart, and every response may be lost.  *)
(*                                                                         *)
(* Times are relative: left is ExpiresAt - now (0 once expired) and ttl is *)
(* ExpiresAt - RenewedAt.  A lease id is 16 random bytes; here it is one   *)
(* of Ids, never drawn twice.                                              *)
(*                                                                         *)
(* handed is what the agents know: the leases of the responses that        *)
(* arrived, with the life time stated there, until they expire or the      *)
(* agent releases them.                                                    *)
(***************************************************************************)
EXTENDS Integers, FiniteSets

CONSTANTS Agents,   \* agent ids
          Ids,      \* lease ids
          NoId,     \* the empty lease id of a request
          Configs   \* transport configurations [start, end, ttl, gen]

ASSUME TransportLeaseAssumption ==
  /\ NoId \notin Ids
  /\ \A c \in Configs :
       /\ {c.start, c.end, c.ttl} \subseteq Nat
       /\ c.start <= c.end
       /\ c.ttl > 0

VARIABLES config,   \* the gateway's transport configuration
          started,  \* FALSE while s.transportLeaseErr is set
          leases,   \* m.leases
          disk,     \* the leases in the store's file
          used,     \* ids drawn so far
          handed    \* what the agents hold: [agent, id, port, left]

vars == <<config, started, leases, disk, used, handed>>

Gens == {c.gen : c \in Configs}
Ports == UNION {c.start .. c.end : c \in Configs}

\* The slots a request may exclude; any other is refused.
Slots == 0 .. (config.end - config.start)

Lease == [agent : Agents, id : Ids, slot : Int, port : Ports, gen : Gens,
          current : BOOLEAN, ttl : Nat, left : Nat]

Init ==
  /\ config \in Configs
  /\ started = TRUE
  /\ leases = {}
  /\ disk = {}
  /\ used = {}
  /\ handed = {}
-----------------------------------------------------------------------------
\* pruneExpiredTransportLeases
Live(L) == {l \in L : l.left > 0}

\* transportLeaseMatchesPolicy
MatchesPolicy(l) ==
  /\ l.port \in config.start .. config.end
  /\ l.slot = l.port - config.start
  /\ l.ttl = config.ttl

\* validateLoadedTransportLeases
Acceptable(L) ==
  \A l, k \in L :
    /\ l.ttl > 0
    /\ l # k => l.port # k.port /\ l.id # k.id
    /\ l # k /\ l.agent = k.agent => ~(l.current /\ k.current)

Save(L) ==
  /\ leases' = L
  /\ disk' = L

Current(L, a) == {l \in L : l.current /\ l.agent = a}

\* The lease an agent may keep although it did not name it.
Sticky(l, excluded) ==
  /\ l.gen = config.gen
  /\ MatchesPolicy(l)
  /\ l.slot \notin excluded

Renewed(l) == [l EXCEPT !.ttl = config.ttl, !.left = config.ttl]

Response(l) == [agent |-> l.agent, id |-> l.id, port |-> l.port, left |-> l.left]

\* The response arrives or it does not.
Answer(l) == handed' = handed \/ handed' = handed \cup {Response(l)}

\* Acquire, when the agent has a current lease that still fits.
AcquireSticky(a, id, excluded) ==
  /\ started
  /\ \E l \in Current(Live(leases), a) :
       /\ id \in {NoId, l.id}
       /\ Sticky(l, excluded)
       /\ Save((Live(leases) \ {l}) \cup {Renewed(l)})
       /\ Answer(Renewed(l))
  /\ UNCHANGED <<config, started, used>>

\* Faulty variant: an expired lease counts as the agent's current one.
MayAllocateUnexpired(a, id, excluded) ==
  LET current == Current(leases, a) IN
  \/ current = {} /\ id = NoId
  \/ current # {} /\ \A l \in current : id = l.id /\ ~Sticky(l, excluded)

\* The conditions under which Acquire allocates instead of answering conflict:
\* an agent without a current lease names none, or one of its own that has
\* expired; an agent with one that does not fit any more names exactly it.
MayAllocate(a, id, excluded) ==
  LET current == Current(Live(leases), a) IN
  \/ /\ current = {}
     /\ \/ id = NoId
        \/ \E l \in leases : l.agent = a /\ l.id = id /\ l.left = 0
  \/ /\ current # {}
     /\ \A l \in current : id = l.id /\ ~Sticky(l, excluded)

\* Faulty variant: the ports of superseded leases count as free.
FreePortsOfCurrent(excluded) ==
  {p \in config.start .. config.end :
     /\ p - config.start \notin excluded
     /\ \A l \in Live(leases) : l.current => l.port # p}

FreePorts(excluded) ==
  {p \in config.start .. config.end :
     /\ p - config.start \notin excluded
     /\ \A l \in Live(leases) : l.port # p}

\* Faulty variants: the old lease stays current; it is dropped.
DemotedNot(L, a) == L
DemotedAway(L, a) == {l \in L : l.agent # a}

Demoted(L, a) == {[l EXCEPT !.current = @ /\ l.agent # a] : l \in L}

\* Acquire, when it allocates the lowest free port.  The old lease of the
\* agent stays in the store, demoted, and keeps its port until it expires.
AcquireNew(a, id, excluded, newId) ==
  LET free == FreePorts(excluded) IN
  /\ started
  /\ MayAllocate(a, id, excluded)
  /\ newId \notin used
  /\ \E p \in free :
       LET lease == [agent |-> a, id |-> newId, slot |-> p - config.start, port |-> p,
                     gen |-> config.gen, current |-> TRUE,
                     ttl |-> config.ttl, left |-> config.ttl]
       IN /\ \A q \in free : p <= q
          /\ Save(Demoted(Live(leases), a) \cup {lease})
          /\ Answer(lease)
  /\ used' = used \cup {newId}
  /\ UNCHANGED <<config, started>>

\* Faulty variant: any lease of the agent is renewed, as its current one.
RenewRevives(a, id) ==
  /\ started
  /\ \E l \in leases :
       /\ l.agent = a
       /\ l.id = id
       /\ l.left > 0
       /\ MatchesPolicy(l)
       /\ Save((leases \ {l}) \cup {[Renewed(l) EXCEPT !.current = TRUE]})
  /\ UNCHANGED <<config, started, used, handed>>

\* A heartbeat that names a lease: LookupCurrent, then Renew, which rewrites
\* the lease only in the second half of its life.
Renew(a, id) ==
  /\ started
  /\ \E l \in Current(leases, a) :
       /\ l.id = id
       /\ l.gen = config.gen
       /\ l.left > 0
       /\ MatchesPolicy(l)
       /\ 2 * l.left <= config.ttl
       /\ Save((leases \ {l}) \cup {Renewed(l)})
  /\ UNCHANGED <<config, started, used, handed>>

\* The agent is done with a lease when it asks for its release.  Only its
\* current lease is removed; expired ones go along.
Release(a, id, gen) ==
  LET released == {l \in Current(Live(leases), a) : l.id = id /\ l.gen = gen} IN
  /\ started
  /\ id \in used
  /\ Save(Live(leases) \ released)
  /\ handed' = {h \in handed : ~(h.agent = a /\ h.id = id)}
  /\ UNCHANGED <<config, started, used>>

\* The gateway process dies and starts again.  A store that is not
\* acceptable, or a Save that fails, leaves it without the lease manager.
Restart ==
  LET pruned == Live(disk) IN
  /\ \/ /\ Acceptable(pruned)
        /\ Save(pruned)
        /\ started' = TRUE
     \/ /\ ~Acceptable(pruned) \/ pruned # disk
        /\ started' = FALSE
        /\ UNCHANGED <<leases, disk>>
  /\ UNCHANGED <<config, used, handed>>

Reconfigure ==
  /\ config' \in Configs \ {config}
  /\ UNCHANGED <<started, leases, disk, used, handed>>

Later(L) == {[l EXCEPT !.left = IF @ > 0 THEN @ - 1 ELSE 0] : l \in L}

Tick ==
  /\ leases' = Later(leases)
  /\ disk' = Later(disk)
  /\ handed' = Live(Later(handed))
  /\ UNCHANGED <<config, started, used>>

Next ==
  \/ \E a \in Agents :
       \/ \E id \in used \cup {NoId}, excluded \in SUBSET Slots :
            \/ AcquireSticky(a, id, excluded)
            \/ \E newId \in Ids : AcquireNew(a, id, excluded, newId)
       \/ \E id \in used : Renew(a, id) \/ \E gen \in Gens : Release(a, id, gen)
  \/ Restart
  \/ Reconfigure
  \/ Tick

Spec == Init /\ [][Next]_vars
-----------------------------------------------------------------------------
(* Properties.                                                             *)

TypeOK ==
  /\ config \in Configs
  /\ started \in BOOLEAN
  /\ leases \in SUBSET Lease
  /\ disk \in SUBSET Lease
  /\ used \in SUBSET Ids
  /\ handed \in SUBSET [agent : Agents, id : Ids, port : Ports, left : Nat \ {0}]

\* A gateway that restarts at any moment accepts the file it finds: no port
\* reserved twice, no id twice, one current lease per agent, whatever requests,
\* configuration changes and expiries came before.
StoreLoads == Acceptable(Live(disk))

\* What was handed to an agent is on disk and lives there at least as long as
\* the agent was told, so no crash, prune or configuration change frees its
\* port early.
HandedIsDurable ==
  \A h \in handed : \E l \in disk :
    l.agent = h.agent /\ l.id = h.id /\ l.port = h.port /\ l.left >= h.left

\* Two tunnels never get one port: the unexpired, unreleased leases agents
\* hold have different ports, also the old and the new lease of one agent.
PortsExclusive ==
  \A g, h \in handed : g.id # h.id => g.port # h.port

\* A lease is never revived or moved: while it is stored it keeps its agent and
\* its port, and once it is superseded it is not current again.
NeverRevived ==
  [][\A l \in leases, k \in leases' :
       l.id = k.id => /\ k.agent = l.agent
                      /\ k.port = l.port
                      /\ k.current => l.current]_vars

\* The inductive invariant: memory is the file (also when the manager did not
\* start), and the file with the expired leases in it is acceptable.
Consistent ==
  /\ leases = disk
  /\ Acceptable(disk)
  /\ \A l \in disk : l.id \in used /\ l.left <= l.ttl

InductiveInv == TypeOK /\ Consistent /\ HandedIsDurable
=============================================================================

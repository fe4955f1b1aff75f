---------------------------- MODULE Services_proofs ---------------------------
(***************************************************************************)
(* Proofs about the services, for any values of their constants: the small *)
(* services of NetServices, the leases of DHCPLeases, the blocklist, the   *)
(* devices and identities, the flows the firewall learns, users, keys and  *)
(* the limits in front of a login, and notifications and event statistics. *)
(***************************************************************************)
EXTENDS MCServices, DHCPLeases, NetServices, FiniteSetTheorems, SequenceTheorems, WellFoundedInduction, TLAPS

-----------------------------------------------------------------------------
(* The services: what the NTP service keeps of its loop, and what the      *)
(* threat lists' set was filled with                                       *)

NtStates ==
    [cfg : {"off", "server", "client"}, running : BOOLEAN, sock : {"none", "open", "closed"},
     serving : Nat, live : 0..1, cancelled : Nat,
     call : [op : {"none", "reload", "stop"}, cfg : {"off", "server", "client"}], calls : Nat]

\* A call has cancelled the loop before it waits.
NtInv == nt \in NtStates /\ (~nt.running \/ nt.call.op # "none" => nt.live = 0)

TiStates ==
    [running : BOOLEAN, stopping : BOOLEAN, lists : [DOMAIN Feeds -> SUBSET NsAddrs], at : Nat,
     got : SUBSET NsAddrs, set : SUBSET NsAddrs, polls : SUBSET SUBSET NsAddrs]

TiInv == ti \in TiStates /\ SetOfOnePoll

ServicesInv == NtInv /\ TiInv

LEMMA NtKeeps ==
    ASSUME NtInv, NtNext
    PROVE  NtInv'
<1>1. ASSUME NEW op \in {"reload", "stop"}, NEW cfg \in {"off", "server", "client"}, NtCall(op, cfg)
      PROVE  NtInv'
  <2> DEFINE called == [nt EXCEPT !.calls = @ + 1, !.call = [op |-> op, cfg |-> cfg]]
  <2>1. /\ called \in NtStates /\ called.running = nt.running /\ called.live = nt.live
        /\ called.cancelled = nt.cancelled
    <3>1. nt \in NtStates /\ nt.calls \in Nat
      BY DEF NtInv, NtStates
    <3>2. nt.calls + 1 \in Nat
      BY <3>1
    <3> QED BY <3>1, <3>2 DEF NtStates
  <2>2. CASE ~nt.running
    <3>1. nt' = called
      BY <1>1, <2>2 DEF NtCall
    <3> HIDE DEF called
    <3> QED BY <2>1, <2>2, <3>1 DEF NtInv
  <2>3. CASE nt.running
    <3>1. nt' = [called EXCEPT !.cancelled = @ + nt.live, !.live = 0,
                               !.sock = IF @ = "open" THEN "closed" ELSE @]
      BY <1>1, <2>3 DEF NtCall
    <3> HIDE DEF called
    <3>2. called.live \in 0..1 /\ called.cancelled \in Nat
      BY <2>1 DEF NtStates
    <3>3. called.cancelled + nt.live \in Nat /\ 0 \in 0..1
      BY <2>1, <3>2
    <3>4. nt' \in NtStates /\ nt'.live = 0
      BY <2>1, <3>1, <3>3 DEF NtStates
    <3> QED BY <3>4 DEF NtInv
  <2> QED BY <2>2, <2>3
<1>2. CASE NtGoroutineEnds
  BY <1>2 DEF NtGoroutineEnds, NtInv, NtStates
<1>3. ASSUME NEW binds \in BOOLEAN, NtReturn(binds)
      PROVE  NtInv'
  <2> DEFINE done == [nt EXCEPT !.running = FALSE, !.call = NtIdle]
             s == [done EXCEPT !.cfg = nt.call.cfg]
             begun == [s EXCEPT !.running = TRUE, !.live = IF s.cfg = "client" THEN 1 ELSE 0]
  <2>1. /\ nt \in NtStates /\ nt.call.cfg \in {"off", "server", "client"}
        /\ nt.live = 0
    BY <1>3 DEF NtReturn, NtInv, NtStates
  <2>2. done \in NtStates /\ done.live = 0
    BY <2>1 DEF NtStates, NtIdle
  <2> HIDE DEF done
  <2>3. s \in NtStates
    BY <2>1, <2>2 DEF NtStates
  <2> HIDE DEF s, begun
  <2>4. begun \in NtStates /\ begun.running /\ begun.call.op = "none"
    <3> DEFINE live == IF s.cfg = "client" THEN 1 ELSE 0
    <3>1. live \in 0..1 /\ begun = [s EXCEPT !.running = TRUE, !.live = live]
      BY DEF begun
    <3> HIDE DEF live
    <3>2. begun \in NtStates /\ begun.running /\ begun.call = s.call
      BY <2>3, <3>1 DEF NtStates
    <3>3. s.call.op = "none"
      BY <2>1 DEF s, done, NtStates, NtIdle
    <3> QED BY <3>2, <3>3
  <2>5. CASE nt.call.op = "stop" \/ nt.call.cfg = "off"
    <3>1. nt' = done
      BY <1>3, <2>5 DEF NtReturn, done
    <3> QED BY <2>2, <3>1 DEF NtInv
  <2>6. CASE ~(nt.call.op = "stop" \/ nt.call.cfg = "off")
    <3>1. nt' = NtStart(s, binds)
      BY <1>3, <2>6 DEF NtReturn, done, s
    <3>2. CASE s.sock = "none" /\ ~binds
      <4>1. nt' = [begun EXCEPT !.running = FALSE, !.live = 0, !.cancelled = @ + begun.live]
        BY <3>1, <3>2 DEF NtStart, NtFailed, begun
      <4>2. begun.live \in 0..1 /\ begun.cancelled \in Nat
        BY <2>4 DEF NtStates
      <4>3. begun.cancelled + begun.live \in Nat /\ 0 \in 0..1
        BY <4>2
      <4>4. nt' \in NtStates /\ nt'.live = 0
        BY <2>4, <4>1, <4>3 DEF NtStates
      <4> QED BY <4>4 DEF NtInv
    <3>3. CASE ~(s.sock = "none" /\ ~binds)
      <4>1. nt' = [begun EXCEPT !.sock = IF @ = "none" THEN "open" ELSE @, !.serving = @ + 1]
        BY <3>1, <3>3 DEF NtStart, begun
      <4>2. begun.serving \in Nat
        BY <2>4 DEF NtStates
      <4>3. begun.serving + 1 \in Nat
        BY <4>2
      <4>4. nt' \in NtStates /\ nt'.running = begun.running /\ nt'.call = begun.call
        BY <2>4, <4>1, <4>3 DEF NtStates
      <4> QED BY <2>4, <4>4 DEF NtInv
    <3> QED BY <3>1, <3>2, <3>3
  <2> QED BY <2>5, <2>6
<1> QED BY <1>1, <1>2, <1>3 DEF NtNext

LEMMA TiKeeps ==
    ASSUME TiInv, TiNext
    PROVE  TiInv'
<1>1. CASE TiTick
  BY <1>1 DEF TiTick, TiInv, TiStates, SetOfOnePoll
<1>2. CASE TiFetch
  <2>1. ti.at + 1 \in Nat /\ ti.lists[ti.at] \in SUBSET NsAddrs
    BY <1>2 DEF TiFetch, TiInv, TiStates
  <2>2. CASE ti' = [ti EXCEPT !.at = @ + 1, !.got = @ \cup ti.lists[ti.at]]
    BY <2>1, <2>2 DEF TiInv, TiStates, SetOfOnePoll
  <2>3. CASE ti' = [ti EXCEPT !.at = @ + 1]
    BY <2>1, <2>3 DEF TiInv, TiStates, SetOfOnePoll
  <2> QED BY <1>2, <2>2, <2>3 DEF TiFetch
<1>3. CASE TiEnforce
  <2>1. CASE ti' = [ti EXCEPT !.at = 0]
    BY <2>1 DEF TiInv, TiStates, SetOfOnePoll
  <2>2. CASE ti' = [ti EXCEPT !.at = 0, !.set = ti.got, !.polls = @ \cup {ti.got}]
    BY <2>2 DEF TiInv, TiStates, SetOfOnePoll
  <2>3. ti \in TiStates
    BY DEF TiInv
  <2>4. ti' = [ti EXCEPT !.at = 0] \/ ti' = [ti EXCEPT !.at = 0, !.set = ti.got, !.polls = @ \cup {ti.got}]
    BY <1>3, <2>3 DEF TiEnforce, TiReloadSet, TiStates
  <2> QED BY <2>1, <2>2, <2>4
<1>4. CASE TiStop
  BY <1>4 DEF TiStop, TiInv, TiStates, SetOfOnePoll
<1>5. CASE TiStart
  BY <1>5 DEF TiStart, TiInv, TiStates, SetOfOnePoll
<1>6. CASE TiFeedChanges
  <2>1. PICK i \in DOMAIN Feeds, l \in SUBSET NsAddrs : ti' = [ti EXCEPT !.lists[i] = l]
    BY <1>6 DEF TiFeedChanges
  <2>2. [ti.lists EXCEPT ![i] = l] \in [DOMAIN Feeds -> SUBSET NsAddrs]
    BY DEF TiInv, TiStates
  <2> QED BY <2>1, <2>2 DEF TiInv, TiStates, SetOfOnePoll
<1> QED BY <1>1, <1>2, <1>3, <1>4, <1>5, <1>6 DEF TiNext

\* No loop outlives its service, whatever calls, failed starts and goroutines
\* interleave; and the addresses in force are those of one poll.
THEOREM ServicesHold == NsSpec => []ServicesSound
<1>1. NsInit => ServicesInv
  BY DEF NsInit, NtInit, NtIdle, TiInit, ServicesInv, NtInv, NtStates, TiInv, TiStates, SetOfOnePoll
<1>2. ServicesInv /\ [NsNext]_nsVars => ServicesInv'
  <2> SUFFICES ASSUME ServicesInv, [NsNext]_nsVars PROVE ServicesInv'
    OBVIOUS
  <2>1. CASE NtNext
    <3>1. ti' = ti
      BY <2>1 DEF NtNext, NtCall, NtGoroutineEnds, NtReturn
    <3> QED BY <2>1, <3>1, NtKeeps DEF ServicesInv, TiInv, SetOfOnePoll
  <2>2. CASE TiNext
    <3>1. nt' = nt
      BY <2>2 DEF TiNext, TiTick, TiFetch, TiEnforce, TiStop, TiStart, TiFeedChanges
    <3> QED BY <2>2, <3>1, TiKeeps DEF ServicesInv, NtInv
  <2>3. CASE UNCHANGED <<nt, ti>>
    BY <2>3 DEF ServicesInv, NtInv, TiInv, SetOfOnePoll
  <2>4. DdNext \/ RaNext \/ HmNext => UNCHANGED <<nt, ti>>
    BY DEF DdNext, DdStep, DdTick, DdAddress, DdSend, DdStop, DdMoves, RaNext, RaAnswer, RaPeriodic,
           RaSolicit, HmNext, HmStep, HmTick, HmResolve, HmFlush, HmAdd, HmStop, HmNamesChange
  <2> QED BY <2>1, <2>2, <2>3, <2>4 DEF NsNext, nsVars
<1>3. ServicesInv => ServicesSound
  BY DEF ServicesInv, NtInv, NtStates, TiInv, ServicesSound, NoStrayLoop
<1> QED BY <1>1, <1>2, <1>3, PTL DEF NsSpec

-----------------------------------------------------------------------------
(* The leases                                                              *)

USE DHCPAssumption DEF NoAddress

\* Allocation keeps the types of the lease store and of the bucket.
LEMMA AllocateType ==
    ASSUME TypeOK, NEW m \in Clients, NEW a \in Addresses, Allocate(m, a)
    PROVE  /\ leases' \in [Clients -> Pool \cup {NoAddress}]
           /\ taken' \in [Pool -> Clients \cup {NoClient}]
           /\ expiry' \in [Clients -> Nat]
           /\ rows' \in [Clients -> Lease]
<1>1. CASE UNCHANGED <<store, rows>>
  BY <1>1 DEF TypeOK, store
<1>2. CASE /\ a \in Free
           /\ Persist(m, a)
           /\ leases' = [leases EXCEPT ![m] = a]
           /\ taken' = [taken EXCEPT ![a] = m]
           /\ expiry' = [expiry EXCEPT ![m] = now + LeaseTime]
  <2>1. a \in Pool /\ a \in Nat
    BY <1>2 DEF Free, Pool
  <2>2. [ip |-> a, end |-> now + LeaseTime] \in Lease
    BY <2>1 DEF TypeOK, Lease
  <2>3. rows' \in [Clients -> Lease]
    BY <1>2, <2>2 DEF Persist, TypeOK
  <2>4. now + LeaseTime \in Nat
    BY DEF TypeOK
  <2>5. expiry' \in [Clients -> Nat]
    BY <1>2, <2>4 DEF TypeOK
  <2>6. leases' \in [Clients -> Pool \cup {NoAddress}] /\ taken' \in [Pool -> Clients \cup {NoClient}]
    BY <1>2, <2>1, Zenon DEF TypeOK
  <2> QED BY <2>3, <2>5, <2>6
<1> QED BY <1>1, <1>2 DEF Allocate

\* An empty lease store is well typed.
LEMMA ForgetType ==
    ASSUME Forget
    PROVE  /\ leases' \in [Clients -> Pool \cup {NoAddress}]
           /\ taken' \in [Pool -> Clients \cup {NoClient}]
           /\ expiry' \in [Clients -> Nat]
BY DEF Forget

\* Loading rows of the bucket gives a well typed lease store.
LEMMA LoadType ==
    ASSUME TypeOK, RowsSound, NEW known \in SUBSET {m \in Clients : Live(m)}, LoadLeases(known)
    PROVE  /\ leases' \in [Clients -> Pool \cup {NoAddress}]
           /\ taken' \in [Pool -> Clients \cup {NoClient}]
           /\ expiry' \in [Clients -> Nat]
<1>1. ASSUME NEW m \in known PROVE rows[m].ip \in Pool
  <2>1. m \in Clients /\ rows[m].end > now /\ rows[m] \in Lease
    BY DEF Live, TypeOK
  <2>2. rows[m].end > 0
    BY <2>1 DEF Lease, TypeOK
  <2> QED BY <2>1, <2>2 DEF RowsSound
<1> QED BY <1>1 DEF LoadLeases

\* Every variable keeps its type.
LEMMA TypeStep == TypeOK /\ RowsSound /\ [LeaseNext]_leaseVars => TypeOK'
<1> SUFFICES ASSUME TypeOK, RowsSound, [LeaseNext]_leaseVars PROVE TypeOK'
  OBVIOUS
<1>1. ASSUME NEW m \in Clients, Discover(m) PROVE TypeOK'
  <2>1. PICK a \in Addresses : Allocate(m, a)
    BY <1>1 DEF Discover
  <2> QED BY <1>1, <2>1, AllocateType DEF Discover, TypeOK
<1>2. ASSUME NEW m \in Clients, NEW asked \in Asked, Request(m, asked)
      PROVE  TypeOK'
  <2>1. PICK a \in Addresses :
            /\ Allocate(m, a)
            /\ held' = [held EXCEPT ![m] = IF asked \in {a, NoAddress}
                                           THEN [ip |-> a, end |-> now + LeaseTime]
                                           ELSE NoLease]
    BY <1>2 DEF Request
  <2>2. a \in Nat
    <3>1. CASE a \in Free
      BY <3>1, DHCPAssumption DEF Free, Pool
    <3>2. ASSUME NEW n \in Clients, a = leases[n] PROVE a \in Nat
      <4>1. Pool \cup {NoAddress} \subseteq Nat
        BY DHCPAssumption DEF Pool, NoAddress
      <4>2. leases[n] \in Pool \cup {NoAddress}
        BY DEF TypeOK
      <4> QED BY <3>2, <4>1, <4>2
    <3>3. ASSUME NEW n \in Clients, a = reserved[n] PROVE a \in Nat
      <4>1. reserved \in [Clients -> Nat]
        BY DHCPAssumption DEF TypeOK
      <4> QED BY <3>3, <4>1
    <3> QED BY <3>1, <3>2, <3>3, Zenon DEF Addresses
  <2>3. [ip |-> a, end |-> now + LeaseTime] \in Lease /\ NoLease \in Lease
    BY <2>2 DEF Lease, NoLease, TypeOK
  <2>4. held' \in [Clients -> Lease]
    BY <2>1, <2>3 DEF TypeOK
  <2> QED BY <1>2, <2>1, <2>4, AllocateType DEF Request, TypeOK
<1>3. ASSUME ExpireLeases PROVE TypeOK'
  BY <1>3 DEF ExpireLeases, TypeOK
<1>4. ASSUME NEW r \in ReservationMaps, NewReservations(r)
      PROVE  reserved' \in ReservationMaps /\ changed' \in BOOLEAN
  BY <1>4, Zenon DEF NewReservations
<1>5. ASSUME NEW r \in ReservationMaps, NEW opens \in BOOLEAN, NEW lists \in BOOLEAN,
             Reload(r, opens, lists)
      PROVE  TypeOK'
  <2> DEFINE known == IF opens /\ lists THEN {m \in Clients : Live(m)} ELSE {}
  <2>1. NewReservations(r) /\ LoadLeases(known) /\ UNCHANGED <<rows, now, held>>
    BY <1>5 DEF Reload
  <2>2. known \in SUBSET {m \in Clients : Live(m)}
    OBVIOUS
  <2>3. persistent' \in BOOLEAN /\ running' \in BOOLEAN /\ lost' \in BOOLEAN
    BY <1>5, Zenon DEF Reload
  <2>4. socket' \in {"none", "open", "closed"}
    BY <1>5 DEF Reload
  <2> HIDE DEF known
  <2> QED BY <1>4, <2>1, <2>2, <2>3, <2>4, LoadType DEF TypeOK
<1>6. ASSUME NEW r \in ReservationMaps, ReloadFails(r) \/ ReloadOff(r) PROVE TypeOK'
  <2>1. NewReservations(r) /\ Forget /\ UNCHANGED <<rows, now, held, lost>>
    BY <1>6 DEF ReloadFails, ReloadOff
  <2>2. persistent' \in BOOLEAN /\ running' \in BOOLEAN
    BY <1>6, Zenon DEF ReloadFails, ReloadOff
  <2>3. socket' \in {"none", "open", "closed"}
    BY <1>6 DEF ReloadFails, ReloadOff, TypeOK
  <2> QED BY <1>4, <2>1, <2>2, <2>3, ForgetType DEF TypeOK
<1>7. ASSUME Start \/ Stop PROVE TypeOK'
  <2>1. running' \in BOOLEAN
    BY <1>7, Zenon DEF Start, Stop
  <2> QED BY <1>7, <2>1 DEF Start, Stop, TypeOK, store
<1>8. ASSUME Exit PROVE TypeOK'
  <2>1. persistent' \in BOOLEAN /\ running' \in BOOLEAN
    BY <1>8, Zenon DEF Exit
  <2> QED BY <1>8, <2>1, ForgetType DEF Exit, TypeOK
<1>9. ASSUME Tick PROVE TypeOK'
  BY <1>9 DEF Tick, TypeOK, store
<1>10. CASE UNCHANGED leaseVars
  BY <1>10 DEF leaseVars, store, TypeOK
<1> QED BY <1>1, <1>2, <1>3, <1>5, <1>6, <1>7, <1>8, <1>9, <1>10 DEF LeaseNext

-----------------------------------------------------------------------------
(* The inductive invariant                                                 *)

\* A new lease: its address was free, so no running row has it.
LEMMA GrantStep ==
    ASSUME TypeOK, DHCPInv, socket = "open",
           NEW m \in Clients, NEW a \in Free,
           leases[m] = NoAddress,
           Persist(m, a),
           leases' = [leases EXCEPT ![m] = a],
           taken' = [taken EXCEPT ![a] = m],
           expiry' = [expiry EXCEPT ![m] = now + LeaseTime],
           UNCHANGED <<reserved, socket, now, lost, changed>>
    PROVE  DHCPInv'
<1>1. a \in Pool /\ a \in Nat /\ a # 0 /\ taken[a] = NoClient
  BY DEF Free, Pool
<1>2. now \in Nat /\ now + LeaseTime \in Nat /\ now + LeaseTime > 0
  BY DEF TypeOK
<1>3. \A n \in Clients : rows[n].end \in Nat /\ expiry[n] \in Nat
  BY DEF TypeOK, Lease
<1>4. /\ rows'[m] \in {rows[m], [ip |-> a, end |-> now + LeaseTime]}
      /\ \A n \in Clients : n # m => rows'[n] = rows[n]
  BY DEF Persist, TypeOK
<1>5. /\ leases'[m] = a /\ expiry'[m] = now + LeaseTime /\ taken'[a] = m
      /\ \A n \in Clients : n # m => leases'[n] = leases[n] /\ expiry'[n] = expiry[n]
      /\ \A b \in Pool : b # a => taken'[b] = taken[b]
  BY <1>1 DEF TypeOK
<1>6. RowsSound'
  <2> SUFFICES ASSUME NEW n \in Clients
               PROVE  /\ rows'[n].end > 0 => rows'[n].ip \in Pool
                      /\ rows'[n].end <= now + LeaseTime
                      /\ expiry'[n] # 0 => rows'[n].end <= expiry'[n]
    BY DEF RowsSound
  <2>1. CASE n # m
    BY <1>4, <1>5, <2>1 DEF DHCPInv, RowsSound
  <2>2. CASE n = m /\ rows'[m] = rows[m]
    BY <1>2, <1>3, <1>5, <2>2 DEF DHCPInv, RowsSound
  <2>3. CASE n = m /\ rows'[m] = [ip |-> a, end |-> now + LeaseTime]
    BY <1>1, <1>2, <1>5, <2>3
  <2> QED BY <1>4, <2>1, <2>2, <2>3
<1>7. ASSUME ~lost PROVE \A n \in Clients : Live(n) => rows[n].ip # a /\ n # m
  <2>1. \A n \in Clients : leases[n] # a
    BY <1>1, <1>7 DEF DHCPInv, LeasesExclusive
  <2>2. ASSUME NEW n \in Clients, Live(n) PROVE rows[n].ip # a /\ n # m
    <3>1. leases[n] = rows[n].ip
      BY <1>7, <2>2 DEF DHCPInv, RowsKnown
    <3>2. rows[n].ip \in Pool /\ rows[n].ip # 0
      BY <1>2, <1>3, <2>2 DEF DHCPInv, RowsSound, Live, Pool
    <3> QED BY <2>1, <3>1, <3>2
  <2> QED BY <2>2
<1>8. \A n \in Clients : n # m => (Live(n)' <=> Live(n))
  BY <1>4 DEF Live
<1>9. RowsDistinct'
  <2> SUFFICES ASSUME ~lost, NEW k \in Clients, NEW n \in Clients, k # n, Live(k)', Live(n)'
               PROVE  rows'[k].ip # rows'[n].ip
    BY DEF RowsDistinct
  <2>1. CASE k # m /\ n # m
    BY <1>4, <1>8, <2>1 DEF DHCPInv, RowsDistinct
  <2>2. rows'[m] = rows[m] => ~Live(m)'
    BY <1>7 DEF Live
  <2>3. CASE k = m
    <3>1. rows'[m].ip = a
      BY <1>4, <2>2, <2>3
    <3> QED BY <1>4, <1>7, <1>8, <2>3, <3>1
  <2>4. CASE n = m
    <3>1. rows'[m].ip = a
      BY <1>4, <2>2, <2>4
    <3> QED BY <1>4, <1>7, <1>8, <2>4, <3>1
  <2> QED BY <2>1, <2>3, <2>4
<1>10. RowsUnreserved'
  <2> SUFFICES ASSUME ~changed, NEW k \in Clients, NEW n \in Clients, Live(k)'
               PROVE  rows'[k].ip # reserved[n]
    BY DEF RowsUnreserved
  <2>1. CASE rows'[k] = rows[k]
    BY <2>1 DEF DHCPInv, RowsUnreserved, Live
  <2>2. CASE rows'[k] = [ip |-> a, end |-> now + LeaseTime]
    BY <2>2 DEF Free
  <2> QED BY <1>4, <2>1, <2>2
<1>11. RowsKnown'
  <2> SUFFICES ASSUME ~lost, NEW k \in Clients, Live(k)' PROVE leases'[k] = rows'[k].ip
    BY DEF RowsKnown
  <2>1. CASE k # m
    BY <1>4, <1>5, <1>8, <2>1 DEF DHCPInv, RowsKnown
  <2>2. CASE k = m
    <3>1. rows'[m] # rows[m]
      BY <1>7, <2>2 DEF Live
    <3> QED BY <1>4, <1>5, <2>2, <3>1
  <2> QED BY <2>1, <2>2
<1>12. LeasesExclusive'
  <2> SUFFICES ASSUME ~lost, NEW n \in Clients, NEW b \in Pool
               PROVE  leases'[n] = b <=> taken'[b] = n
    BY DEF LeasesExclusive
  <2>1. leases[n] = b <=> taken[b] = n
    BY DEF DHCPInv, LeasesExclusive
  <2>2. b # 0
    BY DEF Pool
  <2> QED BY <1>1, <1>5, <2>1, <2>2
<1> QED BY <1>6, <1>9, <1>10, <1>11, <1>12 DEF DHCPInv

\* Allocation keeps the invariant; only a new lease changes anything.
LEMMA AllocateStep ==
    ASSUME TypeOK, DHCPInv, Serving, NEW m \in Clients, NEW a, Allocate(m, a),
           UNCHANGED <<reserved, socket, now, lost, changed>>
    PROVE  DHCPInv'
<1>1. CASE UNCHANGED <<store, rows>>
  BY <1>1 DEF store, DHCPInv, RowsSound, RowsDistinct, RowsUnreserved, RowsKnown,
              LeasesExclusive, Live
<1>2. CASE ~UNCHANGED <<store, rows>>
  BY <1>2, GrantStep DEF Allocate, Serving
<1> QED BY <1>1, <1>2

\* An empty lease store has no expiry and no owners.
LEMMA ForgetStep ==
    ASSUME TypeOK, DHCPInv, Forget, socket' # "open", UNCHANGED <<rows, now, lost>>,
           ~changed' => reserved' = reserved /\ ~changed
    PROVE  DHCPInv'
<1>1. \A m \in Clients : expiry'[m] = 0 /\ leases'[m] = 0
  BY DEF Forget
<1>2. \A a \in Pool : taken'[a] = NoClient /\ a # 0
  BY DEF Forget, Pool
<1>3. RowsSound'
  BY <1>1 DEF DHCPInv, RowsSound
<1>4. RowsDistinct' /\ RowsKnown'
  BY DEF DHCPInv, RowsDistinct, RowsKnown, Live
<1>5. RowsUnreserved'
  BY DEF DHCPInv, RowsUnreserved, Live
<1>6. LeasesExclusive'
  BY <1>1, <1>2 DEF LeasesExclusive
<1> QED BY <1>3, <1>4, <1>5, <1>6 DEF DHCPInv

\* New reservations count as changed unless they are the old ones.
LEMMA ReservationStep ==
    ASSUME NEW r, NewReservations(r)
    PROVE  ~changed' => reserved' = reserved /\ ~changed
BY Zenon DEF NewReservations

\* Reload keeps the invariant: it knows every running row, or that it lost some.
LEMMA ReloadStep ==
    ASSUME TypeOK, DHCPInv, NEW r \in ReservationMaps,
           NEW opens \in BOOLEAN, NEW lists \in BOOLEAN, Reload(r, opens, lists)
    PROVE  DHCPInv'
<1> DEFINE known == IF opens /\ lists THEN {m \in Clients : Live(m)} ELSE {}
<1>1. /\ NewReservations(r) /\ LoadLeases(known) /\ UNCHANGED <<rows, now>>
      /\ lost' = (lost \/ \E m \in Clients \ known : Live(m))
  BY DEF Reload
<1>2. known \subseteq {m \in Clients : Live(m)}
  OBVIOUS
<1> HIDE DEF known
<1>3. \A m \in Clients : expiry'[m] = 0 /\ (Live(m)' <=> Live(m)) /\ rows'[m] = rows[m]
  BY <1>1 DEF LoadLeases, Live
<1>4. ~lost' => ~lost /\ \A m \in Clients : Live(m) => m \in known
  BY <1>1, Zenon
<1>5. \A m \in Clients : leases'[m] = IF m \in known THEN rows[m].ip ELSE NoAddress
  BY <1>1 DEF LoadLeases
<1>6. RowsSound'
  BY <1>1, <1>3 DEF DHCPInv, RowsSound
<1>7. RowsDistinct'
  BY <1>3, <1>4 DEF DHCPInv, RowsDistinct
<1>8. RowsUnreserved'
  BY <1>1, <1>3, ReservationStep DEF DHCPInv, RowsUnreserved
<1>9. RowsKnown'
  BY <1>3, <1>4, <1>5 DEF RowsKnown
<1>10. LeasesExclusive'
  <2> SUFFICES ASSUME ~lost', NEW m \in Clients, NEW a \in Pool
               PROVE  leases'[m] = a <=> taken'[a] = m
    BY DEF LeasesExclusive
  <2>1. a # 0
    BY DEF Pool
  <2>2. leases'[m] = a <=> m \in Owners(known, a)
    BY <1>5, <2>1 DEF Owners
  <2>3. \A n \in Owners(known, a) : m \in Owners(known, a) => n = m
    BY <1>2, <1>4 DEF Owners, DHCPInv, RowsDistinct
  <2>4. IF Owners(known, a) = {} THEN taken'[a] = NoClient ELSE taken'[a] \in Owners(known, a)
    BY <1>1 DEF LoadLeases
  <2> QED BY <2>2, <2>3, <2>4
<1> QED BY <1>6, <1>7, <1>8, <1>9, <1>10 DEF DHCPInv

\* The reaper takes only leases whose rows have ended, and frees their addresses.
LEMMA ExpireStep ==
    ASSUME TypeOK, DHCPInv, ExpireLeases
    PROVE  DHCPInv'
<1>1. UNCHANGED <<rows, now, lost, changed, reserved, socket>>
  BY DEF ExpireLeases
<1>2. \A m \in Clients : m \in Expired => ~Live(m)
  <2> SUFFICES ASSUME NEW m \in Clients, m \in Expired PROVE ~Live(m)
    OBVIOUS
  <2>1. expiry[m] < now /\ rows[m].end <= expiry[m]
    BY DEF Expired, DHCPInv, RowsSound
  <2>2. expiry[m] \in Nat /\ now \in Nat /\ rows[m].end \in Nat
    BY DEF TypeOK, Lease
  <2> QED BY <2>1, <2>2 DEF Live
<1>3. \A m \in Clients :
        /\ leases'[m] = IF m \in Expired THEN NoAddress ELSE leases[m]
        /\ expiry'[m] = IF m \in Expired THEN 0 ELSE expiry[m]
  BY DEF ExpireLeases
<1>4. \A a \in Pool : taken'[a] = IF \E m \in Expired : leases[m] = a THEN NoClient ELSE taken[a]
  BY DEF ExpireLeases
<1>5. RowsSound'
  BY <1>1, <1>3 DEF DHCPInv, RowsSound
<1>6. RowsDistinct' /\ RowsUnreserved'
  BY <1>1 DEF DHCPInv, RowsDistinct, RowsUnreserved, Live
<1>7. RowsKnown'
  BY <1>1, <1>2, <1>3 DEF DHCPInv, RowsKnown, Live
<1>8. LeasesExclusive'
  <2> SUFFICES ASSUME ~lost, NEW m \in Clients, NEW a \in Pool
               PROVE  leases'[m] = a <=> taken'[a] = m
    BY <1>1 DEF LeasesExclusive
  <2>1. \A n \in Clients : leases[n] = a <=> taken[a] = n
    BY DEF DHCPInv, LeasesExclusive
  <2>2. a # 0 /\ Expired \subseteq Clients
    BY DEF Pool, Expired
  <2>3. CASE \E n \in Expired : leases[n] = a
    BY <1>3, <1>4, <2>1, <2>2, <2>3
  <2>4. CASE ~\E n \in Expired : leases[n] = a
    BY <1>3, <1>4, <2>1, <2>2, <2>4
  <2> QED BY <2>3, <2>4
<1> QED BY <1>5, <1>6, <1>7, <1>8 DEF DHCPInv

\* Time passes: rows end, none begins to run again.
LEMMA TickStep ==
    ASSUME TypeOK, DHCPInv, Tick
    PROVE  DHCPInv'
<1>1. now' = now + 1 /\ now \in Nat /\ \A m \in Clients : rows[m].end \in Nat
  BY DEF Tick, TypeOK, Lease
<1>2. UNCHANGED <<store, reserved, socket, rows, lost, changed>>
  BY DEF Tick
<1>3. \A m \in Clients : Live(m)' => Live(m)
  BY <1>1, <1>2 DEF Live
<1>4. RowsSound'
  BY <1>1, <1>2 DEF DHCPInv, RowsSound, store
<1>5. RowsDistinct' /\ RowsUnreserved' /\ RowsKnown'
  BY <1>2, <1>3 DEF DHCPInv, RowsDistinct, RowsUnreserved, RowsKnown, store
<1>6. LeasesExclusive'
  BY <1>2 DEF DHCPInv, LeasesExclusive, store
<1> QED BY <1>4, <1>5, <1>6 DEF DHCPInv

\* The invariant is inductive.
LEMMA InvStep == TypeOK /\ DHCPInv /\ [LeaseNext]_leaseVars => DHCPInv'
<1> SUFFICES ASSUME TypeOK, DHCPInv, [LeaseNext]_leaseVars PROVE DHCPInv'
  OBVIOUS
<1>1. ASSUME NEW m \in Clients, Discover(m) PROVE DHCPInv'
  BY <1>1, AllocateStep DEF Discover
<1>2. ASSUME NEW m \in Clients, NEW asked \in Asked, Request(m, asked)
      PROVE  DHCPInv'
  BY <1>2, AllocateStep DEF Request
<1>3. ASSUME NEW r \in ReservationMaps, ReloadFails(r) \/ ReloadOff(r) PROVE DHCPInv'
  <2>1. NewReservations(r) /\ Forget /\ UNCHANGED <<rows, now, lost>>
    BY <1>3 DEF ReloadFails, ReloadOff
  <2>2. socket' # "open"
    BY <1>3 DEF ReloadFails, ReloadOff
  <2> QED BY <2>1, <2>2, ForgetStep, ReservationStep
<1>4. ASSUME Exit PROVE DHCPInv'
  <2>1. Forget /\ socket' # "open" /\ UNCHANGED <<rows, now, lost, reserved, changed>>
    BY <1>4 DEF Exit
  <2> QED BY <2>1, ForgetStep
<1>5. ASSUME Start \/ Stop \/ UNCHANGED leaseVars PROVE DHCPInv'
  <2>1. /\ UNCHANGED <<leases, taken, expiry, reserved, rows, now, lost, changed>>
        /\ socket' = "open" => socket = "open"
    BY <1>5 DEF Start, Stop, leaseVars, store
  <2> QED BY <2>1 DEF DHCPInv, RowsSound, RowsDistinct, RowsUnreserved, RowsKnown,
                      LeasesExclusive, Live
<1> QED BY <1>1, <1>2, <1>3, <1>4, <1>5, ReloadStep, ExpireStep, TickStep DEF LeaseNext

\* The initial state satisfies the types and the invariant.
LEMMA InitOK == LeaseInit => TypeOK /\ DHCPInv
<1> SUFFICES ASSUME LeaseInit PROVE TypeOK /\ DHCPInv
  OBVIOUS
<1>1. persistent \in BOOLEAN /\ running \in BOOLEAN /\ lost \in BOOLEAN /\ changed \in BOOLEAN
  BY Zenon DEF LeaseInit
<1>2. TypeOK
  BY <1>1 DEF LeaseInit, TypeOK, Lease, NoLease
<1>3. \A m \in Clients : rows[m].end = 0 /\ expiry[m] = 0 /\ leases[m] = 0 /\ ~Live(m)
  <2>1. \A m \in Clients : rows[m].end = 0 /\ expiry[m] = 0 /\ leases[m] = 0
    BY DEF LeaseInit, NoLease
  <2>2. now = 1
    BY DEF LeaseInit
  <2>3. ASSUME NEW m \in Clients PROVE ~(rows[m].end > now)
    BY <2>1, <2>2
  <2> QED BY <2>1, <2>3 DEF Live
<1>4. \A a \in Pool : taken[a] = NoClient /\ a # 0
  BY DEF LeaseInit, Pool
<1>5. DHCPInv
  BY <1>2, <1>3, <1>4 DEF DHCPInv, RowsSound, RowsDistinct, RowsUnreserved, RowsKnown,
                          LeasesExclusive, TypeOK
<1> QED BY <1>2, <1>5

\* Types and the invariant hold throughout.
LEMMA Invariance == LeaseSpec => [](TypeOK /\ DHCPInv)
<1>1. TypeOK /\ DHCPInv /\ [LeaseNext]_leaseVars => (TypeOK /\ DHCPInv)'
  BY TypeStep, InvStep DEF DHCPInv
<1> QED BY <1>1, InitOK, PTL DEF LeaseSpec

-----------------------------------------------------------------------------
(* The blocklist, devices and identities                                   *)

\* BlocklistInForce needs no help: a reload sets blockedNames, dnsCfg and the
\* file at once.
LEMMA BlocklistStep ==
    ASSUME BlocklistInForce, DnsNext \/ UNCHANGED dnsVars
    PROVE  BlocklistInForce'
<1>1. ASSUME NEW cfg \in DnsConfigs, NEW d \in ListDownloads, DnsReload(cfg, d)
      PROVE  BlocklistInForce'
  <2>1. CASE DnsReloadOff(cfg)
    BY <2>1 DEF DnsReloadOff, BlocklistInForce
  <2>2. CASE TakeDnsConfig(cfg, d)
    <3>1. dnsCfg'.list = cfg.list
      BY <2>2 DEF TakeDnsConfig, DnsConfigs
    <3>2. cfg.list => listFile' = d.file /\ blockedNames' = DnsListed(cfg, d)
      BY <2>2 DEF TakeDnsConfig
    <3> QED BY <3>1, <3>2 DEF DnsListed, BlocklistInForce
  <2> QED BY <1>1, <2>1, <2>2 DEF DnsReload, ReloadRestart, ReloadHot
<1>2. ASSUME NEW n \in DnsNames, LeaseRecord(n) \/ ThreatDomains(n)
      PROVE  BlocklistInForce'
  BY <1>2 DEF LeaseRecord, ThreatDomains, BlocklistInForce
<1>3. ASSUME NEW q \in Queries, QueryStep(q) \/ \E n \in DnsNames : AskDns(q, n)
      PROVE  BlocklistInForce'
  <2>1. QueryOnly
    BY <1>3 DEF QueryStep, AskDns, CheckBlocked, CheckCache, CheckRecords, ForwardQuery, CacheResponse,
                SnoopResponse, QueryDone
  <2> QED BY <2>1 DEF QueryOnly, BlocklistInForce
<1>4. CASE UNCHANGED dnsVars
  BY <1>4 DEF dnsVars, BlocklistInForce
<1> QED BY <1>1, <1>2, <1>3, <1>4 DEF DnsNext

\* What is known of a device: a gateway has no addresses.
SoundDevices ==
    {d \in [known : BOOLEAN, ips : SUBSET DevIPs, gateway : BOOLEAN,
            alias : {"none", "announced", "user"}, fresh : BOOLEAN] : d.gateway => d.ips = {}}
DeviceTables == [Macs -> SoundDevices]
DeviceFiles == [kind : {"none", "torn", "whole"}, data : DeviceTables]
SaverStates == [pc : {"idle", "open", "write", "rename"}, data : DeviceTables]

\* Whatever is saved, or about to be, is as sound as what is in memory.
DevicesInv ==
    /\ seen \in DeviceTables
    /\ devFile \in DeviceFiles /\ devTmp \in DeviceFiles
    /\ saver \in [Savers -> SaverStates]

LEMMA NothingSeenIsSound == NothingSeen \in DeviceTables
BY DEF NothingSeen, Unseen, DeviceTables, SoundDevices

LEMMA NewDeviceIsSound == ASSUME NEW fresh \in BOOLEAN PROVE NewDevice(fresh) \in SoundDevices
BY DEF NewDevice, Unseen, SoundDevices

LEMMA AfterPacketIsSound ==
    ASSUME NEW d \in SoundDevices, NEW ip \in DevIPs
    PROVE  AfterPacket(d, ip) \in SoundDevices
BY DEF AfterPacket, SoundDevices

LEMMA SeenChanges ==
    ASSUME NEW m \in Macs, NEW d \in SoundDevices, DevicesInv, seen' = [seen EXCEPT ![m] = d],
           UNCHANGED <<devFile, devTmp, saver>>
    PROVE  DevicesInv'
BY DEF DevicesInv, DeviceTables

LEMMA SaverChanges ==
    ASSUME NEW s \in Savers, NEW v \in SaverStates, DevicesInv, saver' = [saver EXCEPT ![s] = v],
           devFile' \in DeviceFiles, devTmp' \in DeviceFiles, UNCHANGED seen
    PROVE  DevicesInv'
BY DEF DevicesInv

LEMMA DevicesStep ==
    ASSUME DevicesInv, DevNext \/ UNCHANGED devVars
    PROVE  DevicesInv'
<1>0. \A m \in Macs : seen[m] \in SoundDevices
  BY DEF DevicesInv, DeviceTables
<1>1. ASSUME NEW m \in Macs, NEW ip \in DevIPs, SeePacket(m, ip) PROVE DevicesInv'
  <2>1. AfterPacket(IF seen[m].known THEN seen[m] ELSE NewDevice(TRUE), ip) \in SoundDevices
    BY <1>0, NewDeviceIsSound, AfterPacketIsSound
  <2> QED BY <1>1, <2>1, SeenChanges DEF SeePacket
<1>2. ASSUME NEW m \in Macs, ProcessMDNS(m) PROVE DevicesInv'
  <2>1. \A d \in SoundDevices : Announced(d) \in SoundDevices
    BY DEF Announced, SoundDevices
  <2>2. Announced(IF seen[m].known THEN seen[m] ELSE NewDevice(FALSE)) \in SoundDevices
    BY <1>0, <2>1, NewDeviceIsSound
  <2> QED BY <1>2, <2>2, SeenChanges DEF ProcessMDNS
<1>3. ASSUME NEW m \in Macs, ProcessDHCP(m) PROVE DevicesInv'
  BY <1>0, <1>3, NewDeviceIsSound, SeenChanges DEF ProcessDHCP
<1>4. ASSUME NEW m \in Macs, UpdateDevice(m) PROVE DevicesInv'
  <2>1. [seen[m] EXCEPT !.alias = "user"] \in SoundDevices
    BY <1>0 DEF SoundDevices
  <2>2. seen' = [seen EXCEPT ![m] = [seen[m] EXCEPT !.alias = "user"]] /\ UNCHANGED <<devFile, devTmp, saver>>
    BY <1>4 DEF UpdateDevice
  <2> QED BY <2>1, <2>2, SeenChanges
<1>5. CASE Enrich
  <2>1. PICK m : seen' = [seen EXCEPT ![m].fresh = FALSE]
    BY <1>5 DEF Enrich
  <2>2. \A x \in Macs : [seen[x] EXCEPT !.fresh = FALSE] \in SoundDevices
    BY <1>0, Zenon DEF SoundDevices
  <2>3. seen' \in DeviceTables
    BY <2>1, <2>2 DEF DevicesInv, DeviceTables
  <2> QED BY <1>5, <2>3 DEF Enrich, DevicesInv
<1>6. ASSUME NEW s \in Savers, SaveCopy(s) PROVE DevicesInv'
  <2>1. [pc |-> "open", data |-> seen] \in SaverStates
    BY DEF DevicesInv, SaverStates
  <2> QED BY <1>6, <2>1, SaverChanges DEF SaveCopy, DevicesInv
<1>7. ASSUME NEW s \in Savers, SaveOpen(s) \/ SaveWrite(s) \/ SaveRename(s) PROVE DevicesInv'
  <2>1. PICK to \in {"write", "rename", "idle"} : saver' = [saver EXCEPT ![s].pc = to] /\ seen' = seen
    BY <1>7 DEF SaveOpen, SaveWrite, SaveRename, SaveStep
  <2>2. saver[s] \in SaverStates
    BY DEF DevicesInv
  <2>3. [saver[s] EXCEPT !.pc = to] \in SaverStates /\ saver[s].data \in DeviceTables
    BY <2>2 DEF SaverStates
  <2>4. \A k \in {"none", "torn"} : [devTmp EXCEPT !.kind = k] \in DeviceFiles
    BY DEF DevicesInv, DeviceFiles
  <2>5. [kind |-> "whole", data |-> saver[s].data] \in DeviceFiles
    BY <2>3 DEF DeviceFiles
  <2>6. devFile' \in DeviceFiles /\ devTmp' \in DeviceFiles
    BY <1>7, <2>4, <2>5 DEF SaveOpen, SaveWrite, SaveRename, DevicesInv
  <2>7. saver' = [saver EXCEPT ![s] = [saver[s] EXCEPT !.pc = to]]
    BY <2>1
  <2> QED BY <2>1, <2>3, <2>6, <2>7, SaverChanges
<1>8. CASE DevRestart
  <2>1. PICK old \in SUBSET Macs : seen' = [m \in Macs |-> IF m \in old THEN Unseen ELSE LoadedDevices[m]]
    BY <1>8 DEF DevRestart
  <2>2. LoadedDevices \in DeviceTables
    BY NothingSeenIsSound DEF LoadedDevices, DevicesInv, DeviceFiles
  <2>3. Unseen \in SoundDevices
    BY DEF Unseen, SoundDevices
  <2>4. seen' \in DeviceTables
    BY <2>1, <2>2, <2>3 DEF DeviceTables
  <2>5. [pc |-> "idle", data |-> NothingSeen] \in SaverStates
    BY NothingSeenIsSound DEF SaverStates
  <2> QED BY <1>8, <2>4, <2>5 DEF DevRestart, DevicesInv
<1>9. ASSUME UNCHANGED collVars PROVE DevicesInv'
  BY <1>9 DEF collVars, DevicesInv
<1>10. ReflNext => UNCHANGED collVars
  BY DEF ReflNext, ReflStart, ReflAttempt, ReflLoop, ReflStop, ReflStopped
<1>11. (\E i \in Identities : CreateIdentity(i) \/ \E m \in Macs : LinkMAC(m, i)) => UNCHANGED collVars
  BY DEF CreateIdentity, LinkMAC
<1>12. (\E u \in Updaters : (\E i \in Identities : UpdateBegin(u, i)) \/ UpdateCache(u)
                           \/ \E ok \in BOOLEAN : UpdatePersist(u, ok)) => UNCHANGED collVars
  BY DEF UpdateBegin, UpdateCache, UpdatePersist
<1>13. (\E m \in Macs : UnlinkMAC(m)) \/ UNCHANGED devVars => UNCHANGED collVars
  BY DEF UnlinkMAC, devVars
<1> QED BY <1>1, <1>2, <1>3, <1>4, <1>5, <1>6, <1>7, <1>8, <1>9, <1>10, <1>11, <1>12, <1>13
        DEF DevNext, SaveNext

\* An identity in memory is in the store, and so is one that is being updated.
IdentitiesInv ==
    /\ devSteps \in Nat
    /\ idStore \in [Identities -> Nat] /\ idCache \in [Identities -> Nat]
    /\ linkStore \in [Macs -> Identities \cup {NoLink}] /\ linkCache \in [Macs -> Identities \cup {NoLink}]
    /\ updater \in [Updaters -> [pc : {"idle", "persist", "cache"}, id : Identities \cup {"none"}, version : Nat]]
    /\ \A u \in Updaters : updater[u].pc # "idle" => 
          updater[u].id \in Identities /\ updater[u].version > 0 /\ idStore[updater[u].id] > 0
    /\ \A i \in Identities : idCache[i] > 0 => idStore[i] > 0
    /\ LinksResolve

LEMMA IdentitiesStep ==
    ASSUME IdentitiesInv, DevNext \/ UNCHANGED devVars
    PROVE  IdentitiesInv'
<1> USE DEF IdentitiesInv, LinksResolve
<1>1. ASSUME NEW i \in Identities, CreateIdentity(i) PROVE IdentitiesInv'
  BY <1>1 DEF CreateIdentity, DevStep
<1>2. ASSUME NEW u \in Updaters, NEW i \in Identities, UpdateBegin(u, i) PROVE IdentitiesInv'
  <2>1. devSteps + 2 \in Nat /\ devSteps + 2 > 0
    OBVIOUS
  <2> QED BY <1>2, <2>1 DEF UpdateBegin, DevStep
<1>3. ASSUME NEW u \in Updaters, NEW ok \in BOOLEAN, UpdatePersist(u, ok) PROVE IdentitiesInv'
  BY <1>3 DEF UpdatePersist
<1>4. ASSUME NEW u \in Updaters, UpdateCache(u) PROVE IdentitiesInv'
  BY <1>4 DEF UpdateCache
<1>5. ASSUME NEW m \in Macs, NEW i \in Identities, LinkMAC(m, i) PROVE IdentitiesInv'
  BY <1>5 DEF LinkMAC, Linkable, DevStep
<1>6. ASSUME NEW m \in Macs, UnlinkMAC(m) PROVE IdentitiesInv'
  BY <1>6 DEF UnlinkMAC, DevStep
<1>7. CASE DevRestart
  BY <1>7 DEF DevRestart, DevStep
<1>8. ASSUME UNCHANGED identVars, UNCHANGED devSteps \/ DevStep PROVE IdentitiesInv'
  BY <1>8 DEF identVars, DevStep
<1>9. ReflNext => UNCHANGED identVars /\ (UNCHANGED devSteps \/ DevStep)
  BY DEF ReflNext, ReflStart, ReflAttempt, ReflLoop, ReflStop, ReflStopped
<1>10. SaveNext => UNCHANGED identVars /\ (UNCHANGED devSteps \/ DevStep)
  BY DEF SaveNext, SaveCopy, SaveOpen, SaveWrite, SaveRename, SaveStep
<1>11. (\E m \in Macs : ProcessMDNS(m) \/ ProcessDHCP(m) \/ UpdateDevice(m)) => UNCHANGED identVars /\ DevStep
  BY DEF ProcessMDNS, ProcessDHCP, UpdateDevice
<1>12. (\E m \in Macs, ip \in DevIPs : SeePacket(m, ip)) => UNCHANGED identVars /\ DevStep
  BY DEF SeePacket
<1>13. Enrich \/ UNCHANGED devVars => UNCHANGED identVars /\ UNCHANGED devSteps
  BY DEF Enrich, devVars
<1> QED BY <1>1, <1>2, <1>3, <1>4, <1>5, <1>6, <1>7, <1>8, <1>9, <1>10, <1>11, <1>12, <1>13 DEF DevNext

LEMMA DevicesInit == ASSUME DevInit PROVE DevicesInv /\ IdentitiesInv
<1>1. DevicesInv
  BY NothingSeenIsSound DEF DevInit, DevicesInv, DeviceFiles, SaverStates
<1>2. IdentitiesInv
  BY DEF DevInit, IdentitiesInv, LinksResolve
<1> QED BY <1>1, <1>2

NetworkInv == BlocklistInForce /\ DevicesInv /\ IdentitiesInv

LEMMA NetworkInvSuffices == NetworkInv => BlocklistInForce /\ GatewayHasNoAddresses /\ LinksResolve
BY DEF NetworkInv, DevicesInv, DeviceTables, SoundDevices, GatewayHasNoAddresses, IdentitiesInv

-----------------------------------------------------------------------------
(* Learned flows                                                           *)

FlowKeys == {QueueKey(pkt) : pkt \in Packets} \cup {BridgeKey(pkt) : pkt \in Packets}
Sources == {key[1] : key \in FlowKeys}
Rulings == [state : {"allowed", "denied"}, no : 1..rulings]

\* A row and a call are records, whatever their fields hold.
IsRow(r) == r = [key |-> r.key, state |-> r.state]
IsCall(q) == q = [at |-> q.at, key |-> q.key, found |-> q.found, state |-> q.state, id |-> q.id,
                  fresh |-> q.fresh, verdict |-> q.verdict]

RowsInv ==
    /\ lastId \in Nat
    /\ DOMAIN flowRows \subseteq 1..lastId
    /\ \A id \in DOMAIN flowRows : IsRow(flowRows[id])
    /\ \A i, j \in DOMAIN flowRows : flowRows[i].key = flowRows[j].key => i = j

RulingsInv ==
    /\ rulings \in Nat
    /\ DOMAIN ruled \subseteq 1..lastId
    /\ \A id \in DOMAIN ruled : ruled[id] \in Rulings
    /\ DecisionsKept

\* The number was given to a flow with this key.
Fits(id, key) == id \in 1..lastId /\ (id \in DOMAIN flowRows => flowRows[id].key = key)

HintsInv == \A h \in domainHints \cup enrich : Fits(h.id, h.key)

\* A call that missed the cache is on its way to the verdict the operator's
\* decision asks for, as long as that decision stands.
FollowsDecision(q) ==
    q.fresh # NoRuling /\ RulingOf(q.key) = q.fresh =>
        /\ q.at \in {"upsert", "put"} => q.found # 0 /\ q.state = q.fresh.state
        /\ q.at \in {"notify", "verdict"} =>
              q.verdict \in {IF q.fresh.state = "allowed" THEN "accept" ELSE "drop", "error"}

CallInv(q) ==
    /\ IsCall(q)
    /\ q.at \in {"idle", "find", "upsert", "put", "notify", "verdict"}
    /\ q.at \in {"find", "upsert", "put", "notify"} => q.key \in FlowKeys
    /\ q.at = "put" => Fits(q.id, q.key)
    /\ q.fresh \in Rulings \cup {NoRuling}
    /\ FollowsDecision(q)

CallsInv ==
    /\ learner = [p \in Learners |-> learner[p]]
    /\ ingestChan \in Seq(FlowKeys)
    /\ \A p \in Learners : CallInv(learner[p])

\* The last notification about a source is kept with its scan.
NoticesInv ==
    /\ learnNow \in Nat
    /\ notices \in Seq(Sources \X Nat)
    /\ \A m \in DOMAIN scan :
         /\ scan[m] = [ports |-> scan[m].ports, since |-> scan[m].since, last |-> scan[m].last]
         /\ scan[m].last \in Nat \cup {NoTime}
    /\ \A i \in DOMAIN notices :
         /\ notices[i][2] <= learnNow
         /\ notices[i][1] \in DOMAIN scan
         /\ scan[notices[i][1]].last \in Nat /\ notices[i][2] <= scan[notices[i][1]].last
    /\ NotifyRate

LearnInv == RowsInv /\ RulingsInv /\ HintsInv /\ CallsInv /\ NoticesInv

\* How rows change: a number keeps its key while it is in use and is not used again.
RowsKept ==
    /\ lastId' \in Nat /\ lastId <= lastId'
    /\ \A i \in DOMAIN flowRows' : i <= lastId => i \in DOMAIN flowRows /\ flowRows'[i].key = flowRows[i].key

Removed(id) == flowRows' = [i \in DOMAIN flowRows \ {id} |-> flowRows[i]] /\ lastId' = lastId

LEMMA RowsUpserted ==
    ASSUME RowsInv, NEW key, NEW state, UpsertFlow(key, state)
    PROVE  RowsInv' /\ RowsKept
<1>1. CASE UNCHANGED <<flowRows, lastId>>
  BY <1>1 DEF RowsInv, RowsKept, IsRow
<1>2. CASE /\ FlowRow(key) = {} /\ lastId' = lastId + 1
           /\ flowRows' = [i \in DOMAIN flowRows \cup {lastId + 1} |->
                            IF i = lastId + 1 THEN [key |-> key, state |-> state] ELSE flowRows[i]]
  <2>1. lastId \in Nat /\ DOMAIN flowRows \subseteq 1..lastId
    BY DEF RowsInv
  <2>2. DOMAIN flowRows' = DOMAIN flowRows \cup {lastId + 1} /\ lastId + 1 \notin DOMAIN flowRows
    BY <1>2, <2>1
  <2>3. \A i \in DOMAIN flowRows : flowRows'[i] = flowRows[i] /\ flowRows[i].key # key
    BY <1>2, <2>2 DEF FlowRow
  <2>4. flowRows'[lastId + 1] = [key |-> key, state |-> state]
    BY <1>2
  <2>5. RowsInv'
    <3>1. lastId' \in Nat /\ DOMAIN flowRows' \subseteq 1..lastId'
      BY <1>2, <2>1, <2>2
    <3>2. \A i \in DOMAIN flowRows' : IsRow(flowRows'[i])
      BY <2>2, <2>3, <2>4 DEF IsRow, RowsInv
    <3>3. \A i, j \in DOMAIN flowRows' : flowRows'[i].key = flowRows'[j].key => i = j
      BY <2>2, <2>3, <2>4 DEF RowsInv
    <3> QED BY <3>1, <3>2, <3>3 DEF RowsInv, IsRow
  <2>6. RowsKept
    BY <1>2, <2>1, <2>2, <2>3 DEF RowsKept
  <2> QED BY <2>5, <2>6
<1> QED BY <1>1, <1>2 DEF UpsertFlow, NewId

LEMMA RowsRemoved ==
    ASSUME RowsInv, NEW id, Removed(id)
    PROVE  RowsInv' /\ RowsKept
<1>1. DOMAIN flowRows' = DOMAIN flowRows \ {id} /\ lastId' = lastId
      /\ \A i \in DOMAIN flowRows' : flowRows'[i] = flowRows[i]
  BY DEF Removed
<1> QED BY <1>1 DEF RowsInv, RowsKept, IsRow

LEMMA RowDecided ==
    ASSUME RowsInv, NEW id \in DOMAIN flowRows, NEW state, lastId' = lastId,
           flowRows' = [flowRows EXCEPT ![id].state = state]
    PROVE  RowsInv' /\ RowsKept /\ flowRows'[id].state = state
<1>1. DOMAIN flowRows' = DOMAIN flowRows
      /\ \A i \in DOMAIN flowRows : i # id => flowRows'[i] = flowRows[i]
  OBVIOUS
<1>2. IsRow(flowRows[id])
  BY DEF RowsInv
<1>3. flowRows'[id] = [flowRows[id] EXCEPT !.state = state]
  OBVIOUS
<1>4. \A r : IsRow(r) => /\ IsRow([r EXCEPT !.state = state])
                         /\ [r EXCEPT !.state = state].key = r.key /\ [r EXCEPT !.state = state].state = state
  BY DEF IsRow
<1>5. IsRow(flowRows'[id]) /\ flowRows'[id].key = flowRows[id].key /\ flowRows'[id].state = state
  BY <1>2, <1>3, <1>4
<1>6. \A i \in DOMAIN flowRows : flowRows'[i].key = flowRows[i].key
  BY <1>1, <1>5
<1>7. RowsInv'
  BY <1>1, <1>5, <1>6 DEF RowsInv, IsRow
<1>8. RowsKept
  BY <1>1, <1>6 DEF RowsInv, RowsKept
<1> QED BY <1>5, <1>7, <1>8

\* What a step does to the rows.
UpsertsRow == UNCHANGED <<flowRows, lastId>> \/ \E key, state : UpsertFlow(key, state)
RemovesRow ==
    \E id \in DOMAIN flowRows : /\ Removed(id) /\ unlearned \subseteq unlearned'
                                /\ FlowExpired(id) \/ id \in unlearned'
DecidesRow ==
    \E id \in DOMAIN flowRows, state \in {"allowed", "denied"} :
        /\ flowRows' = [flowRows EXCEPT ![id].state = state] /\ lastId' = lastId
        /\ ruled' = [i \in DOMAIN ruled \cup {id} |->
                       IF i = id THEN [state |-> state, no |-> rulings + 1] ELSE ruled[i]]
        /\ rulings' = rulings + 1

LEMMA RowSteps ==
    ASSUME LearnNext \/ UNCHANGED learnVars
    PROVE  \/ (UpsertsRow \/ RemovesRow) /\ ruled' = ruled /\ rulings' = rulings /\ unlearned \subseteq unlearned'
           \/ DecidesRow /\ unlearned' = unlearned
<1>1. ASSUME NEW id \in DOMAIN flowRows, NEW state \in {"allowed", "denied"}, DecideRule(id, state)
      PROVE  DecidesRow /\ unlearned' = unlearned
  BY <1>1 DEF DecideRule, DecidesRow
<1>2. ASSUME NEW id \in DOMAIN flowRows, CleanupFlow(id) \/ DeleteRule(id)
      PROVE  RemovesRow /\ ruled' = ruled /\ rulings' = rulings /\ unlearned \subseteq unlearned'
  <2>1. Removed(id) /\ ruled' = ruled /\ rulings' = rulings /\ unlearned \subseteq unlearned'
    BY <1>2 DEF CleanupFlow, DeleteRule, Removed
  <2>2. FlowExpired(id) \/ id \in unlearned'
    BY <1>2 DEF CleanupFlow, DeleteRule
  <2> QED BY <2>1, <2>2 DEF RemovesRow
<1>3. ASSUME NEW p \in Learners, FindFlow(p) \/ SaveFlow(p) \/ PutVerdict(p) \/ NotifyFlow(p)
      PROVE  UpsertsRow /\ ruled' = ruled /\ rulings' = rulings /\ unlearned' = unlearned
  <2>1. UNCHANGED <<ruled, rulings, unlearned>>
    BY <1>3, Zenon DEF FindFlow, SaveFlow, PutVerdict, NotifyFlow
  <2>2. UpsertsRow
    BY <1>3, Zenon DEF FindFlow, SaveFlow, PutVerdict, NotifyFlow, UpsertsRow
  <2> QED BY <2>1, <2>2
<1>4. ASSUME NEW e \in flushing, FlushOne(e)
      PROVE  UpsertsRow /\ ruled' = ruled /\ rulings' = rulings /\ unlearned' = unlearned
  BY <1>4 DEF FlushOne, UpsertsRow
<1>5. ASSUME NEW pkt \in Packets, QueuePacket(pkt) \/ LogPacket(pkt)
      PROVE  UNCHANGED <<flowRows, lastId>> /\ UNCHANGED <<ruled, rulings, unlearned>>
  BY <1>5 DEF QueuePacket, LogPacket
<1>6. ASSUME IngestPacket \/ FlushDirty \/ LearnTick \/ UNCHANGED learnVars
      PROVE  UNCHANGED <<flowRows, lastId>> /\ UNCHANGED <<ruled, rulings, unlearned>>
  BY <1>6 DEF IngestPacket, FlushDirty, LearnTick, learnVars
<1>7. ASSUME NEW h \in enrich, AddHint(h)
      PROVE  UNCHANGED <<flowRows, lastId>> /\ UNCHANGED <<ruled, rulings, unlearned>>
  BY <1>7 DEF AddHint
<1>8. UNCHANGED <<flowRows, lastId>> => UpsertsRow
  BY DEF UpsertsRow
<1> QED BY <1>1, <1>2, <1>3, <1>4, <1>5, <1>6, <1>7, <1>8 DEF LearnNext

LEMMA RowsStep ==
    ASSUME RowsInv, LearnNext \/ UNCHANGED learnVars
    PROVE  RowsInv' /\ RowsKept
<1>1. UNCHANGED <<flowRows, lastId>> => RowsInv' /\ RowsKept
  BY DEF RowsInv, RowsKept, IsRow
<1>2. UpsertsRow => RowsInv' /\ RowsKept
  BY <1>1, RowsUpserted DEF UpsertsRow
<1>3. RemovesRow => RowsInv' /\ RowsKept
  BY RowsRemoved DEF RemovesRow
<1>4. DecidesRow => RowsInv' /\ RowsKept
  BY RowDecided DEF DecidesRow
<1> QED BY <1>2, <1>3, <1>4, RowSteps

LEMMA RulingsStep ==
    ASSUME RowsInv, RulingsInv, LearnNext \/ UNCHANGED learnVars
    PROVE  RulingsInv'
<1>1. rulings \in Nat /\ lastId \in Nat /\ lastId' \in Nat /\ lastId <= lastId'
  BY RowsStep DEF RulingsInv, RowsInv, RowsKept
<1>2. ASSUME DecidesRow, unlearned' = unlearned PROVE RulingsInv'
  <2>1. PICK id \in DOMAIN flowRows, state \in {"allowed", "denied"} :
            /\ flowRows' = [flowRows EXCEPT ![id].state = state] /\ lastId' = lastId
            /\ ruled' = [i \in DOMAIN ruled \cup {id} |->
                           IF i = id THEN [state |-> state, no |-> rulings + 1] ELSE ruled[i]]
            /\ rulings' = rulings + 1
    BY <1>2 DEF DecidesRow
  <2>2. id \in 1..lastId
    BY DEF RowsInv
  <2>3. DOMAIN ruled' = DOMAIN ruled \cup {id} /\ DOMAIN ruled' \subseteq 1..lastId'
    BY <2>1, <2>2 DEF RulingsInv
  <2>4. ruled'[id] = [state |-> state, no |-> rulings + 1]
    BY <2>1
  <2>5. \A i \in DOMAIN ruled : i # id => ruled'[i] = ruled[i]
    BY <2>1
  <2>6. Rulings \subseteq Rulings' /\ [state |-> state, no |-> rulings + 1] \in Rulings'
    BY <1>1, <2>1 DEF Rulings
  <2>7. \A i \in DOMAIN ruled' : ruled'[i] \in Rulings'
    BY <2>3, <2>4, <2>5, <2>6 DEF RulingsInv
  <2>8. DecisionsKept'
    <3>1. DOMAIN flowRows' = DOMAIN flowRows /\ \A i \in DOMAIN flowRows : i # id => flowRows'[i] = flowRows[i]
      BY <2>1
    <3>2. flowRows'[id].state = ruled'[id].state
      BY <2>1, <2>4, RowDecided
    <3> QED BY <1>2, <2>3, <2>5, <3>1, <3>2 DEF RulingsInv, DecisionsKept
  <2>9. rulings' \in Nat
    BY <1>1, <2>1
  <2> QED BY <2>3, <2>7, <2>8, <2>9 DEF RulingsInv
<1>3. ASSUME ruled' = ruled, rulings' = rulings, unlearned \subseteq unlearned', UpsertsRow \/ RemovesRow
      PROVE  RulingsInv'
  <2>1. \A id \in DOMAIN ruled : id \in 1..lastId /\ id \in 1..lastId'
    BY <1>1 DEF RulingsInv
  <2>2. \A id \in DOMAIN ruled : ruled'[id] \in Rulings'
    BY <1>3 DEF RulingsInv, Rulings
  <2>3. CASE RemovesRow
    <3>1. PICK id \in DOMAIN flowRows : Removed(id) /\ (FlowExpired(id) \/ id \in unlearned')
      BY <2>3 DEF RemovesRow
    <3>2. id \in DOMAIN ruled => ~FlowExpired(id)
      BY DEF RulingsInv, DecisionsKept, FlowExpired, Rulings
    <3>3. DOMAIN flowRows' = DOMAIN flowRows \ {id} /\ \A i \in DOMAIN flowRows' : flowRows'[i] = flowRows[i]
      BY <3>1 DEF Removed
    <3>4. DecisionsKept'
      BY <1>3, <3>1, <3>2, <3>3 DEF RulingsInv, DecisionsKept
    <3> QED BY <1>1, <1>3, <2>1, <2>2, <3>4 DEF RulingsInv
  <2>4. CASE UpsertsRow
    <3>1. \A i \in DOMAIN flowRows : i \in DOMAIN flowRows' /\ flowRows'[i] = flowRows[i]
      BY <2>4 DEF UpsertsRow, UpsertFlow, NewId, RowsInv
    <3>2. \A i \in DOMAIN flowRows' : i <= lastId => i \in DOMAIN flowRows
      BY RowsStep DEF RowsKept
    <3>3. DecisionsKept'
      BY <1>3, <2>1, <3>1, <3>2 DEF RulingsInv, DecisionsKept
    <3> QED BY <1>1, <1>3, <2>1, <2>2, <3>3 DEF RulingsInv
  <2> QED BY <1>3, <2>3, <2>4
<1> QED BY <1>2, <1>3, RowSteps

-----------------------------------------------------------------------------
\* The decision about a key is that of its only row.
LEMMA RulingIs ==
    ASSUME RowsInv, NEW key, NEW id \in FlowRow(key) \cap DOMAIN ruled
    PROVE  RulingOf(key) = ruled[id]
<1>1. \A i \in FlowRow(key) : i = id
  BY DEF RowsInv, FlowRow
<1> QED BY <1>1 DEF RulingOf

LEMMA RulingFrom ==
    ASSUME NEW key, RulingOf(key) # NoRuling
    PROVE  \E id \in FlowRow(key) \cap DOMAIN ruled : RulingOf(key) = ruled[id]
BY DEF RulingOf

\* A decision that stands after a step stood before it, unless it is new.
LEMMA RulingStood ==
    ASSUME RowsInv, RulingsInv, LearnNext \/ UNCHANGED learnVars,
           NEW key, NEW r \in Rulings, (RulingOf(key))' = r
    PROVE  RulingOf(key) = r
<1>1. r # NoRuling /\ r.no <= rulings /\ rulings \in Nat
  BY DEF Rulings, NoRuling, RulingsInv
<1>2. PICK id \in (FlowRow(key))' \cap DOMAIN ruled' : ruled'[id] = r
  BY <1>1 DEF RulingOf
<1>3. id \in DOMAIN ruled /\ ruled[id] = r
  <2>1. CASE DecidesRow
    BY <1>1, <1>2, <2>1 DEF DecidesRow
  <2>2. CASE ruled' = ruled
    BY <1>2, <2>2
  <2> QED BY <2>1, <2>2, RowSteps
<1>4. id \in DOMAIN flowRows' /\ flowRows'[id].key = key
  BY <1>2 DEF FlowRow
<1>5. id <= lastId
  BY <1>3 DEF RulingsInv, RowsInv
<1>6. id \in FlowRow(key)
  BY <1>4, <1>5, RowsStep DEF RowsKept, FlowRow
<1> QED BY <1>3, <1>6, RulingIs

LEMMA FitsStep ==
    ASSUME RowsInv, LearnNext \/ UNCHANGED learnVars, NEW id, NEW key, Fits(id, key)
    PROVE  (Fits(id, key))'
<1>1. RowsKept /\ lastId \in Nat
  BY RowsStep DEF RowsInv
<1> QED BY <1>1 DEF Fits, RowsKept

LEMMA HintsStep ==
    ASSUME RowsInv, HintsInv, CallsInv, LearnNext \/ UNCHANGED learnVars
    PROVE  HintsInv'
<1>1. \A h \in domainHints' \cup enrich' : h \in domainHints \cup enrich \/ Fits(h.id, h.key)
  <2>1. ASSUME NEW p \in Learners, PutVerdict(p)
        PROVE  \A h \in domainHints' \cup enrich' : h \in domainHints \cup enrich \/ Fits(h.id, h.key)
    <3>1. Fits(learner[p].id, learner[p].key)
      BY <2>1 DEF PutVerdict, CallsInv, CallInv
    <3>2. domainHints' = domainHints /\ enrich' \subseteq enrich \cup {HintFor(learner[p])}
      BY <2>1 DEF PutVerdict
    <3>3. HintFor(learner[p]).id = learner[p].id /\ HintFor(learner[p]).key = learner[p].key
      BY DEF HintFor
    <3> QED BY <3>1, <3>2, <3>3
  <2>2. ASSUME NEW h \in enrich, AddHint(h)
        PROVE  domainHints' \cup enrich' \subseteq domainHints \cup enrich
    BY <2>2 DEF AddHint
  <2>3. ASSUME UNCHANGED <<domainHints, enrich>>
        PROVE  domainHints' \cup enrich' \subseteq domainHints \cup enrich
    BY <2>3
  <2>4. \A p \in Learners : FindFlow(p) \/ SaveFlow(p) \/ NotifyFlow(p) => UNCHANGED <<domainHints, enrich>>
    BY Zenon DEF FindFlow, SaveFlow, NotifyFlow
  <2>5. \A id \in DOMAIN flowRows :
          CleanupFlow(id) \/ DeleteRule(id) \/ DecideRule(id, "allowed") \/ DecideRule(id, "denied") =>
              UNCHANGED <<domainHints, enrich>>
    BY DEF CleanupFlow, DeleteRule, DecideRule
  <2>6. (\E pkt \in Packets : QueuePacket(pkt) \/ LogPacket(pkt)) \/ (\E e \in flushing : FlushOne(e)) =>
           UNCHANGED <<domainHints, enrich>>
    BY DEF QueuePacket, LogPacket, FlushOne
  <2>7. IngestPacket \/ FlushDirty \/ LearnTick \/ UNCHANGED learnVars => UNCHANGED <<domainHints, enrich>>
    BY DEF IngestPacket, FlushDirty, LearnTick, learnVars
  <2> QED BY <2>1, <2>2, <2>3, <2>4, <2>5, <2>6, <2>7 DEF LearnNext
<1>2. \A h \in domainHints' \cup enrich' : Fits(h.id, h.key)
  BY <1>1 DEF HintsInv
<1>3. \A id, key : Fits(id, key) => (Fits(id, key))'
  BY FitsStep
<1> QED BY <1>2, <1>3 DEF HintsInv, Fits

-----------------------------------------------------------------------------
LEMMA FollowsStep ==
    ASSUME RowsInv, RulingsInv, LearnNext \/ UNCHANGED learnVars,
           NEW q, q.fresh \in Rulings \cup {NoRuling}, FollowsDecision(q)
    PROVE  (FollowsDecision(q))'
<1>1. \A key : q.fresh # NoRuling /\ (RulingOf(key))' = q.fresh => RulingOf(key) = q.fresh
  BY RulingStood
<1> QED BY <1>1 DEF FollowsDecision

LEMMA RulingsGrow ==
    ASSUME RulingsInv, LearnNext \/ UNCHANGED learnVars
    PROVE  Rulings \subseteq Rulings'
<1>1. rulings \in Nat /\ rulings' \in {rulings, rulings + 1}
  BY RowSteps DEF RulingsInv, DecidesRow
<1> QED BY <1>1 DEF Rulings

LEMMA CallKept ==
    ASSUME RowsInv, RulingsInv, LearnNext \/ UNCHANGED learnVars, NEW q, CallInv(q)
    PROVE  (CallInv(q))'
<1>1. (FollowsDecision(q))'
  BY FollowsStep DEF CallInv
<1>2. q.fresh \in Rulings' \cup {NoRuling}
  BY RulingsGrow DEF CallInv
<1>3. Fits(q.id, q.key) => \A id \in {q.id}, key \in {q.key} : (Fits(id, key))'
  BY FitsStep
<1> QED BY <1>1, <1>2, <1>3 DEF CallInv, IsCall, Fits

\* A step of one call.
LEMMA CallsChange ==
    ASSUME RowsInv, RulingsInv, CallsInv, LearnNext \/ UNCHANGED learnVars, NEW p \in Learners, NEW q,
           learner' = [learner EXCEPT ![p] = q], (CallInv(q))', ingestChan' \in Seq(FlowKeys)
    PROVE  CallsInv'
<1>1. \A r \in Learners : r # p => learner'[r] = learner[r]
  OBVIOUS
<1>2. learner'[p] = q /\ learner' = [r \in Learners |-> learner'[r]]
  BY DEF CallsInv
<1>3. ASSUME NEW r \in Learners, r # p PROVE \A v \in {learner[r]} : (CallInv(v))'
  BY CallKept DEF CallsInv
<1>4. \A r \in Learners : r # p => (CallInv(learner[r]))'
  BY <1>1, <1>3
<1>5. (CallInv(learner[p]))'
  BY <1>2
<1> QED BY <1>2, <1>4, <1>5 DEF CallsInv

LEMMA RulingOfTypes == ASSUME RulingsInv, NEW key PROVE RulingOf(key) \in Rulings \cup {NoRuling}
<1>1. CASE FlowRow(key) \cap DOMAIN ruled = {}
  BY <1>1 DEF RulingOf
<1>2. CASE FlowRow(key) \cap DOMAIN ruled # {}
  BY <1>2 DEF RulingOf, RulingsInv
<1> QED BY <1>1, <1>2


LEMMA CallsMove ==
    ASSUME RowsInv, RulingsInv, CallsInv, LearnNext \/ UNCHANGED learnVars, NEW p \in Learners, ingestChan' \in Seq(FlowKeys),
           \E q : CallInv(q) /\ learner' = [learner EXCEPT ![p] = q]
    PROVE  CallsInv'
<1>1. PICK q : CallInv(q) /\ learner' = [learner EXCEPT ![p] = q]
  OBVIOUS
<1>2. (CallInv(q))'
  BY <1>1, CallKept
<1> QED BY <1>1, <1>2, CallsChange

LEMMA IdleIsCall == IsCall(IdleLearner)
BY DEF IsCall, IdleLearner

\* A call that begins: a hit is over, a miss remembers the decision.
LEMMA CallBegins ==
    ASSUME RowsInv, RulingsInv, CallsInv, LearnNext \/ UNCHANGED learnVars,
           NEW p \in Learners, NEW key \in FlowKeys, ProcessPacket(p, key), ingestChan' \in Seq(FlowKeys)
    PROVE  CallsInv'
<1>1. CASE CacheIndex(key) # {}
  <2>1. PICK id, verdict, q :
           /\ q = [IdleLearner EXCEPT !.at = "verdict", !.key = key, !.id = id, !.verdict = verdict]
           /\ learner' = [learner EXCEPT ![p] = q]
    BY <1>1 DEF ProcessPacket
  <2>2. q.at = "verdict" /\ q.fresh = NoRuling
    BY <2>1, IdleIsCall DEF IsCall, IdleLearner
  <2>3. IsCall(q)
    BY <2>1, IdleIsCall DEF IsCall
  <2>4. CallInv(q)
    BY <2>2, <2>3 DEF CallInv, FollowsDecision
  <2> QED BY <2>1, <2>4, CallsMove
<1>2. CASE CacheIndex(key) = {}
  <2>1. PICK r, q : /\ r = RulingOf(key) /\ q = [IdleLearner EXCEPT !.at = "find", !.key = key, !.fresh = r]
                    /\ learner' = [learner EXCEPT ![p] = q]
    BY <1>2 DEF ProcessPacket
  <2>2. q.at = "find" /\ q.key = key /\ q.fresh = r
    BY <2>1, IdleIsCall DEF IsCall
  <2>3. IsCall(q)
    BY <2>1, IdleIsCall DEF IsCall
  <2>4. CallInv(q)
    BY <2>1, <2>2, <2>3, RulingOfTypes DEF CallInv, FollowsDecision
  <2> QED BY <2>1, <2>4, CallsMove
<1> QED BY <1>1, <1>2

LEMMA FindFlowKeeps ==
    ASSUME RowsInv, RulingsInv, CallsInv, LearnNext, NEW p \in Learners, FindFlow(p)
    PROVE  CallsInv'
<1> DEFINE q == learner[p]
           id == IF FlowRow(q.key) = {} THEN 0 ELSE CHOOSE i \in FlowRow(q.key) : TRUE
           st == IF id # 0 THEN flowRows[id].state ELSE IF learnMode THEN "allowed" ELSE "pending"
<1>1. CallInv(q) /\ q.at = "find" /\ ingestChan' \in Seq(FlowKeys)
  BY DEF FindFlow, CallsInv
<1>2. CASE learner' = [learner EXCEPT ![p] = [IdleLearner EXCEPT !.at = "verdict", !.verdict = "error"]]
  <2>1. PICK failed : /\ failed = [IdleLearner EXCEPT !.at = "verdict", !.verdict = "error"]
                      /\ learner' = [learner EXCEPT ![p] = failed]
    BY <1>2
  <2>2. failed.at = "verdict" /\ failed.fresh = NoRuling
    BY <2>1, IdleIsCall DEF IsCall, IdleLearner
  <2>3. IsCall(failed)
    BY <2>1, IdleIsCall DEF IsCall
  <2>4. CallInv(failed)
    BY <2>2, <2>3 DEF CallInv, FollowsDecision
  <2> QED BY <1>1, <2>1, <2>4, CallsMove
<1>3. CASE learner' = [learner EXCEPT ![p] = [q EXCEPT !.at = "upsert", !.found = id, !.state = st]]
  <2>1. ASSUME RulingOf(q.key) = q.fresh, q.fresh # NoRuling
        PROVE  id # 0 /\ st = q.fresh.state
    <3>1. PICK i \in FlowRow(q.key) \cap DOMAIN ruled : q.fresh = ruled[i]
      BY <2>1, RulingFrom
    <3>2. \A j \in FlowRow(q.key) : j = i
      BY DEF RowsInv, FlowRow
    <3>3. id = i
      BY <3>1, <3>2
    <3>4. i \in 1..lastId /\ lastId \in Nat
      BY <3>1 DEF RulingsInv, RowsInv
    <3>5. i # 0
      BY <3>4
    <3>6. flowRows[i].state = ruled[i].state
      BY <3>1 DEF RulingsInv, DecisionsKept, FlowRow
    <3> QED BY <3>1, <3>3, <3>5, <3>6
  <2> HIDE DEF id, st
  <2>2. PICK call, i, state, found :
           /\ call = q /\ i = id /\ state = st /\ found = [call EXCEPT !.at = "upsert", !.found = i, !.state = state]
           /\ learner' = [learner EXCEPT ![p] = found]
    BY <1>3
  <2>3. IsCall(call)
    BY <1>1, <2>2 DEF CallInv
  <2>4. /\ found.at = "upsert" /\ found.key = call.key /\ found.fresh = call.fresh
        /\ found.found = i /\ found.state = state
    BY <2>2, <2>3 DEF IsCall
  <2>5. IsCall(found)
    BY <2>2, <2>3 DEF IsCall
  <2>6. CallInv(found)
    BY <1>1, <2>1, <2>2, <2>4, <2>5 DEF CallInv, FollowsDecision
  <2> QED BY <1>1, <2>2, <2>6, CallsMove
<1>4. \/ learner' = [learner EXCEPT ![p] = [IdleLearner EXCEPT !.at = "verdict", !.verdict = "error"]]
      \/ learner' = [learner EXCEPT ![p] = [q EXCEPT !.at = "upsert", !.found = id, !.state = st]]
  BY Zenon DEF FindFlow
<1> QED BY <1>2, <1>3, <1>4

LEMMA SaveFlowKeeps ==
    ASSUME RowsInv, RulingsInv, CallsInv, LearnNext, NEW p \in Learners, SaveFlow(p)
    PROVE  CallsInv'
<1>1. PICK q, id : q = learner[p] /\ id = FlowRowId(q.key)
  OBVIOUS
<1>2. CallInv(q) /\ q.at = "upsert" /\ UpsertFlow(q.key, q.state) /\ ingestChan' \in Seq(FlowKeys)
  BY <1>1 DEF SaveFlow, CallsInv
<1>3. PICK saved : saved = [q EXCEPT !.at = "put", !.id = id] /\ learner' = [learner EXCEPT ![p] = saved]
  BY <1>1, Zenon DEF SaveFlow
<1>4. /\ saved.at = "put" /\ saved.key = q.key /\ saved.fresh = q.fresh /\ saved.found = q.found
      /\ saved.state = q.state /\ saved.id = id
  BY <1>2, <1>3 DEF CallInv, IsCall
<1>5. IsCall(saved)
  BY <1>2, <1>3 DEF CallInv, IsCall
<1>6. (Fits(id, q.key))'
  <2>0. lastId \in Nat /\ DOMAIN flowRows \subseteq 1..lastId
    BY DEF RowsInv
  <2>1. CASE FlowRow(q.key) # {}
    <3>1. id \in FlowRow(q.key) /\ flowRows' = flowRows /\ lastId' = lastId
      BY <1>1, <1>2, <2>1 DEF FlowRowId, UpsertFlow
    <3> QED BY <2>0, <3>1 DEF Fits, FlowRow
  <2>2. CASE FlowRow(q.key) = {}
    <3>1. id = lastId + 1 /\ lastId' = lastId + 1 /\ flowRows'[lastId + 1] = [key |-> q.key, state |-> q.state]
      BY <1>1, <1>2, <2>2 DEF FlowRowId, UpsertFlow, NewId
    <3> QED BY <2>0, <3>1 DEF Fits
  <2> QED BY <2>1, <2>2
<1>7. FollowsDecision(saved) /\ saved.fresh \in Rulings \cup {NoRuling}
  BY <1>2, <1>4 DEF CallInv, FollowsDecision
<1>8. (FollowsDecision(saved))'
  BY <1>7, FollowsStep
<1>9. (CallInv(saved))'
  BY <1>2, <1>4, <1>5, <1>6, <1>7, <1>8, RulingsGrow DEF CallInv, IsCall, Fits
<1> QED BY <1>2, <1>3, <1>9, CallsChange

LEMMA PutVerdictKeeps ==
    ASSUME RowsInv, RulingsInv, CallsInv, LearnNext, NEW p \in Learners, PutVerdict(p)
    PROVE  CallsInv'
<1> DEFINE q == learner[p]
           accept == IF q.found = 0 THEN learnMode ELSE VerdictOf(q.state)
           at == IF q.found = 0 /\ ~learnMode THEN "notify" ELSE "verdict"
           verdict == IF accept THEN "accept" ELSE "drop"
<1>1. CallInv(q) /\ q.at = "put" /\ ingestChan' \in Seq(FlowKeys)
  BY DEF PutVerdict, CallsInv
<1>2. learner' = [learner EXCEPT ![p] = [q EXCEPT !.at = at, !.verdict = verdict]]
  BY DEF PutVerdict
<1>3. ASSUME RulingOf(q.key) = q.fresh, q.fresh # NoRuling
      PROVE  verdict = IF q.fresh.state = "allowed" THEN "accept" ELSE "drop"
  <2>1. q.found # 0 /\ q.state = q.fresh.state /\ q.fresh \in Rulings
    BY <1>1, <1>3 DEF CallInv, FollowsDecision
  <2>2. q.state \in {"allowed", "denied"}
    BY <2>1 DEF Rulings
  <2> QED BY <2>1, <2>2 DEF VerdictOf
<1>4. at \in {"notify", "verdict"}
  OBVIOUS
<1> HIDE DEF at, verdict
<1>5. PICK call, a, v, next : /\ call = q /\ a = at /\ v = verdict /\ next = [call EXCEPT !.at = a, !.verdict = v]
                              /\ learner' = [learner EXCEPT ![p] = next]
  BY <1>2
<1>6. IsCall(call)
  BY <1>1, <1>5 DEF CallInv
<1>7. next.at = a /\ next.key = call.key /\ next.fresh = call.fresh /\ next.verdict = v
  BY <1>5, <1>6 DEF IsCall
<1>8. IsCall(next)
  BY <1>5, <1>6 DEF IsCall
<1>9. CallInv(next)
  BY <1>1, <1>3, <1>4, <1>5, <1>7, <1>8 DEF CallInv, FollowsDecision
<1> QED BY <1>1, <1>5, <1>9, CallsMove

LEMMA NotifyFlowKeeps ==
    ASSUME RowsInv, RulingsInv, CallsInv, LearnNext, NEW p \in Learners, NotifyFlow(p)
    PROVE  CallsInv'
<1> DEFINE q == learner[p]
           told == [q EXCEPT !.at = "verdict"]
<1>1. CallInv(q) /\ q.at = "notify" /\ ingestChan' \in Seq(FlowKeys)
  BY DEF NotifyFlow, CallsInv
<1>2. learner' = [learner EXCEPT ![p] = told]
  BY DEF NotifyFlow
<1>3. CallInv(told)
  <2>1. /\ told.at = "verdict" /\ told.key = q.key /\ told.fresh = q.fresh /\ told.verdict = q.verdict
        /\ IsCall(told)
    BY <1>1 DEF CallInv, IsCall
  <2> HIDE DEF told
  <2> QED BY <1>1, <2>1 DEF CallInv, FollowsDecision
<1> HIDE DEF told
<1> QED BY <1>1, <1>2, <1>3, CallsMove

LEMMA CallsStep ==
    ASSUME RowsInv, RulingsInv, CallsInv, LearnNext \/ UNCHANGED learnVars
    PROVE  CallsInv'
<1>0. ingestChan \in Seq(FlowKeys)
  BY DEF CallsInv
<1>1. ASSUME learner' = learner, ingestChan' \in Seq(FlowKeys) PROVE CallsInv'
  <2>1. \A v : CallInv(v) => (CallInv(v))'
    BY CallKept
  <2>2. ASSUME NEW p \in Learners PROVE (CallInv(learner[p]))'
    <3>1. \A v \in {learner[p]} : (CallInv(v))'
      BY <2>1 DEF CallsInv
    <3> QED BY <1>1, <3>1
  <2> QED BY <1>1, <2>2 DEF CallsInv
<1>2. ASSUME NEW pkt \in Packets, QueuePacket(pkt) PROVE CallsInv'
  BY <1>0, <1>2, CallBegins DEF QueuePacket, FlowKeys, Learners
<1>3. ASSUME NEW pkt \in Packets, LogPacket(pkt) PROVE CallsInv'
  <2>1. PICK s \in {<<BridgeKey(pkt)>>, <<QueueKey(pkt)>>, <<QueueKey(pkt), BridgeKey(pkt)>>} :
            ingestChan' = ingestChan \o s /\ learner' = learner
    BY <1>3 DEF LogPacket
  <2>2. BridgeKey(pkt) \in FlowKeys /\ QueueKey(pkt) \in FlowKeys
    BY DEF FlowKeys
  <2>3. s \in Seq(FlowKeys)
    <3>1. \A a, b \in FlowKeys : <<a>> \in Seq(FlowKeys) /\ <<a, b>> \in Seq(FlowKeys)
      OBVIOUS
    <3> QED BY <2>2, <3>1
  <2>4. ingestChan' \in Seq(FlowKeys)
    BY <1>0, <2>1, <2>3
  <2> QED BY <1>1, <2>1, <2>4
<1>4. CASE IngestPacket
  <2>1. Head(ingestChan) \in FlowKeys /\ Tail(ingestChan) \in Seq(FlowKeys)
    BY <1>0, <1>4 DEF IngestPacket
  <2> QED BY <1>4, <2>1, CallBegins DEF IngestPacket, Learners
<1>5. ASSUME NEW p \in Learners, FindFlow(p) \/ SaveFlow(p) \/ PutVerdict(p) \/ NotifyFlow(p) PROVE CallsInv'
  BY <1>5, FindFlowKeeps, SaveFlowKeeps, PutVerdictKeeps, NotifyFlowKeeps DEF LearnNext
<1>6. ASSUME NEW id \in DOMAIN flowRows,
             CleanupFlow(id) \/ DeleteRule(id) \/ DecideRule(id, "allowed") \/ DecideRule(id, "denied")
      PROVE  CallsInv'
  BY <1>0, <1>1, <1>6 DEF CleanupFlow, DeleteRule, DecideRule
<1>7. ASSUME (\E h \in enrich : AddHint(h)) \/ (\E e \in flushing : FlushOne(e)) PROVE CallsInv'
  BY <1>0, <1>1, <1>7 DEF AddHint, FlushOne
<1>8. ASSUME FlushDirty \/ LearnTick \/ UNCHANGED learnVars PROVE CallsInv'
  BY <1>0, <1>1, <1>8 DEF FlushDirty, LearnTick, learnVars
<1> QED BY <1>2, <1>3, <1>4, <1>5, <1>6, <1>7, <1>8 DEF LearnNext

-----------------------------------------------------------------------------
LEMMA NotifyFlowNotices ==
    ASSUME NoticesInv, CallsInv, NEW p \in Learners, NotifyFlow(p)
    PROVE  NoticesInv'
<1> DEFINE mac == learner[p].key[1]
           s == Scanned(mac, learner[p].key[3])
           tell == /\ Cardinality(s.ports) < ScanPorts
                   /\ s.last = NoTime \/ learnNow - s.last >= NotifyEvery
<1>1. mac \in Sources
  BY DEF NotifyFlow, CallsInv, CallInv, Sources
<1>2. learnNow \in Nat /\ NotifyEvery \in Nat /\ learnNow' = learnNow
  BY LearnAssumption DEF NoticesInv, NotifyFlow
<1>3. PICK t : t = s
  OBVIOUS
<1>4. t.last = IF mac \in DOMAIN scan THEN scan[mac].last ELSE NoTime
  <2>1. CASE mac \notin DOMAIN scan
    BY <1>3, <2>1 DEF Scanned
  <2>2. CASE mac \in DOMAIN scan /\ learnNow - scan[mac].since > ScanWindow
    BY <1>3, <2>2 DEF Scanned
  <2>3. CASE mac \in DOMAIN scan /\ ~(learnNow - scan[mac].since > ScanWindow)
    <3>1. PICK u, port : u = scan[mac] /\ t = [u EXCEPT !.ports = @ \cup {port}]
      BY <1>3, <2>3, Zenon DEF Scanned
    <3>2. u = [ports |-> u.ports, since |-> u.since, last |-> u.last]
      BY <2>3, <3>1 DEF NoticesInv
    <3> QED BY <2>3, <3>1, <3>2
  <2> QED BY <2>1, <2>2, <2>3
<1>5. t = [ports |-> t.ports, since |-> t.since, last |-> t.last]
  <2>1. CASE mac \notin DOMAIN scan
    BY <1>3, <2>1 DEF Scanned
  <2>2. CASE mac \in DOMAIN scan /\ learnNow - scan[mac].since > ScanWindow
    BY <1>3, <2>2, Zenon DEF Scanned
  <2>3. CASE mac \in DOMAIN scan /\ ~(learnNow - scan[mac].since > ScanWindow)
    <3>1. PICK u, port : u = scan[mac] /\ t = [u EXCEPT !.ports = @ \cup {port}]
      BY <1>3, <2>3 DEF Scanned
    <3>2. u = [ports |-> u.ports, since |-> u.since, last |-> u.last]
      BY <2>3, <3>1 DEF NoticesInv
    <3> QED BY <3>1, <3>2
  <2> QED BY <2>1, <2>2, <2>3
<1>6. t.last \in Nat \cup {NoTime}
  BY <1>4 DEF NoticesInv
<1>7. PICK n : /\ n = IF tell THEN Notified(t) ELSE t
               /\ scan' = [m \in DOMAIN scan \cup {mac} |-> IF m = mac THEN n ELSE scan[m]]
  BY <1>3 DEF NotifyFlow
<1>8. n = [ports |-> n.ports, since |-> n.since, last |-> n.last]
  BY <1>5, <1>7 DEF Notified
<1>9. n.last = IF tell THEN learnNow ELSE t.last
  BY <1>5, <1>7 DEF Notified
<1>10. tell => t.last = NoTime \/ learnNow - t.last >= NotifyEvery
  BY <1>3
<1>11. notices' = IF tell THEN Append(notices, <<mac, learnNow>>) ELSE notices
  BY DEF NotifyFlow
<1> HIDE DEF s, tell, mac
<1>12. notices \in Seq(Sources \X Nat) /\ \A i \in DOMAIN notices : notices[i][2] \in Nat
  BY DEF NoticesInv
<1>13. /\ DOMAIN scan' = DOMAIN scan \cup {mac} /\ scan'[mac] = n
       /\ \A m \in DOMAIN scan : m # mac => scan'[m] = scan[m]
  BY <1>7
<1>14. \A m \in DOMAIN scan' :
         /\ scan'[m] = [ports |-> scan'[m].ports, since |-> scan'[m].since, last |-> scan'[m].last]
         /\ scan'[m].last \in Nat \cup {NoTime}
  BY <1>2, <1>6, <1>8, <1>9, <1>13 DEF NoticesInv
\* What earlier notifications say of the source of this one.
<1>15. \A i \in DOMAIN notices :
         notices[i][1] = mac => t.last \in Nat /\ notices[i][2] <= t.last /\ t.last # NoTime
  BY <1>4 DEF NoticesInv, NoTime
<1>16. \A i \in DOMAIN notices :
         /\ notices[i][2] <= learnNow
         /\ notices[i][1] \in DOMAIN scan'
         /\ scan'[notices[i][1]].last \in Nat /\ notices[i][2] <= scan'[notices[i][1]].last
  BY <1>2, <1>9, <1>13, <1>15 DEF NoticesInv
<1>17. CASE ~tell
  <2>1. notices' = notices
    BY <1>11, <1>17
  <2> QED BY <1>2, <1>12, <1>14, <1>16, <2>1 DEF NoticesInv, NotifyRate
<1>18. CASE tell
  <2>1. <<mac, learnNow>> \in Sources \X Nat
    BY <1>1, <1>2 DEF mac
  <2>2. notices' \in Seq(Sources \X Nat) /\ Len(notices') = Len(notices) + 1
    BY <1>11, <1>12, <1>18, <2>1
  <2>3. Len(notices) \in Nat /\ DOMAIN notices = 1..Len(notices) /\ DOMAIN notices' = 1..Len(notices')
    BY <1>12, <2>2
  <2>4. /\ \A i \in DOMAIN notices : notices'[i] = notices[i]
        /\ notices'[Len(notices) + 1] = <<mac, learnNow>>
    BY <1>11, <1>12, <1>18, <2>1
  <2>5. DOMAIN notices' = DOMAIN notices \cup {Len(notices) + 1}
    BY <2>2, <2>3
  <2>6. \A i \in DOMAIN notices' :
         /\ notices'[i][2] <= learnNow
         /\ notices'[i][1] \in DOMAIN scan'
         /\ scan'[notices'[i][1]].last \in Nat /\ notices'[i][2] <= scan'[notices'[i][1]].last
    BY <1>2, <1>9, <1>13, <1>16, <1>18, <2>4, <2>5
  <2>7. ASSUME NEW i \in DOMAIN notices', NEW j \in DOMAIN notices', i < j, notices'[i][1] = notices'[j][1]
        PROVE  notices'[j][2] - notices'[i][2] >= NotifyEvery
    <3>1. i \in DOMAIN notices
      BY <2>2, <2>3, <2>7
    <3>2. CASE j \in DOMAIN notices
      BY <2>4, <2>7, <3>1, <3>2 DEF NoticesInv, NotifyRate
    <3>3. CASE j = Len(notices) + 1
      <4>1. notices[i][1] = mac /\ notices'[i][2] = notices[i][2] /\ notices'[j][2] = learnNow
        BY <2>4, <2>7, <3>1, <3>3
      <4>2. t.last \in Nat /\ notices[i][2] <= t.last /\ learnNow - t.last >= NotifyEvery
        BY <1>10, <1>15, <1>18, <3>1, <4>1
      <4>3. notices[i][2] \in Nat
        BY <1>12, <3>1
      <4> QED BY <1>2, <4>1, <4>2, <4>3
    <3> QED BY <2>5, <3>2, <3>3
  <2> QED BY <1>2, <1>14, <2>2, <2>6, <2>7 DEF NoticesInv, NotifyRate
<1> QED BY <1>17, <1>18

LEMMA NoticesStep ==
    ASSUME NoticesInv, CallsInv, LearnNext \/ UNCHANGED learnVars
    PROVE  NoticesInv'
<1>1. ASSUME UNCHANGED <<scan, notices>>, learnNow' \in {learnNow, learnNow + 1} PROVE NoticesInv'
  <2>1. learnNow' \in Nat /\ learnNow <= learnNow' /\ learnNow \in Nat
    BY <1>1 DEF NoticesInv
  <2>2. \A i \in DOMAIN notices : notices[i][2] \in Nat
    BY DEF NoticesInv
  <2> QED BY <1>1, <2>1, <2>2 DEF NoticesInv, NotifyRate
<1>2. \A p \in Learners : FindFlow(p) \/ SaveFlow(p) \/ PutVerdict(p) => UNCHANGED <<scan, notices, learnNow>>
  BY Zenon DEF FindFlow, SaveFlow, PutVerdict
<1>3. \A id \in DOMAIN flowRows :
        CleanupFlow(id) \/ DeleteRule(id) \/ DecideRule(id, "allowed") \/ DecideRule(id, "denied") =>
            UNCHANGED <<scan, notices, learnNow>>
  BY DEF CleanupFlow, DeleteRule, DecideRule
<1>4. (\E pkt \in Packets : QueuePacket(pkt) \/ LogPacket(pkt)) \/ (\E e \in flushing : FlushOne(e))
      \/ (\E h \in enrich : AddHint(h)) => UNCHANGED <<scan, notices, learnNow>>
  BY DEF QueuePacket, LogPacket, FlushOne, AddHint
<1>5. IngestPacket \/ FlushDirty \/ UNCHANGED learnVars => UNCHANGED <<scan, notices, learnNow>>
  BY DEF IngestPacket, FlushDirty, learnVars
<1>6. LearnTick => UNCHANGED <<scan, notices>> /\ learnNow' = learnNow + 1
  BY DEF LearnTick
<1> QED BY <1>1, <1>2, <1>3, <1>4, <1>5, <1>6, NotifyFlowNotices DEF LearnNext

-----------------------------------------------------------------------------
LEMMA LearnInvStep == ASSUME LearnInv, LearnNext \/ UNCHANGED learnVars PROVE LearnInv'
BY RowsStep, RulingsStep, HintsStep, CallsStep, NoticesStep DEF LearnInv

LEMMA LearnInitHolds == ASSUME LearnInit PROVE LearnInv
<1>1. RowsInv
  BY DEF LearnInit, RowsInv
<1>2. RulingsInv
  BY DEF LearnInit, RulingsInv, DecisionsKept
<1>3. HintsInv
  BY DEF LearnInit, HintsInv
<1>4. CallsInv
  <2>1. \A p \in Learners : learner[p] = IdleLearner
    BY DEF LearnInit
  <2>2. CallInv(IdleLearner)
    <3>1. IdleLearner.at = "idle" /\ IdleLearner.fresh = NoRuling
      BY DEF IdleLearner
    <3> QED BY <3>1, IdleIsCall DEF CallInv, FollowsDecision
  <2> QED BY <2>1, <2>2 DEF LearnInit, CallsInv
<1>5. NoticesInv
  BY DEF LearnInit, NoticesInv, NotifyRate
<1> QED BY <1>1, <1>2, <1>3, <1>4, <1>5 DEF LearnInv

LEMMA LearnInvSuffices == LearnInv => DecisionsKept /\ MissFollowsDecision /\ HintsBelong /\ NotifyRate
<1> SUFFICES ASSUME LearnInv PROVE DecisionsKept /\ MissFollowsDecision /\ HintsBelong /\ NotifyRate
  OBVIOUS
<1>1. MissFollowsDecision
  BY DEF LearnInv, CallsInv, CallInv, FollowsDecision, MissFollowsDecision
<1>2. HintsBelong
  BY DEF LearnInv, HintsInv, Fits, HintsBelong
<1> QED BY <1>1, <1>2 DEF LearnInv, RulingsInv, NoticesInv

-----------------------------------------------------------------------------
(* The flow database                                                       *)

\* Everything that says which flow a number was given to: rows, hints, the
\* list shown, an annotation under way, the snapshot and the partner.
FdNamed(table) == {[no |-> n, fp |-> table[n]] : n \in DOMAIN table}
FdRowNames == FdNamed([n \in DOMAIN fdRows |-> fdRows[n].fp])
FdNumbers ==
    UNION {FdRowNames, FdNamed(fdShown), fdHints, FdNamed(fdExport.rows), FdNamed(fdPeer.rows),
           fdPeer.hints, {fdPeek} \ {FdNoPeek}}

\* A number is given to one flow, for ever.
FdOneFlow(refs, last) ==
    /\ refs \subseteq [no : 1..last, fp : Fingerprints]
    /\ \A a, b \in refs : a.no = b.no => a.fp = b.fp

FdStates == {"pending", "allowed", "denied"}
FdRowSet == [fp : Fingerprints, state : FdStates, last : Nat, scrutiny : BOOLEAN]

FdRowsFine(table) ==
    /\ table = [n \in DOMAIN table |-> table[n]]
    /\ \A n \in DOMAIN table : table[n] \in FdRowSet
    /\ \A m, n \in DOMAIN table : table[m].fp = table[n].fp => m = n

\* What the operator said last is the state of the row, and of the flow
\* without a row that it is pending.
FdObeyed(table, told) ==
    /\ told \in [Fingerprints -> FdStates]
    /\ \A n \in DOMAIN table : table[n].state = told[table[n].fp]
    /\ \A f \in Fingerprints : told[f] = "pending" \/ \E n \in DOMAIN table : table[n].fp = f

FdInv ==
    /\ fdSeq \in Nat /\ fdDay \in Nat
    /\ FdRowsFine(fdRows) /\ FdObeyed(fdRows, fdTold)
    /\ FdOneFlow(FdNumbers, fdSeq)

LEMMA OneFlowFewer ==
    ASSUME NEW R, NEW S, NEW last, FdOneFlow(R, last), S \subseteq R
    PROVE  FdOneFlow(S, last)
BY DEF FdOneFlow

LEMMA OneFlowMore ==
    ASSUME NEW R, NEW S, NEW last \in Nat, NEW f \in Fingerprints, FdOneFlow(R, last),
           S \subseteq R \cup {[no |-> last + 1, fp |-> f]}
    PROVE  FdOneFlow(S, last + 1)
<1>1. R \subseteq [no : 1..last + 1, fp : Fingerprints] /\ \A r \in R : r.no # last + 1
  BY DEF FdOneFlow
<1>2. [no |-> last + 1, fp |-> f] \in [no : 1..last + 1, fp : Fingerprints]
  OBVIOUS
<1> QED BY <1>1, <1>2 DEF FdOneFlow

LEMMA RowNames ==
    /\ \A n \in DOMAIN fdRows : [no |-> n, fp |-> fdRows[n].fp] \in FdNumbers
    /\ \A n \in DOMAIN fdShown : [no |-> n, fp |-> fdShown[n]] \in FdNumbers
<1>1. \A n \in DOMAIN fdRows : [no |-> n, fp |-> fdRows[n].fp] \in FdRowNames
  BY DEF FdNamed, FdRowNames
<1>2. \A n \in DOMAIN fdShown : [no |-> n, fp |-> fdShown[n]] \in FdNamed(fdShown)
  BY DEF FdNamed
<1> QED BY <1>1, <1>2 DEF FdNumbers

LEMMA OneFlowElements ==
    ASSUME NEW R, NEW last, FdOneFlow(R, last), NEW n, NEW f, [no |-> n, fp |-> f] \in R
    PROVE  /\ n \in 1..last /\ f \in Fingerprints
           /\ \A g : [no |-> n, fp |-> g] \in R => f = g
<1>1. [no |-> n, fp |-> f] \in [no : 1..last, fp : Fingerprints]
  BY DEF FdOneFlow
<1>2. n \in 1..last /\ f \in Fingerprints
  BY <1>1
<1>3. ASSUME NEW g, [no |-> n, fp |-> g] \in R PROVE f = g
  <2>1. [no |-> n, fp |-> f].no = [no |-> n, fp |-> g].no
    OBVIOUS
  <2>2. [no |-> n, fp |-> f].fp = [no |-> n, fp |-> g].fp
    BY <1>3, <2>1 DEF FdOneFlow
  <2> QED BY <2>2
<1> QED BY <1>2, <1>3

LEMMA NumbersOfRows == ASSUME FdInv PROVE DOMAIN fdRows \subseteq 1..fdSeq
<1>1. FdOneFlow(FdNumbers, fdSeq)
  BY DEF FdInv
<1>2. ASSUME NEW n \in DOMAIN fdRows PROVE n \in 1..fdSeq
  <2>1. [no |-> n, fp |-> fdRows[n].fp] \in FdNumbers
    BY RowNames
  <2> QED BY <1>1, <2>1, OneFlowElements
<1> QED BY <1>2

\* The list that was shown may be old, but its numbers mean the same flows.
LEMMA ShownFlow ==
    ASSUME FdInv, NEW n \in DOMAIN fdShown
    PROVE  /\ fdShown[n] \in Fingerprints
           /\ n \in DOMAIN fdRows => fdRows[n].fp = fdShown[n]
<1>1. FdOneFlow(FdNumbers, fdSeq) /\ [no |-> n, fp |-> fdShown[n]] \in FdNumbers
  BY RowNames DEF FdInv
<1>2. n \in DOMAIN fdRows => [no |-> n, fp |-> fdRows[n].fp] \in FdNumbers
  BY RowNames
<1> QED BY <1>1, <1>2, OneFlowElements

\* Rows that keep their flows, or go, bring no new name.
LEMMA RowNamesStep ==
    ASSUME DOMAIN fdRows' \subseteq DOMAIN fdRows, \A n \in DOMAIN fdRows' : fdRows'[n].fp = fdRows[n].fp
    PROVE  FdRowNames' \subseteq FdRowNames
BY DEF FdRowNames, FdNamed

LEMMA RowsOnly ==
    ASSUME FdInv, UNCHANGED <<fdSeq, fdHints, fdShown, fdPeek, fdExport, fdPeer, fdDay>>,
           DOMAIN fdRows' \subseteq DOMAIN fdRows, \A n \in DOMAIN fdRows' : fdRows'[n].fp = fdRows[n].fp,
           FdRowsFine(fdRows'), FdObeyed(fdRows', fdTold')
    PROVE  FdInv'
<1>1. FdNumbers' \subseteq FdNumbers
  BY RowNamesStep DEF FdNumbers
<1>2. FdOneFlow(FdNumbers', fdSeq')
  BY <1>1, OneFlowFewer DEF FdInv
<1> QED BY <1>2 DEF FdInv

LEMMA NamesOnly ==
    ASSUME FdInv, UNCHANGED <<fdRows, fdTold, fdSeq>>, fdDay' \in {fdDay, fdDay + 1}, FdNumbers' \subseteq FdNumbers
    PROVE  FdInv'
<1>1. FdOneFlow(FdNumbers', fdSeq')
  BY OneFlowFewer DEF FdInv
<1> QED BY <1>1 DEF FdInv

\* A row with another state, day or reminder.
LEMMA RowTouched ==
    ASSUME NEW table, NEW n \in DOMAIN table, NEW r \in FdRowSet, FdRowsFine(table), r.fp = table[n].fp
    PROVE  FdRowsFine([table EXCEPT ![n] = r])
<1> DEFINE new == [table EXCEPT ![n] = r]
<1>1. DOMAIN new = DOMAIN table /\ new = [m \in DOMAIN new |-> new[m]]
  BY DEF FdRowsFine
<1>2. \A m \in DOMAIN table : new[m] = (IF m = n THEN r ELSE table[m]) /\ new[m].fp = table[m].fp
  OBVIOUS
<1> HIDE DEF new
<1>3. FdRowsFine(new)
  BY <1>1, <1>2 DEF FdRowsFine
<1> QED BY <1>3 DEF new

-----------------------------------------------------------------------------
LEMMA UpsertKeeps ==
    ASSUME FdInv, NEW f \in Fingerprints, FdUpsert(f, "pending"), fdTold' = fdTold, fdDay' = fdDay,
           UNCHANGED <<fdHints, fdShown, fdExport, fdPeer>>,
           \/ fdPeek' = fdPeek
           \/ fdPeek' = [no |-> FdNumberOf(f), fp |-> f]
    PROVE  FdInv'
<1>0. fdSeq \in Nat /\ DOMAIN fdRows \subseteq 1..fdSeq
  BY NumbersOfRows DEF FdInv
<1>1. CASE FdFind(f) # {}
  <2>1. PICK n : n \in FdFind(f) /\ n = FdNumberOf(f) /\ fdRows' = [fdRows EXCEPT ![n].last = fdDay] /\ fdSeq' = fdSeq
    BY <1>1 DEF FdUpsert, FdUpserted, FdNumberOf
  <2>2. n \in DOMAIN fdRows /\ fdRows[n].fp = f /\ fdRows[n] \in FdRowSet
    BY <2>1 DEF FdFind, FdInv, FdRowsFine
  <2>3. PICK r : r = [fdRows[n] EXCEPT !.last = fdDay] /\ fdRows' = [fdRows EXCEPT ![n] = r]
    BY <2>1
  <2>4. r \in FdRowSet /\ r.fp = fdRows[n].fp /\ r.state = fdRows[n].state
    BY <2>2, <2>3 DEF FdRowSet, FdInv
  <2>5. FdRowsFine(fdRows')
    BY <2>2, <2>3, <2>4, RowTouched DEF FdInv
  <2>6. DOMAIN fdRows' = DOMAIN fdRows
        /\ \A m \in DOMAIN fdRows : fdRows'[m].fp = fdRows[m].fp /\ fdRows'[m].state = fdRows[m].state
    BY <2>3, <2>4
  <2>7. FdObeyed(fdRows', fdTold')
    BY <2>6 DEF FdInv, FdObeyed
  <2>8. FdNumbers' \subseteq FdNumbers
    <3>1. FdRowNames' \subseteq FdRowNames
      BY <2>6, RowNamesStep
    <3>2. [no |-> FdNumberOf(f), fp |-> f] \in FdNumbers
      BY <2>1, <2>2, RowNames
    <3> QED BY <3>1, <3>2 DEF FdNumbers
  <2>9. FdOneFlow(FdNumbers', fdSeq')
    BY <2>1, <2>8, OneFlowFewer DEF FdInv
  <2> QED BY <1>0, <2>1, <2>5, <2>7, <2>9 DEF FdInv
<1>2. CASE FdFind(f) = {}
  <2>1. /\ FdNumberOf(f) = fdSeq + 1 /\ fdSeq' = Max({fdSeq, fdSeq + 1})
        /\ fdRows' = [n \in DOMAIN fdRows \cup {fdSeq + 1} |-> IF n = fdSeq + 1 THEN FdRow(f, "pending") ELSE fdRows[n]]
    BY <1>2 DEF FdUpsert, FdNumberOf, FdNewNumber
  <2>2. fdSeq' = fdSeq + 1
    <3>1. \E x \in {fdSeq, fdSeq + 1} : \A y \in {fdSeq, fdSeq + 1} : x >= y
      BY <1>0
    <3>2. Max({fdSeq, fdSeq + 1}) \in {fdSeq, fdSeq + 1} /\ Max({fdSeq, fdSeq + 1}) >= fdSeq + 1
      BY <3>1 DEF Max
    <3> QED BY <1>0, <2>1, <3>2
  <2>3. FdRow(f, "pending") \in FdRowSet /\ FdRow(f, "pending").fp = f /\ FdRow(f, "pending").state = "pending"
    BY DEF FdRow, FdRowSet, FdStates, FdInv
  <2>4. DOMAIN fdRows' = DOMAIN fdRows \cup {fdSeq + 1} /\ fdSeq + 1 \notin DOMAIN fdRows
    BY <1>0, <2>1
  <2>5. fdRows'[fdSeq + 1] = FdRow(f, "pending") /\ \A n \in DOMAIN fdRows : fdRows'[n] = fdRows[n] /\ fdRows[n].fp # f
    BY <1>2, <2>1, <2>4 DEF FdFind
  <2>6. FdRowsFine(fdRows')
    <3>1. fdRows' = [n \in DOMAIN fdRows' |-> fdRows'[n]]
      BY <2>1
    <3> QED BY <2>3, <2>4, <2>5, <3>1 DEF FdRowsFine, FdInv
  <2>7. FdObeyed(fdRows', fdTold')
    <3>1. fdTold[f] = "pending"
      BY <2>5 DEF FdObeyed, FdInv
    <3> QED BY <2>3, <2>4, <2>5, <3>1 DEF FdObeyed, FdInv
  <2>8. FdNumbers' \subseteq FdNumbers \cup {[no |-> fdSeq + 1, fp |-> f]}
    <3>1. FdRowNames' \subseteq FdRowNames \cup {[no |-> fdSeq + 1, fp |-> f]}
      <4>1. \A n \in DOMAIN fdRows' :
                IF n = fdSeq + 1 THEN fdRows'[n].fp = f
                ELSE n \in DOMAIN fdRows /\ fdRows'[n].fp = fdRows[n].fp
        BY <2>3, <2>4, <2>5
      <4> QED BY <4>1 DEF FdRowNames, FdNamed
    <3> QED BY <2>1, <3>1 DEF FdNumbers
  <2>9. FdOneFlow(FdNumbers', fdSeq')
    BY <1>0, <2>2, <2>8, OneFlowMore DEF FdInv
  <2> QED BY <1>0, <2>2, <2>6, <2>7, <2>9 DEF FdInv
<1> QED BY <1>1, <1>2

LEMMA UpdateStateKeeps ==
    ASSUME FdInv, NEW n, NEW s \in {"allowed", "denied"}, FdUpdateState(n, s),
           UNCHANGED <<fdSeq, fdHints, fdShown, fdPeek, fdExport, fdPeer, fdDay>>
    PROVE  FdInv'
<1>1. n \in DOMAIN fdShown /\ n \in DOMAIN fdRows /\ fdRows[n] \in FdRowSet
  BY DEF FdUpdateState, FdInv, FdRowsFine
<1>2. fdShown[n] = fdRows[n].fp /\ fdShown[n] \in Fingerprints
  BY <1>1, ShownFlow
<1>3. PICK r : r = [fdRows[n] EXCEPT !.state = s] /\ fdRows' = [fdRows EXCEPT ![n] = r]
  BY DEF FdUpdateState
<1>4. r \in FdRowSet /\ r.fp = fdRows[n].fp /\ r.state = s
  BY <1>1, <1>3 DEF FdRowSet, FdStates
<1>5. FdRowsFine(fdRows')
  BY <1>1, <1>3, <1>4, RowTouched DEF FdInv
<1>6. DOMAIN fdRows' = DOMAIN fdRows /\ fdRows'[n] = r /\ \A m \in DOMAIN fdRows : m # n => fdRows'[m] = fdRows[m]
  BY <1>1, <1>3
<1>7. \A m \in DOMAIN fdRows : fdRows[m].fp \in Fingerprints /\ (m # n => fdRows[m].fp # fdRows[n].fp)
  BY <1>1 DEF FdInv, FdRowsFine, FdRowSet
<1>8. FdObeyed(fdRows', fdTold')
  <2>1. fdTold' = [fdTold EXCEPT ![fdRows[n].fp] = s] /\ fdTold \in [Fingerprints -> FdStates]
    BY <1>2 DEF FdUpdateState, FdInv, FdObeyed
  <2>2. fdTold' \in [Fingerprints -> FdStates]
    BY <2>1 DEF FdStates
  <2>3. \A f \in Fingerprints : fdTold'[f] = IF f = fdRows[n].fp THEN s ELSE fdTold[f]
    BY <2>1
  <2> QED BY <1>1, <1>4, <1>6, <1>7, <2>2, <2>3 DEF FdInv, FdObeyed
<1> QED BY <1>4, <1>5, <1>6, <1>8, RowsOnly

LEMMA SetScrutinyKeeps == ASSUME FdInv, FdSetScrutiny PROVE FdInv'
<1>1. CASE fdScrut \in DOMAIN fdRows
  <2>1. PICK n, r : n = fdScrut /\ r = [fdRows[n] EXCEPT !.scrutiny = TRUE] /\ fdRows' = [fdRows EXCEPT ![n] = r]
    BY <1>1 DEF FdSetScrutiny
  <2>2. n \in DOMAIN fdRows /\ fdRows[n] \in FdRowSet
    BY <1>1, <2>1 DEF FdInv, FdRowsFine
  <2>3. r \in FdRowSet /\ r.fp = fdRows[n].fp /\ r.state = fdRows[n].state
    BY <2>1, <2>2 DEF FdRowSet
  <2>4. FdRowsFine(fdRows')
    BY <2>1, <2>2, <2>3, RowTouched DEF FdInv
  <2>5. DOMAIN fdRows' = DOMAIN fdRows
        /\ \A m \in DOMAIN fdRows : fdRows'[m].fp = fdRows[m].fp /\ fdRows'[m].state = fdRows[m].state
    BY <2>1, <2>3
  <2>6. FdObeyed(fdRows', fdTold')
    BY <2>5 DEF FdSetScrutiny, FdInv, FdObeyed
  <2> QED BY <2>4, <2>5, <2>6, RowsOnly DEF FdSetScrutiny
<1>2. CASE fdScrut \notin DOMAIN fdRows
  BY <1>2, RowsOnly DEF FdSetScrutiny, FdInv
<1> QED BY <1>1, <1>2

\* Some rows get the state s, and their flows too.
LEMMA StatesSet ==
    ASSUME FdInv, NEW N \in SUBSET DOMAIN fdRows, NEW s \in FdStates,
           fdRows' = [n \in DOMAIN fdRows |-> IF n \in N THEN [fdRows[n] EXCEPT !.state = s] ELSE fdRows[n]],
           fdTold' = [f \in Fingerprints |-> IF \E n \in N : fdRows[n].fp = f THEN s ELSE fdTold[f]],
           UNCHANGED <<fdSeq, fdHints, fdShown, fdPeek, fdExport, fdPeer, fdDay>>
    PROVE  FdInv'
<1>1. \A n \in DOMAIN fdRows : fdRows[n] \in FdRowSet
  BY DEF FdInv, FdRowsFine
<1>2. \A r \in FdRowSet : /\ [r EXCEPT !.state = s] \in FdRowSet /\ [r EXCEPT !.state = s].fp = r.fp
                           /\ [r EXCEPT !.state = s].state = s
  BY DEF FdRowSet
<1>3. DOMAIN fdRows' = DOMAIN fdRows /\ fdRows' = [n \in DOMAIN fdRows' |-> fdRows'[n]]
  OBVIOUS
<1>4. \A n \in DOMAIN fdRows : /\ fdRows'[n] \in FdRowSet /\ fdRows'[n].fp = fdRows[n].fp
                                /\ fdRows'[n].state = IF n \in N THEN s ELSE fdRows[n].state
  BY <1>1, <1>2
<1>5. FdRowsFine(fdRows')
  BY <1>3, <1>4 DEF FdRowsFine, FdInv
<1>6. \A n \in DOMAIN fdRows : fdRows[n].fp \in Fingerprints
  BY <1>1 DEF FdRowSet
<1>7. \A n \in DOMAIN fdRows : (\E m \in N : fdRows[m].fp = fdRows[n].fp) <=> n \in N
  BY DEF FdInv, FdRowsFine
<1>8. FdObeyed(fdRows', fdTold')
  <2>1. fdTold' \in [Fingerprints -> FdStates]
    BY DEF FdInv, FdObeyed
  <2>2. \A n \in DOMAIN fdRows : fdRows'[n].state = fdTold'[fdRows[n].fp]
    BY <1>4, <1>6, <1>7 DEF FdInv, FdObeyed
  <2>3. \A f \in Fingerprints : fdTold'[f] = "pending" \/ \E n \in DOMAIN fdRows : fdRows[n].fp = f
    BY DEF FdInv, FdObeyed
  <2> QED BY <1>3, <1>4, <2>1, <2>2, <2>3 DEF FdObeyed
<1> QED BY <1>3, <1>4, <1>5, <1>8, RowsOnly

\* Rows go whose flows are pending then.
LEMMA RowsGone ==
    ASSUME FdInv, NEW N, fdRows' = Restrict(fdRows, DOMAIN fdRows \ N),
           fdTold' \in [Fingerprints -> FdStates],
           \A n \in DOMAIN fdRows : IF n \in N THEN fdTold'[fdRows[n].fp] = "pending"
                                    ELSE fdTold'[fdRows[n].fp] = fdTold[fdRows[n].fp],
           \A f \in Fingerprints : fdTold'[f] = "pending" \/ fdTold'[f] = fdTold[f],
           UNCHANGED <<fdSeq, fdHints, fdShown, fdPeek, fdExport, fdPeer, fdDay>>
    PROVE  FdInv'
<1>1. DOMAIN fdRows' = DOMAIN fdRows \ N /\ \A n \in DOMAIN fdRows' : fdRows'[n] = fdRows[n]
  BY DEF Restrict
<1>2. fdRows' = [n \in DOMAIN fdRows' |-> fdRows'[n]]
  BY DEF Restrict
<1>3. FdRowsFine(fdRows')
  <2>0. \A n \in DOMAIN fdRows : fdRows[n] \in FdRowSet
    BY DEF FdRowsFine, FdInv
  <2>1. \A n \in DOMAIN fdRows' : fdRows'[n] \in FdRowSet
    BY <1>1, <2>0
  <2>3. \A m, n \in DOMAIN fdRows : fdRows[m].fp = fdRows[n].fp => m = n
    BY DEF FdRowsFine, FdInv
  <2>2. \A m, n \in DOMAIN fdRows' : fdRows'[m].fp = fdRows'[n].fp => m = n
    BY <1>1, <2>3
  <2> QED BY <1>2, <2>1, <2>2 DEF FdRowsFine
<1>4. FdObeyed(fdRows', fdTold')
  <2>1. \A f \in Fingerprints : fdTold'[f] = "pending" \/ \E n \in DOMAIN fdRows' : fdRows'[n].fp = f
    <3> SUFFICES ASSUME NEW f \in Fingerprints, fdTold'[f] # "pending"
                 PROVE  \E n \in DOMAIN fdRows' : fdRows'[n].fp = f
      OBVIOUS
    <3>1. PICK n \in DOMAIN fdRows : fdRows[n].fp = f
      BY DEF FdInv, FdObeyed
    <3> QED BY <1>1, <3>1
  <2>2. \A n \in DOMAIN fdRows' : fdRows'[n].state = fdTold'[fdRows'[n].fp]
    <3> SUFFICES ASSUME NEW n \in DOMAIN fdRows'
                 PROVE  fdRows'[n].state = fdTold'[fdRows'[n].fp]
      OBVIOUS
    <3>1. n \in DOMAIN fdRows /\ n \notin N /\ fdRows'[n] = fdRows[n]
      BY <1>1
    <3>2. fdTold'[fdRows[n].fp] = fdTold[fdRows[n].fp] /\ fdRows[n].state = fdTold[fdRows[n].fp]
      BY <3>1 DEF FdInv, FdObeyed
    <3> QED BY <3>1, <3>2
  <2> QED BY <2>1, <2>2 DEF FdObeyed
<1> QED BY <1>1, <1>3, <1>4, RowsOnly

-----------------------------------------------------------------------------
LEMMA FdBulkKeeps ==
    ASSUME FdInv, NEW ns, NEW s \in {"allowed", "denied"}, FdBulkUpdate(ns, s)
    PROVE  FdInv'
<1> DEFINE N == ns \cap DOMAIN fdRows
<1>1. \A n \in N : fdRows[n].fp = fdShown[n]
  BY ShownFlow DEF FdBulkUpdate
<1>2. fdTold' = [f \in Fingerprints |-> IF \E n \in N : fdRows[n].fp = f THEN s ELSE fdTold[f]]
  BY <1>1 DEF FdBulkUpdate
<1>3. fdRows' = [n \in DOMAIN fdRows |-> IF n \in N THEN [fdRows[n] EXCEPT !.state = s] ELSE fdRows[n]]
  BY DEF FdBulkUpdate
<1>4. N \in SUBSET DOMAIN fdRows /\ s \in FdStates
  BY DEF FdStates
<1>5. UNCHANGED <<fdSeq, fdHints, fdShown, fdPeek, fdExport, fdPeer, fdDay>>
  BY DEF FdBulkUpdate
<1> HIDE DEF N
<1> QED BY <1>2, <1>3, <1>4, <1>5, StatesSet

LEMMA FdAllowAllKeeps == ASSUME FdInv, FdAllowAllPending PROVE FdInv'
<1> DEFINE N == {n \in DOMAIN fdRows : fdRows[n].state = "pending"}
<1>1. fdRows' = [n \in DOMAIN fdRows |-> IF n \in N THEN [fdRows[n] EXCEPT !.state = "allowed"] ELSE fdRows[n]]
  BY DEF FdAllowAllPending
<1>2. fdTold' = [f \in Fingerprints |-> IF \E n \in N : fdRows[n].fp = f THEN "allowed" ELSE fdTold[f]]
  BY DEF FdAllowAllPending
<1>3. N \in SUBSET DOMAIN fdRows
  OBVIOUS
<1> HIDE DEF N
<1> QED BY <1>1, <1>2, <1>3, StatesSet DEF FdAllowAllPending, FdStates

LEMMA FdDeleteKeeps == ASSUME FdInv, NEW n, FdDelete(n) PROVE FdInv'
<1>1. n \in DOMAIN fdShown /\ n \in DOMAIN fdRows /\ fdRows' = Restrict(fdRows, DOMAIN fdRows \ {n})
  BY DEF FdDelete
<1>2. fdShown[n] = fdRows[n].fp /\ fdShown[n] \in Fingerprints
  BY <1>1, ShownFlow
<1>3. fdTold' = [fdTold EXCEPT ![fdRows[n].fp] = "pending"] /\ fdTold \in [Fingerprints -> FdStates]
  BY <1>2 DEF FdDelete, FdInv, FdObeyed
<1>4. fdTold' \in [Fingerprints -> FdStates]
  BY <1>3 DEF FdStates
<1>5. \A f \in Fingerprints : fdTold'[f] = IF f = fdRows[n].fp THEN "pending" ELSE fdTold[f]
  BY <1>3
<1>6. \A m \in DOMAIN fdRows : fdRows[m].fp \in Fingerprints /\ (m # n => fdRows[m].fp # fdRows[n].fp)
  BY <1>1 DEF FdInv, FdRowsFine, FdRowSet
<1>7. \A m \in DOMAIN fdRows : IF m \in {n} THEN fdTold'[fdRows[m].fp] = "pending"
                              ELSE fdTold'[fdRows[m].fp] = fdTold[fdRows[m].fp]
  BY <1>5, <1>6
<1>8. \A f \in Fingerprints : fdTold'[f] = "pending" \/ fdTold'[f] = fdTold[f]
  BY <1>5
<1> QED BY <1>1, <1>4, <1>7, <1>8, RowsGone DEF FdDelete

LEMMA FdCleanupKeeps == ASSUME FdInv, FdCleanup PROVE FdInv'
<1>1. PICK N : /\ N \subseteq {n \in DOMAIN fdRows : fdRows[n].state = "pending"}
               /\ fdRows' = Restrict(fdRows, DOMAIN fdRows \ N)
  BY DEF FdCleanup, FdOld
<1>2. fdTold' = fdTold /\ fdTold' \in [Fingerprints -> FdStates]
  BY DEF FdCleanup, FdInv, FdObeyed
<1>3. \A n \in DOMAIN fdRows : IF n \in N THEN fdTold'[fdRows[n].fp] = "pending"
                              ELSE fdTold'[fdRows[n].fp] = fdTold[fdRows[n].fp]
  BY <1>1, <1>2 DEF FdInv, FdObeyed
<1>4. \A f \in Fingerprints : fdTold'[f] = "pending" \/ fdTold'[f] = fdTold[f]
  BY <1>2
<1> QED BY <1>1, <1>2, <1>3, <1>4, RowsGone DEF FdCleanup

\* The operations that copy names bring no new one.
LEMMA FdCopiesKeep ==
    ASSUME FdInv, FdAddHint \/ FdList \/ FdExportFlows \/ FdImportSnapshot \/ FdNextDay
    PROVE  FdInv'
<1>1. CASE FdAddHint
  <2>1. FdNumbers' \subseteq FdNumbers
    BY <1>1 DEF FdAddHint, FdNumbers, FdRowNames
  <2> QED BY <1>1, <2>1, NamesOnly DEF FdAddHint
<1>2. CASE FdList
  <2>1. FdNamed(fdShown') = FdRowNames /\ FdRowNames' = FdRowNames
    BY <1>2 DEF FdList, FdRowNames, FdNamed
  <2>2. FdNumbers' \subseteq FdNumbers
    BY <1>2, <2>1 DEF FdList, FdNumbers
  <2> QED BY <1>2, <2>2, NamesOnly DEF FdList
<1>3. CASE FdExportFlows
  <2>1. FdNamed(fdExport'.rows) = FdRowNames /\ FdRowNames' = FdRowNames
    BY <1>3 DEF FdExportFlows, FdRowNames, FdNamed
  <2>2. FdNumbers' \subseteq FdNumbers
    BY <1>3, <2>1 DEF FdExportFlows, FdNumbers
  <2> QED BY <1>3, <2>2, NamesOnly DEF FdExportFlows
<1>4. CASE FdImportSnapshot
  <2>1. fdExport'.rows = << >> /\ fdPeer'.rows = fdExport.rows /\ fdPeer'.hints = fdHints
    BY <1>4 DEF FdImportSnapshot, FdNoExport
  <2>2. FdNamed(fdExport'.rows) = {}
    BY <2>1 DEF FdNamed
  <2>3. FdNumbers' \subseteq FdNumbers
    BY <1>4, <2>1, <2>2 DEF FdImportSnapshot, FdNumbers, FdRowNames
  <2> QED BY <1>4, <2>3, NamesOnly DEF FdImportSnapshot
<1>5. CASE FdNextDay
  <2>1. FdNumbers' \subseteq FdNumbers
    BY <1>5 DEF FdNextDay, FdNumbers, FdRowNames
  <2> QED BY <1>5, <2>1, NamesOnly DEF FdNextDay
<1> QED BY <1>1, <1>2, <1>3, <1>4, <1>5

LEMMA FdInvStep == ASSUME FdInv, FdNext \/ UNCHANGED fdVars PROVE FdInv'
<1>1. ASSUME NEW f \in Fingerprints, FdSighting(f) \/ FdAnnotate(f) PROVE FdInv'
  BY <1>1, UpsertKeeps DEF FdSighting, FdAnnotate
<1>2. ASSUME NEW n, NEW s \in {"allowed", "denied"}, FdDecide(n, s) PROVE FdInv'
  BY <1>2, UpdateStateKeeps DEF FdDecide
<1>3. ASSUME NEW n, FdAllowWithScrutiny(n) PROVE FdInv'
  BY <1>3, UpdateStateKeeps DEF FdAllowWithScrutiny
<1>4. CASE UNCHANGED fdVars
  BY <1>4, NamesOnly DEF fdVars, FdNumbers, FdRowNames
<1> QED BY <1>1, <1>2, <1>3, <1>4, FdBulkKeeps, FdDeleteKeeps, FdCopiesKeep, SetScrutinyKeeps,
           FdAllowAllKeeps, FdCleanupKeeps DEF FdNext

LEMMA FdInitHolds == FdInit => FdInv
<1> SUFFICES ASSUME FdInit PROVE FdInv
  OBVIOUS
<1>1. FdNumbers = {}
  BY DEF FdInit, FdNumbers, FdRowNames, FdNamed, FdNoExport
<1>2. FdOneFlow(FdNumbers, fdSeq)
  BY <1>1 DEF FdOneFlow
<1>3. FdRowsFine(fdRows)
  BY DEF FdInit, FdRowsFine
<1>4. FdObeyed(fdRows, fdTold)
  BY DEF FdInit, FdObeyed, FdStates
<1> QED BY <1>2, <1>3, <1>4 DEF FdInv, FdInit

LEMMA FdInvSuffices == FdInv => OperatorDecisions /\ HintsOfTheirFlow
<1> SUFFICES ASSUME FdInv PROVE OperatorDecisions /\ HintsOfTheirFlow
  OBVIOUS
<1>1. OperatorDecisions
  BY DEF FdInv, FdObeyed, OperatorDecisions, FdFind
<1>2. \A n \in DOMAIN fdRows : \A h \in FdHintsOf(fdRows, fdHints, n) : h.fp = fdRows[n].fp
  <2> SUFFICES ASSUME NEW n \in DOMAIN fdRows, NEW h \in FdHintsOf(fdRows, fdHints, n)
               PROVE  h.fp = fdRows[n].fp
    OBVIOUS
  <2>1. h \in FdNumbers /\ h.no = n
    BY DEF FdHintsOf, FdNumbers
  <2>2. [no |-> n, fp |-> fdRows[n].fp] \in FdNumbers
    BY RowNames
  <2> QED BY <2>1, <2>2 DEF FdInv, FdOneFlow
<1>3. \A n \in DOMAIN fdPeer.rows : \A h \in FdHintsOf(fdPeer.rows, fdPeer.hints, n) : h.fp = fdPeer.rows[n]
  <2> SUFFICES ASSUME NEW n \in DOMAIN fdPeer.rows, NEW h \in FdHintsOf(fdPeer.rows, fdPeer.hints, n)
               PROVE  h.fp = fdPeer.rows[n]
    OBVIOUS
  <2>1. h \in FdNumbers /\ h.no = n
    BY DEF FdHintsOf, FdNumbers
  <2>2. [no |-> n, fp |-> fdPeer.rows[n]] \in FdNumbers
    BY DEF FdNumbers, FdNamed
  <2> QED BY <2>1, <2>2 DEF FdInv, FdOneFlow
<1> QED BY <1>1, <1>2, <1>3 DEF HintsOfTheirFlow

-----------------------------------------------------------------------------
(* Users and keys                                                          *)

UserRecords == [role: Roles, made: Nat]
SessionRecords == [user: UserNames, made: Nat, ends: Int]
PartialFunctions(S, T) == UNION {[D -> T] : D \in SUBSET S}

\* Users and sessions that are kept together, in memory or in the file.
UsersSound(us, ss) ==
    /\ us \in PartialFunctions(UserNames, UserRecords)
    /\ ss \in PartialFunctions(Tokens, SessionRecords)
    /\ DOMAIN us # {} => \E u \in DOMAIN us : us[u].role = "admin"
    /\ \A t \in DOMAIN ss : ss[t].user \in DOMAIN us /\ ss[t].made = us[ss[t].user].made

UserInv ==
    /\ usClock \in Nat /\ created \in Nat
    /\ UsersSound(users, sessions) /\ UsersSound(authFile.users, authFile.sessions)

LEMMA Partial ==
    ASSUME NEW S, NEW T, NEW f
    PROVE  f \in PartialFunctions(S, T) <=>
               (f = [x \in DOMAIN f |-> f[x]] /\ DOMAIN f \subseteq S /\ \A x \in DOMAIN f : f[x] \in T)
<1>1. ASSUME f \in PartialFunctions(S, T)
      PROVE  f = [x \in DOMAIN f |-> f[x]] /\ DOMAIN f \subseteq S /\ \A x \in DOMAIN f : f[x] \in T
  <2>1. PICK D \in SUBSET S : f \in [D -> T]
    BY <1>1 DEF PartialFunctions
  <2> QED BY <2>1
<1>2. ASSUME f = [x \in DOMAIN f |-> f[x]], DOMAIN f \subseteq S, \A x \in DOMAIN f : f[x] \in T
      PROVE  f \in PartialFunctions(S, T)
  <2>1. f \in [DOMAIN f -> T]
    BY <1>2
  <2> QED BY <1>2, <2>1 DEF PartialFunctions
<1> QED BY <1>1, <1>2

LEMMA WithOne ==
    ASSUME NEW S, NEW T, NEW f \in PartialFunctions(S, T), NEW x \in S, NEW v \in T
    PROVE  With(f, x, v) \in PartialFunctions(S, T)
<1>1. DOMAIN f \subseteq S /\ \A y \in DOMAIN f : f[y] \in T
  BY Partial
<1>2. With(f, x, v) \in [DOMAIN f \cup {x} -> T]
  BY <1>1 DEF With
<1> QED BY <1>1, <1>2 DEF PartialFunctions

LEMMA WithoutSome ==
    ASSUME NEW S, NEW T, NEW f \in PartialFunctions(S, T), NEW D
    PROVE  Without(f, D) \in PartialFunctions(S, T)
<1>1. DOMAIN f \subseteq S /\ \A y \in DOMAIN f : f[y] \in T
  BY Partial
<1>2. Without(f, D) \in [DOMAIN f \ D -> T]
  BY <1>1 DEF Without
<1> QED BY <1>1, <1>2 DEF PartialFunctions

\* What Without is.
LEMMA WithoutIs ==
    ASSUME NEW f, NEW D
    PROVE  /\ DOMAIN Without(f, D) = DOMAIN f \ D
           /\ \A y \in DOMAIN f \ D : Without(f, D)[y] = f[y]
BY DEF Without

\* A save keeps both files sound.
LEMMA SaveKeeps ==
    ASSUME UserInv, NEW us, NEW ss, UsersSound(us, ss), SaveLocked(us, ss)
    PROVE  UsersSound(authFile'.users, authFile'.sessions)
BY DEF UserInv, SaveLocked

LEMMA NewUserSound ==
    ASSUME UserInv, NEW u \in UserNames, u \notin DOMAIN users, NEW r \in Roles,
           DOMAIN users = {} => r = "admin"
    PROVE  UsersSound(NewUser(u, r), sessions)
<1> DEFINE v == [role |-> r, made |-> created + 1]
           us == With(users, u, v)
<1>1. v \in UserRecords
  BY DEF UserInv, UserRecords
<1>2. /\ us \in PartialFunctions(UserNames, UserRecords) /\ DOMAIN us = DOMAIN users \cup {u}
      /\ us[u] = v /\ \A y \in DOMAIN users : y # u => us[y] = users[y]
  <2>1. users \in PartialFunctions(UserNames, UserRecords)
    BY DEF UserInv, UsersSound
  <2>2. us \in PartialFunctions(UserNames, UserRecords)
    <3> HIDE DEF v
    <3> QED BY <1>1, <2>1, WithOne
  <2>3. /\ DOMAIN us = DOMAIN users \cup {u} /\ us[u] = v
        /\ \A y \in DOMAIN users : y # u => us[y] = users[y]
    <3> HIDE DEF v
    <3> QED BY DEF With
  <2> QED BY <2>2, <2>3
<1>3. \E w \in DOMAIN us : us[w].role = "admin"
  <2> HIDE DEF us
  <2>1. CASE DOMAIN users = {}
    BY <1>2, <2>1
  <2>2. CASE DOMAIN users # {}
    BY <1>2, <2>2 DEF UserInv, UsersSound
  <2> QED BY <2>1, <2>2
<1>4. \A t \in DOMAIN sessions : sessions[t].user \in DOMAIN us
                                 /\ sessions[t].made = us[sessions[t].user].made
  <2> HIDE DEF us
  <2> QED BY <1>2 DEF UserInv, UsersSound
<1> QED BY <1>2, <1>3, <1>4 DEF UserInv, UsersSound, NewUser

\* One administrator is not all of them, unless it is the last.
LEMMA AnotherAdmin ==
    ASSUME UserInv, NEW u \in DOMAIN users, ~LastAdmin(u)
    PROVE  \E w \in DOMAIN users : w # u /\ users[w].role = "admin"
<1>1. CASE users[u].role # "admin"
  BY <1>1 DEF UserInv, UsersSound
<1>2. CASE users[u].role = "admin"
  <2> SUFFICES ASSUME \A w \in DOMAIN users : users[w].role = "admin" => w = u
               PROVE  FALSE
    OBVIOUS
  <2>1. Admins = {u}
    BY <1>2 DEF Admins
  <2>2. Cardinality(Admins) = 1
    BY <2>1, FS_Singleton
  <2> QED BY <1>2, <2>2 DEF LastAdmin
<1> QED BY <1>1, <1>2

LEMMA UserInvStep == ASSUME UserInv, UserNext \/ UNCHANGED userVars PROVE UserInv'
<1> USE DEF UserInv
<1>1. CASE UNCHANGED userVars
  BY <1>1 DEF userVars
<1>2. ASSUME NEW u \in UserNames, CreateAdmin(u)
      PROVE  UserInv'
  <2>1. UsersSound(users', sessions)
    BY <1>2, NewUserSound DEF CreateAdmin, Roles
  <2>2. UsersSound(authFile'.users, authFile'.sessions)
    BY <1>2, <2>1, SaveKeeps DEF CreateAdmin
  <2> QED BY <1>2, <2>1, <2>2 DEF CreateAdmin
<1>3. ASSUME NEW u \in UserNames, NEW r \in Roles, CreateUser(u, r)
      PROVE  UserInv'
  <2>1. UsersSound(users', sessions)
    BY <1>3, NewUserSound DEF CreateUser
  <2>2. UsersSound(authFile'.users, authFile'.sessions)
    BY <1>3, <2>1, SaveKeeps DEF CreateUser
  <2> QED BY <1>3, <2>1, <2>2 DEF CreateUser
<1>4. ASSUME NEW u \in UserNames, Authenticate(u)
      PROVE  UserInv'
  <2>1. u \in DOMAIN users /\ FreshToken \in Tokens /\ FreshToken \notin DOMAIN sessions
    BY <1>4 DEF Authenticate, HasToken, FreshToken
  <2>2. SessionOf(u) \in SessionRecords /\ SessionOf(u).user = u /\ SessionOf(u).made = users[u].made
    <3>1. users[u] \in UserRecords
      BY <2>1, Partial DEF UsersSound
    <3> QED BY <3>1, UserTerm DEF SessionOf, SessionRecords, UserRecords
  <2>3. PICK ss : ss = With(sessions, FreshToken, SessionOf(u))
    OBVIOUS
  <2>4. /\ ss \in PartialFunctions(Tokens, SessionRecords)
        /\ DOMAIN ss = DOMAIN sessions \cup {FreshToken} /\ ss[FreshToken] = SessionOf(u)
        /\ \A t \in DOMAIN sessions : t # FreshToken => ss[t] = sessions[t]
    <3>1. sessions \in PartialFunctions(Tokens, SessionRecords)
      BY DEF UsersSound
    <3>2. ss \in PartialFunctions(Tokens, SessionRecords)
      BY <2>1, <2>2, <2>3, <3>1, WithOne
    <3> QED BY <2>3, <3>2 DEF With
  <2>5. UsersSound(users, ss)
    BY <2>1, <2>2, <2>4 DEF UsersSound
  <2>6. UsersSound(authFile'.users, authFile'.sessions)
    BY <1>4, <2>3, <2>5, SaveKeeps DEF Authenticate
  <2> QED BY <1>4, <2>3, <2>5, <2>6 DEF Authenticate
<1>5. ASSUME NEW D
      PROVE  UsersSound(users, Without(sessions, D))
  <2>1. sessions \in PartialFunctions(Tokens, SessionRecords)
    BY DEF UsersSound
  <2>2. /\ Without(sessions, D) \in PartialFunctions(Tokens, SessionRecords)
        /\ DOMAIN Without(sessions, D) = DOMAIN sessions \ D
        /\ \A t \in DOMAIN sessions \ D : Without(sessions, D)[t] = sessions[t]
    <3>1. Without(sessions, D) \in PartialFunctions(Tokens, SessionRecords)
      BY <2>1, WithoutSome
    <3> QED BY <3>1, WithoutIs
  <2> QED BY <2>2 DEF UsersSound
<1>6. ASSUME NEW t \in Tokens, Logout(t)
      PROVE  UserInv'
  <2>1. UsersSound(users, sessions')
    BY <1>5, <1>6 DEF Logout
  <2>2. UsersSound(authFile'.users, authFile'.sessions)
    BY <1>6, <2>1, SaveKeeps DEF Logout
  <2> QED BY <1>6, <2>1, <2>2 DEF Logout
<1>7. ASSUME NEW u \in UserNames, NEW r \in Roles, UpdateRole(u, r)
      PROVE  UserInv'
  <2>1. u \in DOMAIN users /\ users' = [users EXCEPT ![u].role = r]
    BY <1>7 DEF UpdateRole
  <2>2. /\ users = [x \in DOMAIN users |-> users[x]] /\ DOMAIN users \subseteq UserNames
        /\ \A x \in DOMAIN users : users[x] \in UserRecords
    BY Partial DEF UsersSound
  <2>3. PICK v : v = [users[u] EXCEPT !.role = r]
    OBVIOUS
  <2>4. v \in UserRecords /\ v.role = r /\ v.made = users[u].made
    BY <2>1, <2>2, <2>3 DEF UserRecords
  <2>5. users' = [users EXCEPT ![u] = v]
    BY <2>1, <2>3
  <2>6. /\ DOMAIN users' = DOMAIN users /\ users'[u] = v
        /\ \A x \in DOMAIN users : x # u => users'[x] = users[x]
        /\ users' = [x \in DOMAIN users' |-> users'[x]]
    <3>1. u \in DOMAIN users
      BY <2>1
    <3>2. users' = [x \in DOMAIN users |-> IF x = u THEN v ELSE users[x]]
      BY <2>5
    <3>3. DOMAIN users' = DOMAIN users /\ users'[u] = v /\ \A x \in DOMAIN users : x # u => users'[x] = users[x]
      BY <3>1, <3>2
    <3>4. users' = [x \in DOMAIN users' |-> users'[x]]
      BY <3>2, <3>3
    <3> QED BY <3>3, <3>4
  <2>7. users' \in PartialFunctions(UserNames, UserRecords)
    <3>1. \A x \in DOMAIN users' : users'[x] \in UserRecords
      BY <2>2, <2>4, <2>6
    <3>2. DOMAIN users' \subseteq UserNames
      BY <2>2, <2>6
    <3> QED BY <2>6, <3>1, <3>2, Partial
  <2>8. \E w \in DOMAIN users' : users'[w].role = "admin"
    <3>1. CASE r = "admin"
      BY <2>1, <2>4, <2>6, <3>1
    <3>2. CASE r # "admin"
      <4>1. PICK w \in DOMAIN users : w # u /\ users[w].role = "admin"
        BY <1>7, <2>1, <3>2, AnotherAdmin DEF UpdateRole
      <4> QED BY <2>6, <4>1
    <3> QED BY <3>1, <3>2
  <2>9. \A t \in DOMAIN sessions : sessions[t].user \in DOMAIN users'
                                   /\ sessions[t].made = users'[sessions[t].user].made
    BY <2>4, <2>6 DEF UsersSound
  <2>10. UsersSound(users', sessions)
    BY <2>7, <2>8, <2>9 DEF UsersSound
  <2>11. UsersSound(authFile'.users, authFile'.sessions)
    BY <1>7, <2>10, SaveKeeps DEF UpdateRole
  <2> QED BY <1>7, <2>10, <2>11 DEF UpdateRole
<1>8. ASSUME NEW u \in UserNames, DeleteUser(u)
      PROVE  UserInv'
  <2>1. /\ u \in DOMAIN users /\ ~LastAdmin(u) /\ users' = Without(users, {u})
        /\ sessions' = Without(sessions, {t \in DOMAIN sessions : sessions[t].user = u})
    BY <1>8 DEF DeleteUser, SessionsLeft
  <2>2. /\ users' \in PartialFunctions(UserNames, UserRecords)
        /\ DOMAIN users' = DOMAIN users \ {u}
        /\ \A x \in DOMAIN users \ {u} : users'[x] = users[x]
    <3>1. users \in PartialFunctions(UserNames, UserRecords)
      BY DEF UsersSound
    <3>2. Without(users, {u}) \in PartialFunctions(UserNames, UserRecords)
      BY <3>1, WithoutSome
    <3>3. /\ DOMAIN Without(users, {u}) = DOMAIN users \ {u}
          /\ \A x \in DOMAIN users \ {u} : Without(users, {u})[x] = users[x]
      BY WithoutIs
    <3> QED BY <2>1, <3>2, <3>3
  <2>3. /\ sessions' \in PartialFunctions(Tokens, SessionRecords)
        /\ DOMAIN sessions' = DOMAIN sessions \ {t \in DOMAIN sessions : sessions[t].user = u}
        /\ \A t \in DOMAIN sessions' : sessions'[t] = sessions[t]
    <3>1. sessions \in PartialFunctions(Tokens, SessionRecords)
      BY DEF UsersSound
    <3> DEFINE D == {t \in DOMAIN sessions : sessions[t].user = u}
    <3>2. Without(sessions, D) \in PartialFunctions(Tokens, SessionRecords)
      BY <3>1, WithoutSome
    <3>3. DOMAIN Without(sessions, D) = DOMAIN sessions \ D
          /\ \A t \in DOMAIN sessions \ D : Without(sessions, D)[t] = sessions[t]
      BY WithoutIs
    <3> QED BY <2>1, <3>2, <3>3
  <2>4. \E w \in DOMAIN users' : users'[w].role = "admin"
    <3>1. PICK w \in DOMAIN users : w # u /\ users[w].role = "admin"
      BY <2>1, AnotherAdmin
    <3> QED BY <2>2, <3>1
  <2>5. \A t \in DOMAIN sessions' : sessions'[t].user \in DOMAIN users'
                                    /\ sessions'[t].made = users'[sessions'[t].user].made
    BY <2>2, <2>3 DEF UsersSound
  <2>6. UsersSound(users', sessions')
    BY <2>2, <2>3, <2>4, <2>5 DEF UsersSound
  <2>7. UsersSound(authFile'.users, authFile'.sessions)
    BY <1>8, <2>6, SaveKeeps DEF DeleteUser
  <2> QED BY <1>8, <2>6, <2>7 DEF DeleteUser
<1>9. CASE UsRestart
  <2>1. PICK D : sessions' = Without(authFile.sessions, D) /\ users' = authFile.users
    BY <1>9 DEF UsRestart
  <2>2. authFile.sessions \in PartialFunctions(Tokens, SessionRecords)
    BY DEF UsersSound
  <2>3. /\ sessions' \in PartialFunctions(Tokens, SessionRecords)
        /\ DOMAIN sessions' = DOMAIN authFile.sessions \ D
        /\ \A t \in DOMAIN authFile.sessions \ D : sessions'[t] = authFile.sessions[t]
    <3>1. sessions' \in PartialFunctions(Tokens, SessionRecords)
      BY <2>1, <2>2, WithoutSome
    <3> DEFINE kept == authFile.sessions
    <3>2. /\ DOMAIN Without(kept, D) = DOMAIN kept \ D
          /\ \A t \in DOMAIN kept \ D : Without(kept, D)[t] = kept[t]
      BY WithoutIs, Zenon
    <3> QED BY <2>1, <3>1, <3>2
  <2>4. UsersSound(users', sessions')
    BY <2>1, <2>3 DEF UsersSound
  <2> QED BY <1>9, <2>4 DEF UsRestart
<1>10. CASE UsTick
  BY <1>10 DEF UsTick
<1> QED BY <1>1, <1>2, <1>3, <1>4, <1>6, <1>7, <1>8, <1>9, <1>10 DEF UserNext

LEMMA UserInitHolds == ASSUME UserInit PROVE UserInv
<1>1. NoneOf \in PartialFunctions(UserNames, UserRecords)
      /\ NoneOf \in PartialFunctions(Tokens, SessionRecords) /\ DOMAIN NoneOf = {}
  <2>1. NoneOf \in [{} -> UserRecords] /\ NoneOf \in [{} -> SessionRecords] /\ DOMAIN NoneOf = {}
    BY DEF NoneOf
  <2>2. {} \in SUBSET UserNames /\ {} \in SUBSET Tokens
    OBVIOUS
  <2> QED BY <2>1, <2>2 DEF PartialFunctions
<1>2. UsersSound(NoneOf, NoneOf)
  BY <1>1 DEF UsersSound
<1> QED BY <1>2 DEF UserInit, UserInv

LEMMA UserInvSuffices == UserInv => AdminRemains /\ SessionKeepsUser
<1> SUFFICES ASSUME UserInv PROVE AdminRemains /\ SessionKeepsUser
  OBVIOUS
<1>1. AdminRemains
  BY DEF UserInv, UsersSound, AdminRemains, Admins
<1>2. SessionKeepsUser
  BY DEF UserInv, UsersSound, SessionKeepsUser, ValidSession
<1> QED BY <1>1, <1>2

-----------------------------------------------------------------------------
(* Keys                                                                    *)

KeyNames == ApiKeyIds \cup {CHOOSE k \in ApiKeyIds : TRUE}
KeyRequestStates ==
    [pc: {"idle", "indexed", "refused", "valid", "counting", "accepted"}, key: KeyNames, late: BOOLEAN]

\* Nothing leads to a revoked key, from the moment the command line deletes the
\* index entry, and a request that came later was refused at its look-up.
KeyInv ==
    /\ keyReq \in [KeyRequests -> KeyRequestStates]
    /\ keyCli \in [pc: {"idle", "create", "delete"}, key: KeyNames]
    /\ revoked \cap keyIndex = {}
    /\ keyCli.pc = "delete" => keyCli.key \notin keyIndex
    /\ \A r \in KeyRequests : keyReq[r].late => keyReq[r].pc \in {"idle", "refused"}

LEMMA KeyInitHolds == ASSUME KeyInit PROVE KeyInv
<1>1. KeyIdle \in KeyRequestStates /\ CliIdle \in [pc: {"idle", "create", "delete"}, key: KeyNames]
  BY DEF KeyIdle, CliIdle, KeyRequestStates, KeyNames
<1> QED BY <1>1 DEF KeyInit, KeyInv, KeyIdle, CliIdle

\* A request goes on; the others stay.
LEMMA KeyRequestStep ==
    ASSUME KeyInv, NEW r \in KeyRequests, NEW v \in KeyRequestStates,
           keyReq' = [keyReq EXCEPT ![r] = v], v.late => v.pc \in {"idle", "refused"},
           UNCHANGED <<keyIndex, keyCli, revoked>>
    PROVE  KeyInv'
BY DEF KeyInv

LEMMA KeyPcStep ==
    ASSUME KeyInv, NEW r \in KeyRequests,
           NEW pc \in {"idle", "indexed", "refused", "valid", "counting", "accepted"}, Req(r, pc),
           ~keyReq[r].late \/ pc \in {"idle", "refused"}, UNCHANGED <<keyIndex, keyCli, revoked>>
    PROVE  KeyInv'
<1>1. PICK v : v = [keyReq[r] EXCEPT !.pc = pc]
  OBVIOUS
<1>2. keyReq[r] \in KeyRequestStates
  BY DEF KeyInv
<1>3. v \in KeyRequestStates /\ v.late = keyReq[r].late /\ v.pc = pc
  BY <1>1, <1>2 DEF KeyRequestStates
<1>4. keyReq' = [keyReq EXCEPT ![r] = v]
  BY <1>1 DEF Req
<1> QED BY <1>3, <1>4, KeyRequestStep

LEMMA KeyInvStep == ASSUME KeyInv, KeyNext \/ UNCHANGED keyVars PROVE KeyInv'
<1>1. CASE UNCHANGED keyVars
  BY <1>1 DEF KeyInv, keyVars
<1>2. ASSUME NEW r \in KeyRequests, ReadRow(r)
      PROVE  KeyInv'
  <2>1. PICK pc \in {"valid", "refused"} : Req(r, pc)
    BY <1>2 DEF ReadRow
  <2>2. ~keyReq[r].late
    BY <1>2 DEF ReadRow, KeyInv
  <2> QED BY <1>2, <2>1, <2>2, KeyPcStep DEF ReadRow
<1>3. ASSUME NEW r \in KeyRequests, ReadUse(r)
      PROVE  KeyInv'
  <2>1. ~keyReq[r].late
    BY <1>3 DEF ReadUse, KeyInv
  <2>2. PICK pc \in {"counting", "accepted"} : Req(r, pc)
    BY <1>3 DEF ReadUse
  <2> QED BY <1>3, <2>1, <2>2, KeyPcStep DEF ReadUse
<1>4. ASSUME NEW r \in KeyRequests, WriteUse(r)
      PROVE  KeyInv'
  <2>1. ~keyReq[r].late
    BY <1>4 DEF WriteUse, KeyInv
  <2> QED BY <1>4, <2>1, KeyPcStep DEF WriteUse
<1>5. ASSUME NEW r \in KeyRequests, Answer(r)
      PROVE  KeyInv'
  <2>1. KeyIdle \in KeyRequestStates /\ ~KeyIdle.late
    BY DEF KeyIdle, KeyRequestStates, KeyNames
  <2> QED BY <1>5, <2>1, KeyRequestStep DEF Answer
<1>6. ASSUME NEW r \in KeyRequests, NEW k \in ApiKeyIds, LookUp(r, k)
      PROVE  KeyInv'
  <2>1. PICK v : v = [pc |-> IF k \in keyIndex THEN "indexed" ELSE "refused",
                      key |-> k, late |-> k \in revoked]
    OBVIOUS
  <2>2. v \in KeyRequestStates
    BY <2>1 DEF KeyRequestStates, KeyNames
  <2>3. v.late => v.pc \in {"idle", "refused"}
    BY <2>1 DEF KeyInv
  <2> QED BY <1>6, <2>1, <2>2, <2>3, KeyRequestStep DEF LookUp
<1>7. ASSUME NEW k \in ApiKeyIds, CreateRow(k)
      PROVE  KeyInv'
  BY <1>7 DEF CreateRow, KeyInv, KeyNames
<1>8. ASSUME NEW k \in ApiKeyIds, DeleteIndex(k)
      PROVE  KeyInv'
  BY <1>8 DEF DeleteIndex, IndexAfterDelete, KeyInv, KeyNames
<1>9. CliIdle \in [pc: {"idle", "create", "delete"}, key: KeyNames] /\ CliIdle.pc = "idle"
  BY DEF CliIdle, KeyNames
<1>10. CASE CreateIndex
  BY <1>9, <1>10 DEF CreateIndex, KeyInv
<1>11. CASE CreateUndone
  BY <1>9, <1>11 DEF CreateUndone, KeyInv
<1>12. CASE DeleteRow
  BY <1>9, <1>12 DEF DeleteRow, KeyInv
<1>13. CASE CliDies
  BY <1>9, <1>13 DEF CliDies, KeyInv
<1> QED BY <1>1, <1>2, <1>3, <1>4, <1>5, <1>6, <1>7, <1>8, <1>10, <1>11, <1>12, <1>13 DEF KeyNext

LEMMA KeyInvSuffices == KeyInv => RevokedStays
BY DEF KeyInv, RevokedStays

-----------------------------------------------------------------------------
(* The limiter: what is known of each request that passed                  *)

\* The buckets, with the time of the last filling; and the requests that passed:
\* when, with a token of which bucket and which of its fillings, for which
\* login, how many buckets there were, and which one a new request would have
\* found.
RlBuckets == [tokens: Nat, fill: Nat]
RlGrants == [at: Nat, bucket: Nat, fill: Nat, by: Logins, made: Nat, next: Nat]
RlNextOf(bs, of) == IF of = 0 THEN Len(bs) + 1 ELSE Len(bs)
RlGroup(G, b, f) == {i \in DOMAIN G : G[i].bucket = b /\ G[i].fill = f}

\* P is the bucket each login is about to take from, 0 for none.
RlTypes(G, clk, bs, of, P) ==
    /\ G \in Seq(RlGrants) /\ clk \in Nat /\ bs \in Seq(RlBuckets) /\ of \in {0, Len(bs)}
    /\ P \in [Logins -> 0..Len(bs)]
    /\ \A b \in DOMAIN bs : bs[b].fill <= clk /\ bs[b].tokens <= RlLimit

RlTimely(g, clk, bs, of) ==
    /\ g.bucket \in DOMAIN bs /\ g.fill <= g.at /\ g.at < g.fill + RlInterval /\ g.at <= clk
    /\ g.bucket <= g.made /\ g.made <= Len(bs)
    /\ g.next = g.made \/ g.next = g.made + 1
    /\ g.next <= RlNextOf(bs, of)

\* Two fillings of a bucket are an interval apart.
RlApart(f, h) == f = h \/ f >= h + RlInterval \/ h >= f + RlInterval
RlFills(G, bs) ==
    \A i \in DOMAIN G :
        /\ G[i].fill = bs[G[i].bucket].fill \/ bs[G[i].bucket].fill >= G[i].fill + RlInterval
        /\ \A j \in DOMAIN G : G[j].bucket = G[i].bucket => RlApart(G[i].fill, G[j].fill)

\* A filling is for so many requests.
RlCounts(G, bs) ==
    /\ \A b \in DOMAIN bs : Cardinality(RlGroup(G, b, bs[b].fill)) + bs[b].tokens <= RlLimit
    /\ \A b, f \in Nat : Cardinality(RlGroup(G, b, f)) <= RlLimit

\* A bucket was there when it was filled.
RlMadeBefore(G, bs) ==
    \A i \in DOMAIN G :
        /\ \A b \in DOMAIN bs : G[i].at > bs[b].fill => G[i].made >= b
        /\ \A j \in DOMAIN G : G[i].at > G[j].fill => G[i].made >= G[j].bucket

\* A login finds no older bucket than the one to be found when it passed last;
\* and the one that made a bucket finds no older one.
RlOnward(G, P) ==
    \A i \in DOMAIN G :
        /\ P[G[i].by] # 0 => P[G[i].by] >= G[i].next
        /\ \A j \in DOMAIN G : (i < j /\ G[i].by = G[j].by) => G[j].bucket >= G[i].next
RlMaker(G, P, b, q) ==
    /\ P[q] # 0 => P[q] >= b
    /\ \A i \in DOMAIN G : (G[i].by = q /\ G[i].made >= b) => G[i].bucket >= b
RlMakers(G, bs, P) == \A b \in DOMAIN bs : \E q \in Logins : RlMaker(G, P, b, q)

\* Buckets are cleaned up when they are old.
RlDropped(G, clk, bs, of) ==
    \A i \in DOMAIN G :
        /\ (G[i].made + 1 < Len(bs) \/ (G[i].made < Len(bs) /\ of = 0)) => clk > G[i].at + RlMaxAge
        /\ \A j \in DOMAIN G : G[j].bucket > G[i].made + 1 => G[j].at > G[i].at + RlMaxAge

\* A bucket that was dropped after a request had passed was filled later than
\* that, or long before it was dropped.
RlLater(fill, at, clk) == fill >= at \/ clk > fill + RlMaxAge
RlOld(G, clk, bs, of) ==
    \A k \in DOMAIN G :
        /\ RlNextOf(bs, of) > G[k].next =>
              /\ RlLater(bs[G[k].next].fill, G[k].at, clk)
              /\ \A i \in DOMAIN G : G[i].bucket = G[k].next => RlLater(G[i].fill, G[k].at, clk)
        /\ \A i, j \in DOMAIN G :
              (G[i].bucket = G[k].next /\ G[j].bucket > G[k].next) =>
                  RlLater(G[i].fill, G[k].at, G[j].at)

RlSound(G, clk, bs, of, P) ==
    /\ RlTypes(G, clk, bs, of, P)
    /\ \A i \in DOMAIN G : RlTimely(G[i], clk, bs, of)
    /\ RlFills(G, bs) /\ RlCounts(G, bs) /\ RlMadeBefore(G, bs)
    /\ RlOnward(G, P) /\ RlMakers(G, bs, P)
    /\ RlDropped(G, clk, bs, of) /\ RlOld(G, clk, bs, of)

LEMMA RlConstants ==
    /\ RlLimit \in Nat /\ RlLimit >= 1 /\ RlInterval \in Nat /\ RlInterval >= 1
    /\ RlMaxAge \in Nat /\ RlMaxAge >= 2 * RlInterval - 2 /\ RlMaxAge >= RlInterval - 1
    /\ RlWindow \in Nat /\ IsFiniteSet(Logins)
BY RlAssumption

\* What the elements are.
LEMMA RlElements ==
    ASSUME NEW G, NEW clk, NEW bs, NEW of, NEW P, RlTypes(G, clk, bs, of, P)
    PROVE  /\ \A i \in DOMAIN G : /\ G[i] \in RlGrants /\ G[i].at \in Nat /\ G[i].bucket \in Nat
                                  /\ G[i].fill \in Nat /\ G[i].by \in Logins /\ G[i].made \in Nat
                                  /\ G[i].next \in Nat
           /\ \A b \in DOMAIN bs : bs[b] \in RlBuckets /\ bs[b].fill \in Nat /\ bs[b].tokens \in Nat
           /\ Len(bs) \in Nat /\ DOMAIN bs = 1..Len(bs) /\ Len(G) \in Nat /\ DOMAIN G = 1..Len(G)
           /\ RlNextOf(bs, of) \in Nat /\ Len(bs) <= RlNextOf(bs, of)
<1>1. \A i \in DOMAIN G : G[i] \in RlGrants
  BY DEF RlTypes
<1>2. \A b \in DOMAIN bs : bs[b] \in RlBuckets
  BY DEF RlTypes
<1>3. Len(bs) \in Nat /\ DOMAIN bs = 1..Len(bs) /\ Len(G) \in Nat /\ DOMAIN G = 1..Len(G)
  BY DEF RlTypes
<1>4. RlNextOf(bs, of) \in Nat /\ Len(bs) <= RlNextOf(bs, of)
  BY <1>3 DEF RlNextOf
<1> QED BY <1>1, <1>2, <1>3, <1>4 DEF RlGrants, RlBuckets

\* What passed names its bucket, the newest one then, and the next one, in this order.
LEMMA RlInOrder ==
    ASSUME NEW G, NEW clk, NEW bs, NEW of, NEW P, RlTypes(G, clk, bs, of, P),
           \A i \in DOMAIN G : RlTimely(G[i], clk, bs, of)
    PROVE  \A k \in DOMAIN G : /\ G[k].next \in Nat /\ G[k].next >= G[k].made
                               /\ G[k].made >= G[k].bucket /\ G[k].bucket >= 1
<1> SUFFICES ASSUME NEW k \in DOMAIN G
             PROVE  /\ G[k].next \in Nat /\ G[k].next >= G[k].made
                    /\ G[k].made >= G[k].bucket /\ G[k].bucket >= 1
  OBVIOUS
<1>1. G[k].bucket \in Nat /\ G[k].made \in Nat /\ G[k].next \in Nat
  BY RlElements
<1>2. DOMAIN bs = 1..Len(bs) /\ Len(bs) \in Nat
  BY RlElements
<1>3. RlTimely(G[k], clk, bs, of)
  OBVIOUS
<1>4. /\ G[k].bucket \in DOMAIN bs /\ G[k].bucket <= G[k].made
      /\ G[k].next = G[k].made \/ G[k].next = G[k].made + 1
  BY <1>3 DEF RlTimely
<1>5. G[k].bucket >= 1
  BY <1>2, <1>4
<1> QED BY <1>1, <1>4, <1>5

LEMMA RlGroupFinite ==
    ASSUME NEW G \in Seq(RlGrants), NEW b, NEW f
    PROVE  IsFiniteSet(RlGroup(G, b, f)) /\ Cardinality(RlGroup(G, b, f)) \in Nat
<1>1. RlGroup(G, b, f) \in SUBSET (1..Len(G))
  BY DEF RlGroup
<1>2. IsFiniteSet(RlGroup(G, b, f))
  BY <1>1, FS_Interval, FS_Subset
<1> QED BY <1>2, FS_CardinalityType

-----------------------------------------------------------------------------
(* The limiter: its steps                                                  *)

\* A login that takes from no bucket any more.
LEMMA RlQuiet ==
    ASSUME NEW G, NEW clk, NEW bs, NEW of, NEW P, RlSound(G, clk, bs, of, P), NEW q \in Logins
    PROVE  RlSound(G, clk, bs, of, [P EXCEPT ![q] = 0])
<1> DEFINE Q == [P EXCEPT ![q] = 0]
<1>1. RlTypes(G, clk, bs, of, P)
  BY DEF RlSound
<1>2. Q \in [Logins -> 0..Len(bs)] /\ \A r \in Logins : Q[r] = 0 \/ Q[r] = P[r]
  BY <1>1, RlElements DEF RlTypes
<1> HIDE DEF Q
<1>3. RlTypes(G, clk, bs, of, Q)
  BY <1>1, <1>2 DEF RlTypes
<1>4. RlOnward(G, Q)
  BY <1>1, <1>2, RlElements DEF RlSound, RlOnward
<1>5. RlMakers(G, bs, Q)
  BY <1>2 DEF RlSound, RlMakers, RlMaker
<1>6. RlSound(G, clk, bs, of, Q)
  BY <1>3, <1>4, <1>5 DEF RlSound
<1> QED BY <1>6 DEF Q

LEMMA RlTicks ==
    ASSUME NEW G, NEW clk, NEW bs, NEW of, NEW P, RlSound(G, clk, bs, of, P)
    PROVE  RlSound(G, clk + 1, bs, of, P)
<1>1. RlTypes(G, clk, bs, of, P)
  BY DEF RlSound
<1>2. clk \in Nat
  BY <1>1 DEF RlTypes
<1>3. RlTypes(G, clk + 1, bs, of, P)
  <2>1. \A b \in DOMAIN bs : bs[b].fill <= clk /\ bs[b].tokens <= RlLimit
    BY <1>1 DEF RlTypes
  <2>2. \A b \in DOMAIN bs : bs[b].fill \in Nat
    BY <1>1, RlElements
  <2>3. \A b \in DOMAIN bs : bs[b].fill <= clk + 1
    BY <1>2, <2>1, <2>2
  <2> QED BY <1>1, <1>2, <2>1, <2>3 DEF RlTypes
<1>4. \A i \in DOMAIN G : RlTimely(G[i], clk + 1, bs, of)
  BY <1>1, <1>2, RlElements DEF RlSound, RlTimely
<1>5. RlDropped(G, clk + 1, bs, of)
  BY <1>1, <1>2, RlElements, RlConstants DEF RlSound, RlDropped
<1>6. RlOld(G, clk + 1, bs, of)
  <2>1. \A fill, at \in Nat : RlLater(fill, at, clk) => RlLater(fill, at, clk + 1)
    BY <1>2, RlConstants DEF RlLater
  <2>2. \A k \in DOMAIN G : RlNextOf(bs, of) > G[k].next => G[k].next \in DOMAIN bs
    BY <1>1, RlElements DEF RlSound, RlTimely, RlNextOf
  <2>3. \A k \in DOMAIN G : RlNextOf(bs, of) > G[k].next =>
              /\ RlLater(bs[G[k].next].fill, G[k].at, clk + 1)
              /\ \A i \in DOMAIN G : G[i].bucket = G[k].next => RlLater(G[i].fill, G[k].at, clk + 1)
    BY <1>1, <2>1, <2>2, RlElements DEF RlSound, RlOld
  <2> QED BY <2>3 DEF RlSound, RlOld
<1> QED BY <1>3, <1>4, <1>5, <1>6 DEF RlSound

\* Reset: what passed before does not count.
LEMMA RlForgets ==
    ASSUME NEW G, NEW clk, NEW bs, NEW of, NEW P, RlSound(G, clk, bs, of, P)
    PROVE  RlSound(<< >>, clk, bs, 0, P)
<1>1. RlTypes(<< >>, clk, bs, 0, P)
  BY DEF RlSound, RlTypes
<1>2. RlCounts(<< >>, bs)
  <2>1. \A b, f : Cardinality(RlGroup(<< >>, b, f)) = 0
    <3>1. \A b, f : RlGroup(<< >>, b, f) = {}
      BY DEF RlGroup
    <3> QED BY <3>1, FS_EmptySet
  <2>2. \A b \in DOMAIN bs : bs[b].tokens \in Nat /\ bs[b].tokens <= RlLimit
    BY <1>1, RlElements DEF RlTypes
  <2>3. \A b \in DOMAIN bs : Cardinality(RlGroup(<< >>, b, bs[b].fill)) + bs[b].tokens <= RlLimit
    BY <2>1, <2>2
  <2> QED BY <2>1, <2>3, RlConstants DEF RlCounts
<1>3. RlMakers(<< >>, bs, P)
  BY DEF RlSound, RlMakers, RlMaker
<1>4. DOMAIN << >> = {}
  OBVIOUS
<1>5. /\ \A i \in DOMAIN << >> : RlTimely(<< >>[i], clk, bs, 0)
      /\ RlFills(<< >>, bs) /\ RlMadeBefore(<< >>, bs) /\ RlOnward(<< >>, P)
      /\ RlDropped(<< >>, clk, bs, 0) /\ RlOld(<< >>, clk, bs, 0)
  BY <1>4 DEF RlFills, RlMadeBefore, RlOnward, RlDropped, RlOld
<1> QED BY <1>1, <1>2, <1>3, <1>5 DEF RlSound

\* CleanupExpired drops the newest bucket.
LEMMA RlCleans ==
    ASSUME NEW G, NEW clk, NEW bs, NEW of, NEW P, RlSound(G, clk, bs, of, P),
           of # 0, clk - bs[of].fill > RlMaxAge
    PROVE  RlSound(G, clk, bs, 0, P)
<1>1. RlTypes(G, clk, bs, of, P)
  BY DEF RlSound
<1>2. /\ clk \in Nat /\ of = Len(bs) /\ of \in DOMAIN bs /\ of \in Nat /\ bs[of].fill \in Nat
      /\ RlNextOf(bs, of) = of /\ RlNextOf(bs, 0) = of + 1
  <2>1. clk \in Nat /\ of = Len(bs)
    BY <1>1 DEF RlTypes
  <2>2. of \in DOMAIN bs /\ of \in Nat
    BY <1>1, <2>1, RlElements
  <2> QED BY <1>1, <2>1, <2>2, RlElements DEF RlNextOf
<1>3. RlTypes(G, clk, bs, 0, P)
  BY <1>1 DEF RlTypes
<1>4. \A i \in DOMAIN G : RlTimely(G[i], clk, bs, 0)
  BY <1>1, <1>2, RlElements DEF RlSound, RlTimely
<1>5. RlDropped(G, clk, bs, 0)
  <2> SUFFICES ASSUME NEW i \in DOMAIN G, G[i].made < Len(bs)
               PROVE  clk > G[i].at + RlMaxAge
    <3>1. \A i \in DOMAIN G : \A j \in DOMAIN G :
              G[j].bucket > G[i].made + 1 => G[j].at > G[i].at + RlMaxAge
      BY DEF RlSound, RlDropped
    <3>2. \A i \in DOMAIN G : G[i].made + 1 < Len(bs) => G[i].made < Len(bs)
      BY <1>1, RlElements
    <3> QED BY <3>1, <3>2 DEF RlDropped
  <2>1. ~(G[i].made >= of)
    BY <1>1, <1>2, RlElements
  <2>2. ~(G[i].at > bs[of].fill)
    BY <1>2, <2>1 DEF RlSound, RlMadeBefore
  <2>3. G[i].at \in Nat
    BY <1>1, RlElements
  <2> QED BY <1>2, <2>2, <2>3, RlConstants
<1>6. RlOld(G, clk, bs, 0)
  <2> SUFFICES ASSUME NEW k \in DOMAIN G, of + 1 > G[k].next
               PROVE  /\ RlLater(bs[G[k].next].fill, G[k].at, clk)
                      /\ \A i \in DOMAIN G : G[i].bucket = G[k].next => RlLater(G[i].fill, G[k].at, clk)
    BY <1>2 DEF RlSound, RlOld
  <2>1. G[k].next \in Nat
    BY <1>1, RlElements
  <2>2. CASE of > G[k].next
    BY <1>2, <2>2 DEF RlSound, RlOld
  <2>3. CASE of = G[k].next
    <3>1. clk > bs[of].fill + RlMaxAge
      BY <1>2, RlConstants
    <3>2. \A i \in DOMAIN G : G[i].bucket = of => clk > G[i].fill + RlMaxAge
      <4> SUFFICES ASSUME NEW i \in DOMAIN G, G[i].bucket = of
                   PROVE  clk > G[i].fill + RlMaxAge
        OBVIOUS
      <4>1. G[i].fill = bs[of].fill \/ bs[of].fill >= G[i].fill + RlInterval
        BY DEF RlSound, RlFills
      <4>2. G[i].fill \in Nat
        BY <1>1, RlElements
      <4> QED BY <1>2, <3>1, <4>1, <4>2, RlConstants
    <3> QED BY <2>3, <3>1, <3>2 DEF RlLater
  <2> QED BY <1>2, <2>1, <2>2, <2>3
<1> QED BY <1>3, <1>4, <1>5, <1>6 DEF RlSound

\* FindBucket: the newest bucket, ...
LEMMA RlFinds ==
    ASSUME NEW G, NEW clk, NEW bs, NEW of, NEW P, RlSound(G, clk, bs, of, P), NEW q \in Logins,
           of # 0
    PROVE  RlSound(G, clk, bs, of, [P EXCEPT ![q] = of])
<1> DEFINE Q == [P EXCEPT ![q] = of]
<1>1. RlTypes(G, clk, bs, of, P)
  BY DEF RlSound
<1>2. of = Len(bs) /\ RlNextOf(bs, of) = Len(bs) /\ Len(bs) \in Nat
  BY <1>1, RlElements DEF RlTypes, RlNextOf
<1>3. Q \in [Logins -> 0..Len(bs)] /\ Q[q] = Len(bs) /\ \A r \in Logins : r # q => Q[r] = P[r]
  BY <1>1, <1>2 DEF RlTypes
<1> HIDE DEF Q
<1>4. RlTypes(G, clk, bs, of, Q)
  BY <1>1, <1>3 DEF RlTypes
<1>5. RlOnward(G, Q)
  <2>1. \A i \in DOMAIN G : G[i].next <= Len(bs)
    BY <1>2 DEF RlSound, RlTimely
  <2>2. \A i \in DOMAIN G : Q[G[i].by] # 0 => Q[G[i].by] >= G[i].next
    <3> SUFFICES ASSUME NEW i \in DOMAIN G, Q[G[i].by] # 0
                 PROVE  Q[G[i].by] >= G[i].next
      OBVIOUS
    <3>1. G[i].by \in Logins /\ G[i].next \in Nat /\ G[i].next <= Len(bs)
      BY <1>1, <2>1, RlElements
    <3>2. CASE G[i].by = q
      BY <1>2, <1>3, <3>1, <3>2
    <3>3. CASE G[i].by # q
      <4>1. P[G[i].by] # 0 => P[G[i].by] >= G[i].next
        BY DEF RlSound, RlOnward
      <4> QED BY <1>3, <3>1, <3>3, <4>1
    <3> QED BY <3>2, <3>3
  <2> QED BY <2>2 DEF RlSound, RlOnward
<1>6. RlMakers(G, bs, Q)
  <2> SUFFICES ASSUME NEW b \in DOMAIN bs PROVE \E r \in Logins : RlMaker(G, Q, b, r)
    BY DEF RlMakers
  <2>1. PICK r \in Logins : RlMaker(G, P, b, r)
    BY DEF RlSound, RlMakers
  <2>2. b \in Nat /\ b <= Len(bs)
    BY <1>1, RlElements
  <2>3. Q[r] # 0 => Q[r] >= b
    BY <1>2, <1>3, <2>1, <2>2 DEF RlMaker
  <2> QED BY <2>1, <2>3 DEF RlMaker
<1>7. RlSound(G, clk, bs, of, Q)
  BY <1>4, <1>5, <1>6 DEF RlSound
<1> QED BY <1>7 DEF Q

\* ... or a new one.
LEMMA RlMakes ==
    ASSUME NEW G, NEW clk, NEW bs, NEW P, RlSound(G, clk, bs, 0, P), NEW q \in Logins
    PROVE  RlSound(G, clk, Append(bs, [tokens |-> RlLimit, fill |-> clk]), Len(bs) + 1,
                   [P EXCEPT ![q] = Len(bs) + 1])
<1> DEFINE n == Len(bs) + 1
           Bs == Append(bs, [tokens |-> RlLimit, fill |-> clk])
           Q == [P EXCEPT ![q] = n]
<1>1. RlTypes(G, clk, bs, 0, P)
  BY DEF RlSound
<1>2. /\ Len(bs) \in Nat /\ DOMAIN bs = 1..Len(bs) /\ bs \in Seq(RlBuckets) /\ clk \in Nat
      /\ RlNextOf(bs, 0) = n /\ n \in Nat
  BY <1>1, RlElements DEF RlTypes, RlNextOf
<1>3. /\ Bs \in Seq(RlBuckets) /\ Len(Bs) = n /\ DOMAIN Bs = 1..n
      /\ Bs[n] = [tokens |-> RlLimit, fill |-> clk]
      /\ \A b \in DOMAIN bs : Bs[b] = bs[b]
  <2>1. [tokens |-> RlLimit, fill |-> clk] \in RlBuckets
    BY <1>2, RlConstants DEF RlBuckets
  <2> QED BY <1>2, <2>1
<1>4. Bs[n].tokens = RlLimit /\ Bs[n].fill = clk
  BY <1>3
<1>5. Q \in [Logins -> 0..n] /\ Q[q] = n /\ \A r \in Logins : r # q => Q[r] = P[r]
  BY <1>1, <1>2 DEF RlTypes
<1>6. RlNextOf(Bs, n) = n
  BY <1>2, <1>3 DEF RlNextOf
<1>7. \A b \in DOMAIN Bs : b = n \/ b \in DOMAIN bs
  BY <1>2, <1>3
<1>8. \A b \in DOMAIN bs : b \in DOMAIN Bs
  BY <1>2, <1>3
<1> HIDE DEF Q, n, Bs
<1>9. RlTypes(G, clk, Bs, n, Q)
  <2>1. \A b \in DOMAIN Bs : Bs[b].fill <= clk /\ Bs[b].tokens <= RlLimit
    BY <1>1, <1>2, <1>3, <1>4, <1>7, RlConstants DEF RlTypes
  <2> QED BY <1>1, <1>3, <1>5, <2>1 DEF RlTypes
<1>10. \A i \in DOMAIN G : RlTimely(G[i], clk, bs, 0) /\ G[i].bucket \in DOMAIN bs
                           /\ G[i].made <= Len(bs) /\ G[i].next <= n
  BY <1>2 DEF RlSound, RlTimely
<1>11. \A i \in DOMAIN G : RlTimely(G[i], clk, Bs, n)
  <2>1. \A i \in DOMAIN G : G[i].made <= n
    BY <1>1, <1>2, <1>10, RlElements DEF n
  <2> QED BY <1>3, <1>6, <1>8, <1>10, <2>1 DEF RlTimely
<1>12. RlFills(G, Bs)
  BY <1>3, <1>10 DEF RlSound, RlFills
<1>13. RlCounts(G, Bs)
  <2>1. RlGroup(G, n, Bs[n].fill) = {}
    <3>1. \A i \in DOMAIN G : G[i].bucket # n
      BY <1>2, <1>10 DEF n
    <3> QED BY <3>1 DEF RlGroup
  <2>2. Cardinality(RlGroup(G, n, Bs[n].fill)) + Bs[n].tokens <= RlLimit
    BY <1>4, <2>1, FS_EmptySet, RlConstants
  <2>3. \A b \in DOMAIN bs : Cardinality(RlGroup(G, b, Bs[b].fill)) + Bs[b].tokens <= RlLimit
    BY <1>3 DEF RlSound, RlCounts
  <2> QED BY <1>7, <2>2, <2>3 DEF RlSound, RlCounts
<1>14. RlMadeBefore(G, Bs)
  <2> SUFFICES ASSUME NEW i \in DOMAIN G, NEW b \in DOMAIN Bs, G[i].at > Bs[b].fill
               PROVE  G[i].made >= b
    BY DEF RlSound, RlMadeBefore
  <2>1. b # n
    <3>1. G[i].at <= clk /\ G[i].at \in Nat
      BY <1>1, <1>10, RlElements DEF RlTimely
    <3> QED BY <1>2, <1>4, <3>1
  <2> QED BY <1>3, <1>7, <2>1 DEF RlSound, RlMadeBefore
<1>15. RlOnward(G, Q)
  <2>1. \A i \in DOMAIN G : Q[G[i].by] # 0 => Q[G[i].by] >= G[i].next
    <3> SUFFICES ASSUME NEW i \in DOMAIN G, Q[G[i].by] # 0
                 PROVE  Q[G[i].by] >= G[i].next
      OBVIOUS
    <3>1. G[i].by \in Logins /\ G[i].next \in Nat /\ G[i].next <= n
      BY <1>1, <1>10, RlElements
    <3>2. CASE G[i].by = q
      BY <1>2, <1>5, <3>1, <3>2
    <3>3. CASE G[i].by # q
      <4>1. P[G[i].by] # 0 => P[G[i].by] >= G[i].next
        BY DEF RlSound, RlOnward
      <4> QED BY <1>5, <3>1, <3>3, <4>1
    <3> QED BY <3>2, <3>3
  <2> QED BY <2>1 DEF RlSound, RlOnward
<1>16. RlMakers(G, Bs, Q)
  <2> SUFFICES ASSUME NEW b \in DOMAIN Bs PROVE \E r \in Logins : RlMaker(G, Q, b, r)
    BY DEF RlMakers
  <2>1. CASE b = n
    <3>1. \A i \in DOMAIN G : ~(G[i].made >= n)
      BY <1>1, <1>2, <1>10, RlElements DEF n
    <3>2. RlMaker(G, Q, n, q)
      BY <1>2, <1>5, <3>1 DEF RlMaker
    <3> QED BY <2>1, <3>2
  <2>2. CASE b \in DOMAIN bs
    <3>1. PICK r \in Logins : RlMaker(G, P, b, r)
      BY <2>2 DEF RlSound, RlMakers
    <3>2. n >= b
      BY <1>2, <2>2 DEF n
    <3>3. Q[r] # 0 => Q[r] >= b
      BY <1>5, <3>1, <3>2 DEF RlMaker
    <3> QED BY <3>1, <3>3 DEF RlMaker
  <2> QED BY <1>7, <2>1, <2>2
<1>17. RlDropped(G, clk, Bs, n)
  <2>1. n # 0
    BY <1>2 DEF n
  <2>2. \A i \in DOMAIN G : G[i].made + 1 < n => G[i].made < Len(bs)
    BY <1>1, <1>2, RlElements DEF n
  <2> QED BY <1>3, <2>1, <2>2 DEF RlSound, RlDropped
<1>18. RlOld(G, clk, Bs, n)
  <2>1. \A k \in DOMAIN G : n > G[k].next => G[k].next \in DOMAIN bs
    <3>1. \A k \in DOMAIN G : G[k].next \in Nat /\ G[k].next >= G[k].made /\ G[k].made >= G[k].bucket /\ G[k].bucket >= 1
      BY <1>1, RlInOrder DEF RlSound
    <3> QED BY <1>1, <1>2, <3>1, RlElements DEF n
  <2> QED BY <1>2, <1>3, <1>6, <2>1 DEF RlSound, RlOld
<1>19. RlSound(G, clk, Bs, n, Q)
  BY <1>9, <1>11, <1>12, <1>13, <1>14, <1>15, <1>16, <1>17, <1>18 DEF RlSound
<1> QED BY <1>19 DEF Q, n, Bs

\* TakeToken, first: the interval has passed.
LEMMA RlRefills ==
    ASSUME NEW G, NEW clk, NEW bs, NEW of, NEW P, RlSound(G, clk, bs, of, P), NEW c \in DOMAIN bs,
           clk - bs[c].fill >= RlInterval
    PROVE  RlSound(G, clk, [bs EXCEPT ![c] = [tokens |-> RlLimit, fill |-> clk]], of, P)
<1> DEFINE Bs == [bs EXCEPT ![c] = [tokens |-> RlLimit, fill |-> clk]]
<1>1. RlTypes(G, clk, bs, of, P)
  BY DEF RlSound
<1>2. clk \in Nat /\ bs \in Seq(RlBuckets) /\ bs[c].fill \in Nat /\ bs[c].fill + RlInterval <= clk
  <2>1. clk \in Nat /\ bs \in Seq(RlBuckets)
    BY <1>1 DEF RlTypes
  <2>2. bs[c].fill \in Nat
    BY <1>1, RlElements
  <2>3. \A f \in Nat : clk - f >= RlInterval => f + RlInterval <= clk
    BY <2>1, RlConstants
  <2> QED BY <2>1, <2>2, <2>3
<1>3. /\ Bs \in Seq(RlBuckets) /\ Len(Bs) = Len(bs) /\ DOMAIN Bs = DOMAIN bs
      /\ Bs[c] = [tokens |-> RlLimit, fill |-> clk]
      /\ \A b \in DOMAIN bs : b # c => Bs[b] = bs[b]
  <2>1. [tokens |-> RlLimit, fill |-> clk] \in RlBuckets
    BY <1>2, RlConstants DEF RlBuckets
  <2> QED BY <1>2, <2>1
<1>4. Bs[c].tokens = RlLimit /\ Bs[c].fill = clk /\ RlNextOf(Bs, of) = RlNextOf(bs, of)
  BY <1>3 DEF RlNextOf
<1> HIDE DEF Bs
<1>5. RlTypes(G, clk, Bs, of, P)
  <2>1. Bs[c].fill <= clk /\ Bs[c].tokens <= RlLimit
    BY <1>2, <1>4, RlConstants
  <2>2. \A b \in DOMAIN bs : b # c => Bs[b].fill <= clk /\ Bs[b].tokens <= RlLimit
    BY <1>1, <1>3, Zenon DEF RlTypes
  <2> QED BY <1>1, <1>3, <2>1, <2>2, Zenon DEF RlTypes
<1>6. \A i \in DOMAIN G : RlTimely(G[i], clk, Bs, of)
  BY <1>3, <1>4 DEF RlSound, RlTimely
<1>7. \A i \in DOMAIN G : G[i].bucket \in DOMAIN bs
  BY DEF RlSound, RlTimely
<1>8. \A i \in DOMAIN G : G[i].bucket = c => G[i].fill + RlInterval <= clk
  <2> SUFFICES ASSUME NEW i \in DOMAIN G, G[i].bucket = c
               PROVE  G[i].fill + RlInterval <= clk
    OBVIOUS
  <2>1. G[i].fill = bs[c].fill \/ bs[c].fill >= G[i].fill + RlInterval
    BY DEF RlSound, RlFills
  <2>2. G[i].fill \in Nat
    BY <1>1, RlElements
  <2>3. \A f, h \in Nat : (h + RlInterval <= clk /\ (f = h \/ h >= f + RlInterval)) => f + RlInterval <= clk
    BY <1>2, RlConstants
  <2> QED BY <1>2, <2>1, <2>2, <2>3
<1>9. RlFills(G, Bs)
  <2>1. \A i \in DOMAIN G :
            G[i].fill = Bs[G[i].bucket].fill \/ Bs[G[i].bucket].fill >= G[i].fill + RlInterval
    <3> SUFFICES ASSUME NEW i \in DOMAIN G
                 PROVE  G[i].fill = Bs[G[i].bucket].fill \/ Bs[G[i].bucket].fill >= G[i].fill + RlInterval
      OBVIOUS
    <3>1. CASE G[i].bucket = c
      <4>1. G[i].fill \in Nat
        BY <1>1, RlElements
      <4> QED BY <1>2, <1>4, <1>8, <3>1, <4>1, RlConstants
    <3>2. CASE G[i].bucket # c
      BY <1>3, <1>7, <3>2 DEF RlSound, RlFills
    <3> QED BY <3>1, <3>2
  <2> QED BY <2>1 DEF RlSound, RlFills
<1>10. RlCounts(G, Bs)
  <2>1. RlGroup(G, c, clk) = {}
    <3>1. \A i \in DOMAIN G : ~(G[i].bucket = c /\ G[i].fill = clk)
      BY <1>1, <1>2, <1>8, RlElements, RlConstants
    <3> QED BY <3>1 DEF RlGroup
  <2>2. Cardinality(RlGroup(G, c, Bs[c].fill)) + Bs[c].tokens <= RlLimit
    BY <1>4, <2>1, FS_EmptySet, RlConstants
  <2> QED BY <1>3, <2>2 DEF RlSound, RlCounts
<1>11. RlMadeBefore(G, Bs)
  <2> SUFFICES ASSUME NEW i \in DOMAIN G, NEW b \in DOMAIN Bs, G[i].at > Bs[b].fill
               PROVE  G[i].made >= b
    BY DEF RlSound, RlMadeBefore
  <2>1. b # c
    <3>1. G[i].at <= clk /\ G[i].at \in Nat
      BY <1>1, RlElements DEF RlSound, RlTimely
    <3> QED BY <1>2, <1>4, <3>1
  <2> QED BY <1>3, <2>1 DEF RlSound, RlMadeBefore
<1>12. RlOnward(G, P) /\ RlMakers(G, Bs, P) /\ RlDropped(G, clk, Bs, of)
  BY <1>3 DEF RlSound, RlMakers, RlDropped
<1>13. RlOld(G, clk, Bs, of)
  <2> SUFFICES ASSUME NEW k \in DOMAIN G, RlNextOf(bs, of) > G[k].next
               PROVE  RlLater(Bs[G[k].next].fill, G[k].at, clk)
    BY <1>4 DEF RlSound, RlOld
  <2>1. G[k].at \in Nat /\ G[k].at <= clk
    BY <1>1, RlElements DEF RlSound, RlTimely
  <2>2. RlLater(bs[G[k].next].fill, G[k].at, clk)
    BY DEF RlSound, RlOld
  <2>3. RlTimely(G[k], clk, bs, of) /\ G[k].next \in Nat
    BY <1>1, RlElements DEF RlSound
  <2>4. G[k].next \in DOMAIN bs
    BY <1>1, <2>3, RlElements DEF RlTimely, RlNextOf
  <2>5. CASE G[k].next = c
    BY <1>2, <1>4, <2>1, <2>5 DEF RlLater
  <2>6. CASE G[k].next # c
    BY <1>3, <2>2, <2>4, <2>6
  <2> QED BY <2>5, <2>6
<1>14. RlSound(G, clk, Bs, of, P)
  BY <1>5, <1>6, <1>9, <1>10, <1>11, <1>12, <1>13 DEF RlSound
<1> QED BY <1>14 DEF Bs

\* ... and then: a token is taken.
RlGrant(clk, bs, of, q, c) ==
    [at |-> clk, bucket |-> c, fill |-> bs[c].fill, by |-> q, made |-> Len(bs), next |-> RlNextOf(bs, of)]

LEMMA RlPasses ==
    ASSUME NEW G, NEW clk, NEW bs, NEW of, NEW P, RlSound(G, clk, bs, of, P), NEW q \in Logins,
           NEW c, c = P[q], c # 0, ~(clk - bs[c].fill >= RlInterval), ~(bs[c].tokens <= 0)
    PROVE  RlSound(Append(G, RlGrant(clk, bs, of, q, c)), clk,
                   [bs EXCEPT ![c] = [tokens |-> bs[c].tokens - 1, fill |-> bs[c].fill]],
                   of, [P EXCEPT ![q] = 0])
<1> DEFINE g == RlGrant(clk, bs, of, q, c)
           H == Append(G, g)
           n == Len(G) + 1
           Bs == [bs EXCEPT ![c] = [tokens |-> bs[c].tokens - 1, fill |-> bs[c].fill]]
           Q == [P EXCEPT ![q] = 0]
<1>1. RlTypes(G, clk, bs, of, P)
  BY DEF RlSound
<1>2. clk \in Nat /\ bs \in Seq(RlBuckets) /\ G \in Seq(RlGrants) /\ Len(bs) \in Nat /\ Len(G) \in Nat
  BY <1>1, RlElements DEF RlTypes
<1>3. c \in DOMAIN bs /\ c \in Nat /\ c <= Len(bs) /\ DOMAIN bs = 1..Len(bs)
  <2>1. P[q] \in 0..Len(bs)
    BY <1>1 DEF RlTypes
  <2> QED BY <1>1, <1>2, <2>1, RlElements
<1>4. /\ bs[c].fill \in Nat /\ bs[c].tokens \in Nat /\ bs[c].tokens - 1 \in Nat
      /\ bs[c].fill <= clk /\ bs[c].tokens <= RlLimit /\ clk < bs[c].fill + RlInterval
  <2>1. bs[c].fill \in Nat /\ bs[c].tokens \in Nat
    BY <1>1, <1>3, RlElements
  <2>2. bs[c].fill <= clk /\ bs[c].tokens <= RlLimit
    BY <1>1, <1>3, Zenon DEF RlTypes
  <2>3. \A f \in Nat : ~(clk - f >= RlInterval) => clk < f + RlInterval
    BY <1>2, RlConstants
  <2>4. \A t \in Nat : ~(t <= 0) => t - 1 \in Nat
    OBVIOUS
  <2> QED BY <2>1, <2>2, <2>3, <2>4
<1>5. RlNextOf(bs, of) \in Nat /\ Len(bs) <= RlNextOf(bs, of)
      /\ (RlNextOf(bs, of) = Len(bs) \/ RlNextOf(bs, of) = Len(bs) + 1)
  BY <1>1, RlElements DEF RlNextOf
<1>6. g \in RlGrants
  BY <1>2, <1>3, <1>4, <1>5 DEF RlGrant, RlGrants
<1>7. /\ g.at = clk /\ g.bucket = c /\ g.fill = bs[c].fill /\ g.by = q /\ g.made = Len(bs)
      /\ g.next = RlNextOf(bs, of)
  BY DEF RlGrant
<1> HIDE DEF g
<1>8. /\ H \in Seq(RlGrants) /\ DOMAIN H = 1..n /\ DOMAIN G = 1..(n - 1) /\ H[n] = g
      /\ \A i \in DOMAIN G : H[i] = G[i]
  BY <1>2, <1>6
<1>9. /\ Bs \in Seq(RlBuckets) /\ Len(Bs) = Len(bs) /\ DOMAIN Bs = DOMAIN bs
      /\ Bs[c] = [tokens |-> bs[c].tokens - 1, fill |-> bs[c].fill]
      /\ \A b \in DOMAIN bs : b # c => Bs[b] = bs[b]
  <2>1. [tokens |-> bs[c].tokens - 1, fill |-> bs[c].fill] \in RlBuckets
    BY <1>4 DEF RlBuckets
  <2> QED BY <1>2, <1>3, <2>1
<1>10. Bs[c].tokens = bs[c].tokens - 1 /\ \A b \in DOMAIN bs : Bs[b].fill = bs[b].fill
  BY <1>9
<1>11. RlNextOf(Bs, of) = RlNextOf(bs, of)
  BY <1>9 DEF RlNextOf
<1>12. Q \in [Logins -> 0..Len(bs)] /\ Q[q] = 0 /\ \A r \in Logins : r # q => Q[r] = P[r]
  BY <1>1, <1>2 DEF RlTypes
<1>13. n \in DOMAIN H /\ n \in Nat /\ \A i \in DOMAIN H : i = n \/ i \in DOMAIN G
  BY <1>2, <1>8
<1>14. \A i \in DOMAIN G : i \in DOMAIN H /\ i < n
  BY <1>2, <1>8
<1> HIDE DEF H, n, Bs, Q
<1>15. RlTypes(H, clk, Bs, of, Q)
  <2>1. Bs[c].fill <= clk /\ Bs[c].tokens <= RlLimit
    BY <1>3, <1>4, <1>10, RlConstants
  <2>2. \A b \in DOMAIN bs : b # c => Bs[b].fill <= clk /\ Bs[b].tokens <= RlLimit
    BY <1>1, <1>9, Zenon DEF RlTypes
  <2> QED BY <1>1, <1>8, <1>9, <1>12, <2>1, <2>2, Zenon DEF RlTypes
<1>16. \A i \in DOMAIN G : RlTimely(G[i], clk, bs, of)
  BY DEF RlSound
<1>17. \A i \in DOMAIN H : RlTimely(H[i], clk, Bs, of)
  <2>1. RlTimely(g, clk, Bs, of)
    BY <1>2, <1>3, <1>4, <1>5, <1>7, <1>9, <1>11 DEF RlTimely
  <2>2. \A i \in DOMAIN G : RlTimely(G[i], clk, Bs, of)
    BY <1>9, <1>11, <1>16 DEF RlTimely
  <2> QED BY <1>8, <1>13, <2>1, <2>2
<1>18. RlFills(H, Bs)
  <2>1. \A i \in DOMAIN G : G[i].bucket \in DOMAIN bs
    BY <1>16 DEF RlTimely
  <2>2. \A i \in DOMAIN H :
            H[i].fill = Bs[H[i].bucket].fill \/ Bs[H[i].bucket].fill >= H[i].fill + RlInterval
    <3>1. H[n].fill = Bs[H[n].bucket].fill
      BY <1>3, <1>7, <1>8, <1>10
    <3>2. \A i \in DOMAIN G :
              G[i].fill = bs[G[i].bucket].fill \/ bs[G[i].bucket].fill >= G[i].fill + RlInterval
      BY DEF RlSound, RlFills
    <3>3. \A i \in DOMAIN G : Bs[G[i].bucket].fill = bs[G[i].bucket].fill
      BY <1>10, <2>1
    <3>4. \A i \in DOMAIN G :
              H[i].fill = Bs[H[i].bucket].fill \/ Bs[H[i].bucket].fill >= H[i].fill + RlInterval
      BY <1>8, <3>2, <3>3
    <3> QED BY <1>13, <3>1, <3>4
  <2>3. \A i \in DOMAIN G : G[i].bucket = c => RlApart(G[i].fill, g.fill) /\ RlApart(g.fill, G[i].fill)
    BY <1>7 DEF RlSound, RlFills, RlApart
  <2>4. RlApart(g.fill, g.fill)
    BY DEF RlApart
  <2>5. \A i, j \in DOMAIN H : H[j].bucket = H[i].bucket => RlApart(H[i].fill, H[j].fill)
    BY <1>7, <1>8, <1>13, <2>3, <2>4 DEF RlSound, RlFills
  <2> QED BY <2>2, <2>5 DEF RlFills
<1>19. RlCounts(H, Bs)
  <2>1. RlGroup(H, c, bs[c].fill) = RlGroup(G, c, bs[c].fill) \cup {n}
    BY <1>7, <1>8, <1>13, <1>14 DEF RlGroup
  <2>2. n \notin RlGroup(G, c, bs[c].fill)
    BY <1>8, <1>2 DEF RlGroup, n
  <2>3. IsFiniteSet(RlGroup(G, c, bs[c].fill)) /\ Cardinality(RlGroup(G, c, bs[c].fill)) \in Nat
    BY <1>2, RlGroupFinite
  <2>4. Cardinality(RlGroup(H, c, bs[c].fill)) = Cardinality(RlGroup(G, c, bs[c].fill)) + 1
    <3> DEFINE S == RlGroup(G, c, bs[c].fill)
    <3>1. IsFiniteSet(S) /\ n \notin S
      BY <2>2, <2>3
    <3> HIDE DEF S
    <3>2. Cardinality(S \cup {n}) = Cardinality(S) + 1
      BY <3>1, FS_AddElement
    <3> QED BY <2>1, <3>2 DEF S
  <2>5. Cardinality(RlGroup(G, c, bs[c].fill)) + bs[c].tokens <= RlLimit
    BY <1>3 DEF RlSound, RlCounts
  <2>6. Cardinality(RlGroup(H, c, Bs[c].fill)) + Bs[c].tokens <= RlLimit
    <3>1. \A x, y \in Nat : x + y <= RlLimit => (x + 1) + (y - 1) <= RlLimit
      BY RlConstants
    <3> QED BY <1>3, <1>4, <1>10, <2>3, <2>4, <2>5, <3>1, Zenon
  <2>7. Cardinality(RlGroup(H, c, bs[c].fill)) <= RlLimit
    <3>1. \A x, y \in Nat : x + y <= RlLimit /\ ~(y <= 0) => x + 1 <= RlLimit
      BY RlConstants
    <3> QED BY <1>4, <2>3, <2>4, <2>5, <3>1
  <2>8. \A b, f : (b # c \/ f # bs[c].fill) => RlGroup(H, b, f) = RlGroup(G, b, f)
    BY <1>7, <1>8, <1>13, <1>14 DEF RlGroup
  <2>9. \A b \in DOMAIN Bs : Cardinality(RlGroup(H, b, Bs[b].fill)) + Bs[b].tokens <= RlLimit
    <3> SUFFICES ASSUME NEW b \in DOMAIN Bs, b # c
                 PROVE  Cardinality(RlGroup(H, b, Bs[b].fill)) + Bs[b].tokens <= RlLimit
      BY <2>6
    <3>1. RlGroup(H, b, Bs[b].fill) = RlGroup(G, b, Bs[b].fill)
      BY <2>8
    <3> QED BY <1>9, <3>1 DEF RlSound, RlCounts
  <2>10. \A b, f \in Nat : Cardinality(RlGroup(H, b, f)) <= RlLimit
    <3> SUFFICES ASSUME NEW b \in Nat, NEW f \in Nat
                 PROVE  Cardinality(RlGroup(H, b, f)) <= RlLimit
      OBVIOUS
    <3>1. CASE b = c /\ f = bs[c].fill
      BY <2>7, <3>1
    <3>2. CASE ~(b = c /\ f = bs[c].fill)
      BY <2>8, <3>2 DEF RlSound, RlCounts
    <3> QED BY <3>1, <3>2
  <2> QED BY <2>9, <2>10 DEF RlCounts
<1>20. RlMadeBefore(H, Bs)
  <2>1. \A i \in DOMAIN G : G[i].bucket \in Nat /\ G[i].bucket <= Len(bs)
    BY <1>1, <1>16, RlElements DEF RlTimely
  <2>2. \A b \in DOMAIN bs : g.made >= b
    BY <1>2, <1>3, <1>7
  <2>3. \A i \in DOMAIN H : \A b \in DOMAIN Bs : H[i].at > Bs[b].fill => H[i].made >= b
    BY <1>8, <1>9, <1>10, <1>13, <2>2 DEF RlSound, RlMadeBefore
  <2>4. \A i \in DOMAIN G : G[i].at > g.fill => G[i].made >= g.bucket
    BY <1>3, <1>7 DEF RlSound, RlMadeBefore
  <2>5. \A i \in DOMAIN G : g.made >= G[i].bucket
    BY <1>2, <1>7, <2>1
  <2>6. g.made >= g.bucket
    BY <1>2, <1>3, <1>7
  <2>7. \A i, j \in DOMAIN H : H[i].at > H[j].fill => H[i].made >= H[j].bucket
    <3> SUFFICES ASSUME NEW i \in DOMAIN H, NEW j \in DOMAIN H, H[i].at > H[j].fill
                 PROVE  H[i].made >= H[j].bucket
      OBVIOUS
    <3>1. CASE i = n
      BY <1>8, <1>13, <2>5, <2>6, <3>1
    <3>2. CASE i # n /\ j = n
      BY <1>8, <1>13, <2>4, <3>2
    <3>3. CASE i # n /\ j # n
      BY <1>8, <1>13, <3>3 DEF RlSound, RlMadeBefore
    <3> QED BY <3>1, <3>2, <3>3
  <2> QED BY <2>3, <2>7 DEF RlMadeBefore
<1>21. RlOnward(H, Q)
  <2>1. \A i \in DOMAIN H : Q[H[i].by] # 0 => Q[H[i].by] >= H[i].next
    <3> SUFFICES ASSUME NEW i \in DOMAIN H, Q[H[i].by] # 0
                 PROVE  Q[H[i].by] >= H[i].next
      OBVIOUS
    <3>1. i # n
      BY <1>7, <1>8, <1>12
    <3>2. i \in DOMAIN G /\ H[i] = G[i]
      BY <1>8, <1>13, <3>1
    <3>3. G[i].by \in Logins /\ G[i].by # q
      BY <1>1, <1>12, <3>2, RlElements
    <3> QED BY <1>12, <3>2, <3>3 DEF RlSound, RlOnward
  <2>2. \A i \in DOMAIN G : G[i].by = q => c >= G[i].next
    BY DEF RlSound, RlOnward
  <2>3. \A i, j \in DOMAIN H : (i < j /\ H[i].by = H[j].by) => H[j].bucket >= H[i].next
    <3> SUFFICES ASSUME NEW i \in DOMAIN H, NEW j \in DOMAIN H, i < j, H[i].by = H[j].by
                 PROVE  H[j].bucket >= H[i].next
      OBVIOUS
    <3>1. i \in DOMAIN G
      <4>1. i \in Nat /\ j \in Nat /\ i < j /\ j <= n
        BY <1>8, <1>13
      <4>2. i # n
        BY <1>13, <4>1
      <4> QED BY <1>13, <4>2
    <3>2. CASE j = n
      BY <1>7, <1>8, <2>2, <3>1, <3>2
    <3>3. CASE j # n
      BY <1>8, <1>13, <3>1, <3>3 DEF RlSound, RlOnward
    <3> QED BY <3>2, <3>3
  <2> QED BY <2>1, <2>3 DEF RlOnward
<1>22. RlMakers(H, Bs, Q)
  <2> SUFFICES ASSUME NEW b \in DOMAIN bs PROVE \E r \in Logins : RlMaker(H, Q, b, r)
    BY <1>9 DEF RlMakers
  <2>1. PICK r \in Logins : RlMaker(G, P, b, r)
    BY DEF RlSound, RlMakers
  <2>2. Q[r] # 0 => Q[r] >= b
    BY <1>12, <2>1 DEF RlMaker
  <2>3. \A i \in DOMAIN H : (H[i].by = r /\ H[i].made >= b) => H[i].bucket >= b
    BY <1>7, <1>8, <1>13, <2>1 DEF RlMaker
  <2> QED BY <2>2, <2>3 DEF RlMaker
<1>23. RlDropped(H, clk, Bs, of)
  <2>1. ~(g.made + 1 < Len(bs)) /\ ~(g.made < Len(bs))
    BY <1>2, <1>7
  <2>2. \A j \in DOMAIN H : ~(H[j].bucket > g.made + 1)
    <3>1. \A j \in DOMAIN H : H[j].bucket \in DOMAIN bs
      BY <1>9, <1>17 DEF RlTimely
    <3> QED BY <1>2, <1>3, <1>7, <3>1
  <2>3. \A i \in DOMAIN G : c > G[i].made + 1 => clk > G[i].at + RlMaxAge
    <3>1. \A i \in DOMAIN G : c > G[i].made + 1 => G[i].made + 1 < Len(bs)
      BY <1>1, <1>2, <1>3, RlElements
    <3> QED BY <3>1 DEF RlSound, RlDropped
  <2>4. \A i, j \in DOMAIN H : H[j].bucket > H[i].made + 1 => H[j].at > H[i].at + RlMaxAge
    <3> SUFFICES ASSUME NEW i \in DOMAIN H, NEW j \in DOMAIN H, H[j].bucket > H[i].made + 1
                 PROVE  H[j].at > H[i].at + RlMaxAge
      OBVIOUS
    <3>1. i # n
      BY <1>8, <2>2
    <3>2. CASE j = n
      BY <1>7, <1>8, <1>13, <2>3, <3>1, <3>2
    <3>3. CASE j # n
      BY <1>8, <1>13, <3>1, <3>3 DEF RlSound, RlDropped
    <3> QED BY <3>2, <3>3
  <2>5. \A i \in DOMAIN H : (H[i].made + 1 < Len(Bs) \/ (H[i].made < Len(Bs) /\ of = 0)) => clk > H[i].at + RlMaxAge
    BY <1>8, <1>9, <1>13, <2>1 DEF RlSound, RlDropped
  <2> QED BY <2>4, <2>5 DEF RlDropped
<1>24. RlOld(H, clk, Bs, of)
  <2> DEFINE nx == RlNextOf(bs, of)
  <2>1. \A i \in DOMAIN H : H[i].bucket \in Nat /\ H[i].bucket <= Len(bs)
    BY <1>3, <1>9, <1>17 DEF RlTimely
  <2>2. /\ \A k \in DOMAIN H : nx > H[k].next => k \in DOMAIN G /\ H[k] = G[k]
        /\ \A j, k \in DOMAIN H : H[j].bucket > H[k].next => nx > H[k].next
    <3>1. ~(nx > nx)
      BY <1>5
    <3>2. \A k \in DOMAIN H : nx > H[k].next => k # n
      BY <1>7, <1>8, <3>1
    <3>3. \A k \in DOMAIN H : H[k].next \in Nat
      BY <1>15, RlElements
    <3>4. \A j, k \in DOMAIN H : H[j].bucket > H[k].next => nx > H[k].next
      BY <1>2, <1>5, <2>1, <3>3
    <3> QED BY <1>8, <1>13, <3>2, <3>4
  <2>3. \A k \in DOMAIN G : nx > G[k].next => G[k].next \in DOMAIN bs
    <3>1. \A k \in DOMAIN G : G[k].next \in Nat /\ G[k].next >= G[k].made /\ G[k].made >= G[k].bucket /\ G[k].bucket >= 1
      BY <1>1, RlInOrder DEF RlSound
    <3> QED BY <1>1, <1>2, <1>3, <1>5, <3>1, RlElements
  <2>4. \A k \in DOMAIN G : nx > G[k].next =>
              /\ RlLater(bs[G[k].next].fill, G[k].at, clk)
              /\ \A i \in DOMAIN G : G[i].bucket = G[k].next => RlLater(G[i].fill, G[k].at, clk)
    BY DEF RlSound, RlOld
  <2>5. \A k \in DOMAIN G : nx > G[k].next =>
              /\ RlLater(Bs[G[k].next].fill, G[k].at, clk)
              /\ \A i \in DOMAIN H : H[i].bucket = G[k].next => RlLater(H[i].fill, G[k].at, clk)
    <3> SUFFICES ASSUME NEW k \in DOMAIN G, nx > G[k].next
                 PROVE  /\ RlLater(Bs[G[k].next].fill, G[k].at, clk)
                        /\ \A i \in DOMAIN H : H[i].bucket = G[k].next => RlLater(H[i].fill, G[k].at, clk)
      OBVIOUS
    <3>1. /\ RlLater(bs[G[k].next].fill, G[k].at, clk)
          /\ \A i \in DOMAIN G : G[i].bucket = G[k].next => RlLater(G[i].fill, G[k].at, clk)
      BY <2>4
    <3>2. RlLater(Bs[G[k].next].fill, G[k].at, clk)
      BY <1>10, <2>3, <3>1
    <3>3. ASSUME NEW i \in DOMAIN H, H[i].bucket = G[k].next
          PROVE  RlLater(H[i].fill, G[k].at, clk)
      <4>1. CASE i = n
        <5>1. H[i].bucket = c /\ H[i].fill = bs[c].fill
          BY <1>7, <1>8, <4>1
        <5> QED BY <3>1, <3>3, <5>1
      <4>2. CASE i # n
        <5>1. i \in DOMAIN G /\ H[i] = G[i]
          BY <1>8, <1>13, <4>2
        <5> QED BY <3>1, <3>3, <5>1
      <4> QED BY <4>1, <4>2
    <3> QED BY <3>2, <3>3
  <2>6. \A k \in DOMAIN G : \A i, j \in DOMAIN H :
              (H[i].bucket = G[k].next /\ H[j].bucket > G[k].next) => RlLater(H[i].fill, G[k].at, H[j].at)
    <3> SUFFICES ASSUME NEW k \in DOMAIN G, NEW i \in DOMAIN H, NEW j \in DOMAIN H,
                        H[i].bucket = G[k].next, H[j].bucket > G[k].next
                 PROVE  RlLater(H[i].fill, G[k].at, H[j].at)
      OBVIOUS
    <3>1. nx > G[k].next
      BY <1>8, <1>14, <2>2
    <3>2. RlLater(H[i].fill, G[k].at, clk)
      BY <2>5, <3>1
    <3>3. CASE j = n
      BY <1>7, <1>8, <3>2, <3>3
    <3>4. CASE i = n
      <4>1. ~(clk > bs[c].fill + RlMaxAge)
        BY <1>2, <1>4, RlConstants
      <4>2. H[i].fill = bs[c].fill
        BY <1>7, <1>8, <3>4
      <4> QED BY <3>2, <4>1, <4>2 DEF RlLater
    <3>5. CASE i # n /\ j # n
      BY <1>8, <1>13, <3>5 DEF RlSound, RlOld
    <3> QED BY <3>3, <3>4, <3>5
  <2>7. \A k \in DOMAIN H : \A i, j \in DOMAIN H :
              (H[i].bucket = H[k].next /\ H[j].bucket > H[k].next) => RlLater(H[i].fill, H[k].at, H[j].at)
    BY <2>2, <2>6
  <2>8. \A k \in DOMAIN H : nx > H[k].next =>
              /\ RlLater(Bs[H[k].next].fill, H[k].at, clk)
              /\ \A i \in DOMAIN H : H[i].bucket = H[k].next => RlLater(H[i].fill, H[k].at, clk)
    BY <2>2, <2>5
  <2> QED BY <1>11, <2>7, <2>8 DEF RlOld
<1>25. RlSound(H, clk, Bs, of, Q)
  BY <1>15, <1>17, <1>18, <1>19, <1>20, <1>21, <1>22, <1>23, <1>24 DEF RlSound
<1> QED BY <1>25 DEF H, Bs, Q, g

-----------------------------------------------------------------------------
(* The limiter: how many requests pass within an interval                  *)

\* What was said of the requests alone.
RlOneMakes(G, b) ==
    \E q \in Logins : \A i \in DOMAIN G : (G[i].by = q /\ G[i].made >= b) => G[i].bucket >= b

RlHistory(G) ==
    /\ G \in Seq(RlGrants)
    /\ \A i \in DOMAIN G :
         /\ G[i].fill <= G[i].at /\ G[i].at < G[i].fill + RlInterval
         /\ 1 <= G[i].bucket /\ G[i].bucket <= G[i].made
         /\ G[i].next = G[i].made \/ G[i].next = G[i].made + 1
         /\ RlOneMakes(G, G[i].bucket) /\ RlOneMakes(G, G[i].made)
    /\ \A i, j \in DOMAIN G :
         /\ G[j].bucket = G[i].bucket => RlApart(G[i].fill, G[j].fill)
         /\ G[i].at > G[j].fill => G[i].made >= G[j].bucket
         /\ (i < j /\ G[i].by = G[j].by) => G[j].bucket >= G[i].next
         /\ G[j].bucket > G[i].made + 1 => G[j].at > G[i].at + RlMaxAge
    /\ \A b, f \in Nat : Cardinality(RlGroup(G, b, f)) <= RlLimit
    /\ \A i, j, k \in DOMAIN G :
         (G[i].bucket = G[k].next /\ G[j].bucket > G[k].next) => RlLater(G[i].fill, G[k].at, G[j].at)

LEMMA RlHistoryIs ==
    ASSUME NEW G, NEW clk, NEW bs, NEW of, NEW P, RlSound(G, clk, bs, of, P)
    PROVE  RlHistory(G)
<1>1. RlTypes(G, clk, bs, of, P)
  BY DEF RlSound
<1>2. G \in Seq(RlGrants)
  BY <1>1 DEF RlTypes
<1>3. \A i \in DOMAIN G : RlTimely(G[i], clk, bs, of)
  BY DEF RlSound
<1>4. \A b \in DOMAIN bs : RlOneMakes(G, b)
  BY DEF RlSound, RlMakers, RlMaker, RlOneMakes
<1>5. \A i \in DOMAIN G : /\ G[i].bucket \in DOMAIN bs /\ G[i].made \in DOMAIN bs
                          /\ 1 <= G[i].bucket /\ G[i].bucket <= G[i].made
  BY <1>1, <1>3, RlElements DEF RlTimely
<1>6. \A i \in DOMAIN G :
         /\ G[i].fill <= G[i].at /\ G[i].at < G[i].fill + RlInterval
         /\ 1 <= G[i].bucket /\ G[i].bucket <= G[i].made
         /\ G[i].next = G[i].made \/ G[i].next = G[i].made + 1
         /\ RlOneMakes(G, G[i].bucket) /\ RlOneMakes(G, G[i].made)
  BY <1>3, <1>4, <1>5 DEF RlTimely
<1>7. \A i, j \in DOMAIN G :
         /\ G[j].bucket = G[i].bucket => RlApart(G[i].fill, G[j].fill)
         /\ G[i].at > G[j].fill => G[i].made >= G[j].bucket
         /\ (i < j /\ G[i].by = G[j].by) => G[j].bucket >= G[i].next
         /\ G[j].bucket > G[i].made + 1 => G[j].at > G[i].at + RlMaxAge
  BY DEF RlSound, RlFills, RlMadeBefore, RlOnward, RlDropped
<1>8. \A b, f \in Nat : Cardinality(RlGroup(G, b, f)) <= RlLimit
  BY DEF RlSound, RlCounts
<1>9. \A i, j, k \in DOMAIN G :
         (G[i].bucket = G[k].next /\ G[j].bucket > G[k].next) => RlLater(G[i].fill, G[k].at, G[j].at)
  BY DEF RlSound, RlOld
<1> QED BY <1>2, <1>6, <1>7, <1>8, <1>9 DEF RlHistory

LEMMA RlHistoryElements ==
    ASSUME NEW G, RlHistory(G)
    PROVE  /\ \A i \in DOMAIN G : /\ i \in Nat /\ G[i].at \in Nat /\ G[i].bucket \in Nat /\ G[i].fill \in Nat
                                  /\ G[i].by \in Logins /\ G[i].made \in Nat /\ G[i].next \in Nat
           /\ Len(G) \in Nat /\ DOMAIN G = 1..Len(G)
<1>1. Len(G) \in Nat /\ DOMAIN G = 1..Len(G) /\ \A i \in DOMAIN G : G[i] \in RlGrants
  BY DEF RlHistory
<1> QED BY <1>1 DEF RlGrants

\* A set of naturals with a bound has a greatest element.
LEMMA GreatestBelow ==
    ASSUME NEW n \in Nat, NEW S \in SUBSET (0..n), S # {}
    PROVE  \E i \in S : \A j \in S : j <= i
<1> DEFINE T == {n - s : s \in S}
<1>1. T \subseteq Nat /\ T # {}
  <2>1. \A s \in S : n - s \in Nat
    OBVIOUS
  <2> QED BY <2>1
<1>2. PICK x \in T : \A y \in T : ~(<<y, x>> \in OpToRel(<, Nat))
  BY <1>1, NatLessThanWellFounded, WFMin
<1>3. x \in Nat /\ \A y \in T : y \in Nat /\ ~(y < x)
  BY <1>1, <1>2 DEF OpToRel
<1>4. PICK i \in S : x = n - i
  BY <1>2
<1>5. \A j \in S : ~(n - j < n - i)
  BY <1>3, <1>4
<1>6. \A j \in S : j \in Nat
  OBVIOUS
<1>7. \A j \in Nat : ~(n - j < n - i) => j <= i
  BY <1>6
<1> QED BY <1>5, <1>6, <1>7

\* Requests of different logins.
LEMMA RlOfDifferentLogins ==
    ASSUME NEW G, RlHistory(G), NEW R \in SUBSET (DOMAIN G), NEW S \in SUBSET Logins,
           \A i \in R : G[i].by \in S,
           \A i, j \in R : i < j => G[i].by # G[j].by
    PROVE  IsFiniteSet(R) /\ Cardinality(R) <= Cardinality(S)
<1>1. R \in SUBSET (1..Len(G)) /\ Len(G) \in Nat
  BY RlHistoryElements
<1>2. IsFiniteSet(R) /\ Cardinality(R) \in Nat
  <2>1. IsFiniteSet(R)
    BY <1>1, FS_Interval, FS_Subset
  <2> QED BY <2>1, FS_CardinalityType
<1>3. IsFiniteSet(S) /\ Cardinality(S) \in Nat
  <2>1. IsFiniteSet(S)
    BY RlConstants, FS_Subset
  <2> QED BY <2>1, FS_CardinalityType
<1> DEFINE f == [i \in R |-> G[i].by]
<1>4. f \in [R -> S]
  OBVIOUS
<1>5. \A x, y \in R : x # y => f[x] # f[y]
  <2>1. \A x, y \in R : x \in Nat /\ y \in Nat
    BY <1>1
  <2>2. \A x, y \in R : x # y => (x < y \/ y < x)
    BY <2>1
  <2> QED BY <2>2
<1> HIDE DEF f
<1>6. ~(Cardinality(S) < Cardinality(R))
  BY <1>2, <1>3, <1>4, <1>5, FS_PigeonHole
<1> QED BY <1>2, <1>3, <1>6

\* Requests with tokens of one filling.
LEMMA RlOfOneFilling ==
    ASSUME NEW G, RlHistory(G), NEW R \in SUBSET (DOMAIN G),
           \A i, j \in R : G[i].bucket = G[j].bucket /\ G[i].fill = G[j].fill
    PROVE  IsFiniteSet(R) /\ Cardinality(R) <= RlLimit
<1>1. CASE R = {}
  BY <1>1, FS_EmptySet, RlConstants
<1>2. CASE R # {}
  <2>1. PICK k \in R : TRUE
    BY <1>2
  <2> DEFINE b == G[k].bucket
             f == G[k].fill
  <2>2. b \in Nat /\ f \in Nat
    BY RlHistoryElements
  <2>3. R \in SUBSET RlGroup(G, b, f)
    BY DEF RlGroup
  <2> HIDE DEF b, f
  <2>4. G \in Seq(RlGrants) /\ Cardinality(RlGroup(G, b, f)) <= RlLimit
    BY <2>2 DEF RlHistory
  <2>5. IsFiniteSet(RlGroup(G, b, f)) /\ Cardinality(RlGroup(G, b, f)) \in Nat
    BY <2>4, RlGroupFinite
  <2>6. IsFiniteSet(R) /\ Cardinality(R) <= Cardinality(RlGroup(G, b, f))
    BY <2>3, <2>5, FS_Subset
  <2>7. Cardinality(R) \in Nat
    BY <2>6, FS_CardinalityType
  <2> QED BY <2>4, <2>5, <2>6, <2>7, RlConstants
<1> QED BY <1>1, <1>2

\* A set of two parts has at most the elements of both.
LEMMA TwoParts ==
    ASSUME NEW A, NEW B, IsFiniteSet(A), IsFiniteSet(B), NEW a \in Nat, NEW b \in Nat,
           Cardinality(A) <= a, Cardinality(B) <= b
    PROVE  IsFiniteSet(A \cup B) /\ Cardinality(A \cup B) <= a + b
<1>1. Cardinality(A) \in Nat /\ Cardinality(B) \in Nat
  BY FS_CardinalityType
<1>2. IsFiniteSet(A \cap B)
  BY FS_Subset
<1>3. Cardinality(A \cap B) \in Nat
  BY <1>2, FS_CardinalityType
<1>4. /\ IsFiniteSet(A \cup B)
      /\ Cardinality(A \cup B) = Cardinality(A) + Cardinality(B) - Cardinality(A \cap B)
  BY FS_Union
<1> QED BY <1>1, <1>3, <1>4

\* All logins but one.
LEMMA AllButOne ==
    ASSUME NEW q \in Logins
    PROVE  /\ Cardinality(Logins \ {q}) = Cardinality(Logins) - 1
           /\ Cardinality(Logins) \in Nat /\ Cardinality(Logins) - 1 \in Nat
<1>1. IsFiniteSet(Logins)
  BY RlConstants
<1>2. Cardinality(Logins \ {q}) = Cardinality(Logins) - 1 /\ IsFiniteSet(Logins \ {q})
  BY <1>1, FS_RemoveElement
<1>3. Cardinality(Logins) \in Nat /\ Cardinality(Logins \ {q}) \in Nat
  BY <1>1, <1>2, FS_CardinalityType
<1> QED BY <1>2, <1>3

\* The requests of an interval, when whoever takes a token from now on has the
\* newest bucket among theirs, or a newer one: this bucket was filled at most
\* twice for them, and the older ones gave each login one token.
LEMMA RlWithNewest ==
    ASSUME NEW G, RlHistory(G), NEW t \in Nat, NEW W \in SUBSET (DOMAIN G), NEW w \in W,
           \A i \in W : t <= G[i].at /\ G[i].at <= t + RlInterval - 1,
           \A i \in W : G[i].bucket <= G[w].bucket /\ G[i].next >= G[w].bucket
    PROVE  Cardinality(W) <= 2 * RlLimit + Cardinality(Logins) - 1
<1> DEFINE m == G[w].bucket
           A == {i \in W : G[i].bucket < m}
           B == {i \in W : G[i].bucket = m}
<1>1. /\ \A i \in W : /\ i \in DOMAIN G /\ G[i].at \in Nat /\ G[i].bucket \in Nat /\ G[i].fill \in Nat
                      /\ G[i].by \in Logins /\ G[i].made \in Nat /\ G[i].next \in Nat
      /\ m \in Nat /\ w \in DOMAIN G
  BY RlHistoryElements
<1>2. W = A \cup B
  <2>1. \A i \in W : G[i].bucket < m \/ G[i].bucket = m
    BY <1>1
  <2> QED BY <2>1
<1>3. \A i, j \in A : i < j => G[i].by # G[j].by
  <2> SUFFICES ASSUME NEW i \in A, NEW j \in A, i < j, G[i].by = G[j].by PROVE FALSE
    OBVIOUS
  <2>1. G[j].bucket >= G[i].next
    BY DEF RlHistory
  <2>2. G[j].bucket < m /\ G[i].next >= m
    OBVIOUS
  <2> QED BY <1>1, <2>1, <2>2
<1>4. A \subseteq DOMAIN G /\ B \subseteq DOMAIN G
  OBVIOUS
<1>5. Cardinality(Logins) \in Nat /\ RlLimit \in Nat /\ RlLimit >= 1
  BY RlConstants, FS_CardinalityType
<1>6. CASE \A i, j \in B : G[i].fill = G[j].fill
  <2>1. IsFiniteSet(B) /\ Cardinality(B) <= RlLimit
    BY <1>4, <1>6, RlOfOneFilling
  <2>2. \A i \in A : G[i].by \in Logins
    BY <1>1
  <2>3. IsFiniteSet(A) /\ Cardinality(A) <= Cardinality(Logins)
    BY <1>3, <1>4, <2>2, RlOfDifferentLogins
  <2>4. Cardinality(A \cup B) <= Cardinality(Logins) + RlLimit
    BY <1>5, <2>1, <2>3, TwoParts
  <2>5. IsFiniteSet(A \cup B)
    BY <1>5, <2>1, <2>3, TwoParts
  <2>6. Cardinality(W) \in Nat /\ Cardinality(W) <= Cardinality(Logins) + RlLimit
    BY <1>2, <2>4, <2>5, FS_CardinalityType
  <2> HIDE DEF A, B, m
  <2> QED BY <1>5, <2>6
<1>7. CASE \E i, j \in B : G[i].fill # G[j].fill
  <2>1. \A i, j \in B : RlApart(G[i].fill, G[j].fill)
    BY <1>4 DEF RlHistory
  <2>2. \A i \in B : /\ G[i].fill \in Nat /\ G[i].at \in Nat /\ G[i].fill <= G[i].at
                     /\ G[i].at < G[i].fill + RlInterval /\ t <= G[i].at /\ G[i].at <= t + RlInterval - 1
    BY <1>1 DEF RlHistory
  <2>3. PICK l, h \in B : G[h].fill >= G[l].fill + RlInterval
    BY <1>7, <2>1 DEF RlApart
  <2> DEFINE lo == G[l].fill
             hi == G[h].fill
  <2>4. lo \in Nat /\ hi \in Nat /\ hi >= lo + RlInterval /\ lo < t /\ t < lo + RlInterval /\ hi <= t + RlInterval - 1
    <3>1. lo \in Nat /\ hi \in Nat /\ hi >= lo + RlInterval
      BY <2>2, <2>3
    <3>2. G[l].at \in Nat /\ G[h].at \in Nat /\ hi <= G[h].at /\ G[h].at <= t + RlInterval - 1
          /\ t <= G[l].at /\ G[l].at < lo + RlInterval
      BY <2>2
    <3> HIDE DEF lo, hi
    <3> QED BY <3>1, <3>2, RlConstants
  <2>5. \A f, a \in Nat :
            (/\ f <= a /\ a < f + RlInterval /\ t <= a /\ a <= t + RlInterval - 1
             /\ RlApart(f, lo) /\ RlApart(f, hi)) => (f = lo \/ f = hi)
    <3> HIDE DEF lo, hi
    <3> QED BY <2>4, RlConstants DEF RlApart
  <2>6. \A i \in B : G[i].fill = lo \/ G[i].fill = hi
    BY <2>1, <2>2, <2>5
  <2> DEFINE C == {i \in B : G[i].fill = lo}
             D == {i \in B : G[i].fill = hi}
  <2>7. IsFiniteSet(C) /\ Cardinality(C) <= RlLimit
    <3>1. C \subseteq DOMAIN G /\ \A i, j \in C : G[i].bucket = G[j].bucket /\ G[i].fill = G[j].fill
      BY <1>4
    <3> QED BY <3>1, RlOfOneFilling
  <2>8. IsFiniteSet(D) /\ Cardinality(D) <= RlLimit
    <3>1. D \subseteq DOMAIN G /\ \A i, j \in D : G[i].bucket = G[j].bucket /\ G[i].fill = G[j].fill
      BY <1>4
    <3> QED BY <3>1, RlOfOneFilling
  <2>9. \A i \in W : G[i].made >= m
    <3> SUFFICES ASSUME NEW i \in W PROVE G[i].made >= m
      OBVIOUS
    <3>1. G[i].at \in Nat /\ t <= G[i].at
      BY <1>1
    <3>2. G[i].at > G[l].fill
      BY <2>4, <3>1
    <3>3. G[i].made >= G[l].bucket
      BY <1>1, <1>4, <3>2 DEF RlHistory
    <3> QED BY <3>3
  <2>10. PICK q \in Logins : \A i \in DOMAIN G : (G[i].by = q /\ G[i].made >= m) => G[i].bucket >= m
    BY <1>1 DEF RlHistory, RlOneMakes
  <2>11. \A i \in A : G[i].by \in Logins \ {q}
    <3> SUFFICES ASSUME NEW i \in A PROVE G[i].by # q
      BY <1>1
    <3>1. ~(G[i].bucket >= m) /\ G[i].made >= m
      BY <1>1, <2>9
    <3> QED BY <1>4, <2>10, <3>1
  <2>12. IsFiniteSet(A) /\ Cardinality(A) <= Cardinality(Logins \ {q})
    BY <1>3, <1>4, <2>11, RlOfDifferentLogins
  <2>13. /\ Cardinality(Logins \ {q}) = Cardinality(Logins) - 1 /\ Cardinality(Logins) - 1 \in Nat
    BY AllButOne
  <2>14. B = C \cup D
    BY <2>6
  <2>15. IsFiniteSet(B) /\ Cardinality(B) <= RlLimit + RlLimit
    <3> HIDE DEF B, C, D
    <3> QED BY <1>5, <2>7, <2>8, <2>14, TwoParts
  <2>16. RlLimit + RlLimit \in Nat
    BY <1>5
  <2>17. IsFiniteSet(W) /\ Cardinality(W) <= (Cardinality(Logins) - 1) + (RlLimit + RlLimit)
    <3> HIDE DEF A, B
    <3> QED BY <1>2, <2>12, <2>13, <2>15, <2>16, TwoParts
  <2>18. Cardinality(W) \in Nat
    BY <2>17, FS_CardinalityType
  <2> HIDE DEF A, B, m
  <2> QED BY <1>5, <2>17, <2>18
<1> QED BY <1>6, <1>7

\* The requests of an interval, when one of them is followed by a new bucket:
\* this bucket and the one before it were filled once for them.
LEMMA RlWithOlder ==
    ASSUME NEW G, RlHistory(G), NEW t \in Nat, NEW W \in SUBSET (DOMAIN G), NEW w \in W, NEW k \in W,
           \A i \in W : t <= G[i].at /\ G[i].at <= t + RlInterval - 1,
           \A i \in W : G[i].bucket <= G[w].bucket /\ G[w].bucket <= G[i].made + 1,
           G[k].next < G[w].bucket
    PROVE  Cardinality(W) <= 2 * RlLimit + Cardinality(Logins) - 1
<1> DEFINE m == G[w].bucket
           o == G[k].made
           A == {i \in W : G[i].bucket < o}
           B == {i \in W : G[i].bucket = o}
           C == {i \in W : G[i].bucket = m}
<1>1. /\ \A i \in W : /\ i \in DOMAIN G /\ G[i].at \in Nat /\ G[i].bucket \in Nat /\ G[i].fill \in Nat
                      /\ G[i].by \in Logins /\ G[i].made \in Nat /\ G[i].next \in Nat
      /\ m \in Nat /\ o \in Nat
  BY RlHistoryElements
<1>2. G[k].next = o /\ m = o + 1
  <2>1. G[k].next = o \/ G[k].next = o + 1
    BY <1>1 DEF RlHistory
  <2>2. m <= o + 1 /\ G[k].next < m /\ G[k].next \in Nat
    BY <1>1
  <2> HIDE DEF m, o
  <2> QED BY <1>1, <2>1, <2>2
<1>3. W = A \cup (B \cup C)
  <2>1. \A i \in W : G[i].bucket < o \/ G[i].bucket = o \/ G[i].bucket = m
    <3>1. \A i \in W : G[i].bucket \in Nat /\ G[i].bucket <= m
      BY <1>1
    <3> HIDE DEF m, o
    <3> QED BY <1>1, <1>2, <3>1
  <2> QED BY <2>1
<1>4. A \subseteq DOMAIN G /\ B \subseteq DOMAIN G /\ C \subseteq DOMAIN G
  OBVIOUS
<1>5. Cardinality(Logins) \in Nat /\ RlLimit \in Nat /\ RlLimit >= 1
  BY RlConstants, FS_CardinalityType
<1>6. \A i \in W : G[i].made >= o /\ G[i].next >= o
  <2> SUFFICES ASSUME NEW i \in W PROVE G[i].made >= o /\ G[i].next >= o
    OBVIOUS
  <2>1. m <= G[i].made + 1 /\ G[i].made \in Nat /\ G[i].next \in Nat
    BY <1>1
  <2>2. G[i].next = G[i].made \/ G[i].next = G[i].made + 1
    BY <1>1 DEF RlHistory
  <2> HIDE DEF m, o
  <2> QED BY <1>1, <1>2, <2>1, <2>2
<1>7. \A i \in W : /\ G[i].fill \in Nat /\ G[i].at \in Nat /\ G[i].fill <= G[i].at
                   /\ G[i].at < G[i].fill + RlInterval /\ t <= G[i].at /\ G[i].at <= t + RlInterval - 1
  BY <1>1 DEF RlHistory
<1>8. \A i, j \in W : (G[i].bucket = G[j].bucket /\ G[i].fill >= t /\ G[j].fill >= t) => G[i].fill = G[j].fill
  <2> SUFFICES ASSUME NEW i \in W, NEW j \in W, G[i].bucket = G[j].bucket, G[i].fill >= t, G[j].fill >= t
               PROVE  G[i].fill = G[j].fill
    OBVIOUS
  <2>1. RlApart(G[i].fill, G[j].fill)
    BY <1>1 DEF RlHistory
  <2>2. \A f, h \in Nat : (RlApart(f, h) /\ f >= t /\ h >= t /\ f <= t + RlInterval - 1 /\ h <= t + RlInterval - 1) => f = h
    BY RlConstants DEF RlApart
  <2>3. \A f, a \in Nat : (f <= a /\ a <= t + RlInterval - 1) => f <= t + RlInterval - 1
    BY RlConstants
  <2> QED BY <1>7, <2>1, <2>2, <2>3
<1>9. \A i \in C : G[i].fill >= t
  <2> SUFFICES ASSUME NEW i \in C PROVE G[i].fill >= t
    OBVIOUS
  <2>1. ~(o >= m)
    BY <1>1, <1>2
  <2>2. ~(G[k].at > G[i].fill)
    BY <1>1, <2>1 DEF RlHistory
  <2> QED BY <1>7, <2>2
<1>10. \A i \in B : G[i].fill >= t
  <2> SUFFICES ASSUME NEW i \in B PROVE G[i].fill >= t
    OBVIOUS
  <2>1. G[i].bucket = G[k].next /\ G[w].bucket > G[k].next
    BY <1>2
  <2>2. RlLater(G[i].fill, G[k].at, G[w].at)
    BY <1>1, <2>1 DEF RlHistory
  <2>3. \A f, a, b, e \in Nat :
            (/\ RlLater(f, a, b) /\ t <= a /\ b <= t + RlInterval - 1
             /\ t <= e /\ e < f + RlInterval) => f >= t
    BY RlConstants DEF RlLater
  <2>4. i \in W /\ G[i].at \in Nat /\ G[k].at \in Nat /\ G[w].at \in Nat /\ G[i].fill \in Nat
    BY <1>1
  <2>5. t <= G[k].at /\ G[w].at <= t + RlInterval - 1 /\ t <= G[i].at /\ G[i].at < G[i].fill + RlInterval
    BY <1>7, <2>4
  <2> QED BY <2>2, <2>3, <2>4, <2>5
<1>11. IsFiniteSet(C) /\ Cardinality(C) <= RlLimit
  <2>1. \A i, j \in C : G[i].bucket = G[j].bucket /\ G[i].fill = G[j].fill
    BY <1>8, <1>9
  <2> QED BY <1>4, <2>1, RlOfOneFilling
<1>12. IsFiniteSet(B) /\ Cardinality(B) <= RlLimit
  <2>1. \A i, j \in B : G[i].bucket = G[j].bucket /\ G[i].fill = G[j].fill
    BY <1>8, <1>10
  <2> QED BY <1>4, <2>1, RlOfOneFilling
<1>13. \A i, j \in A : i < j => G[i].by # G[j].by
  <2> SUFFICES ASSUME NEW i \in A, NEW j \in A, i < j, G[i].by = G[j].by PROVE FALSE
    OBVIOUS
  <2>1. G[j].bucket >= G[i].next
    BY DEF RlHistory
  <2>2. G[j].bucket < o /\ G[i].next >= o
    BY <1>6
  <2> QED BY <1>1, <2>1, <2>2
<1>14. PICK q \in Logins : \A i \in DOMAIN G : (G[i].by = q /\ G[i].made >= o) => G[i].bucket >= o
  BY <1>1 DEF RlHistory, RlOneMakes
<1>15. \A i \in A : G[i].by \in Logins \ {q}
  <2> SUFFICES ASSUME NEW i \in A PROVE G[i].by # q
    BY <1>1
  <2>1. ~(G[i].bucket >= o) /\ G[i].made >= o
    BY <1>1, <1>6
  <2> QED BY <1>4, <1>14, <2>1
<1>16. IsFiniteSet(A) /\ Cardinality(A) <= Cardinality(Logins \ {q})
  BY <1>4, <1>13, <1>15, RlOfDifferentLogins
<1>17. /\ Cardinality(Logins \ {q}) = Cardinality(Logins) - 1 /\ Cardinality(Logins) - 1 \in Nat
  BY AllButOne
<1> HIDE DEF A, B, C
<1>18. IsFiniteSet(B \cup C) /\ Cardinality(B \cup C) <= RlLimit + RlLimit
  BY <1>5, <1>11, <1>12, TwoParts
<1>19. RlLimit + RlLimit \in Nat
  BY <1>5
<1>20. IsFiniteSet(W) /\ Cardinality(W) <= (Cardinality(Logins) - 1) + (RlLimit + RlLimit)
  BY <1>3, <1>16, <1>17, <1>18, <1>19, TwoParts
<1>21. Cardinality(W) \in Nat
  BY <1>20, FS_CardinalityType
<1> QED BY <1>5, <1>20, <1>21

LEMMA RlBound ==
    ASSUME NEW G, RlHistory(G), NEW t \in Nat, NEW W \in SUBSET (DOMAIN G),
           \A i \in W : t <= G[i].at /\ G[i].at <= t + RlInterval - 1
    PROVE  Cardinality(W) <= 2 * RlLimit + Cardinality(Logins) - 1
<1>1. CASE W = {}
  <2>1. Cardinality(Logins) \in Nat /\ RlLimit \in Nat /\ RlLimit >= 1
    BY RlConstants, FS_CardinalityType
  <2> QED BY <1>1, <2>1, FS_EmptySet
<1>2. CASE W # {}
  <2>1. \A i \in W : i \in DOMAIN G /\ G[i].at \in Nat /\ G[i].bucket \in Nat /\ G[i].made \in Nat /\ G[i].next \in Nat
    BY RlHistoryElements
  <2>2. \A i, j \in W : G[j].bucket <= G[i].made + 1
    <3> SUFFICES ASSUME NEW i \in W, NEW j \in W, G[j].bucket > G[i].made + 1 PROVE FALSE
      BY <2>1
    <3>1. G[j].at > G[i].at + RlMaxAge
      BY <2>1 DEF RlHistory
    <3>2. G[i].at \in Nat /\ G[j].at \in Nat /\ t <= G[i].at /\ G[j].at <= t + RlInterval - 1
      BY <2>1
    <3> QED BY <3>1, <3>2, RlConstants
  <2>3. PICK e \in W : TRUE
    BY <1>2
  <2> DEFINE n == G[e].made + 1
             S == {G[j].bucket : j \in W}
  <2>4. n \in Nat /\ S \in SUBSET (0..n) /\ S # {}
    <3>1. n \in Nat
      BY <2>1
    <3>2. \A j \in W : G[j].bucket \in 0..n
      BY <2>1, <2>2, <3>1
    <3> QED BY <1>2, <3>1, <3>2
  <2>5. \E b \in S : \A c \in S : c <= b
    <3> HIDE DEF n, S
    <3> QED BY <2>4, GreatestBelow
  <2>6. PICK w \in W : \A j \in W : G[j].bucket <= G[w].bucket
    BY <2>5
  <2>7. CASE \A i \in W : G[i].next >= G[w].bucket
    BY <2>6, <2>7, RlWithNewest
  <2>8. CASE \E k \in W : G[k].next < G[w].bucket
    BY <2>2, <2>6, <2>8, RlWithOlder
  <2> QED BY <2>1, <2>7, <2>8
<1> QED BY <1>1, <1>2

-----------------------------------------------------------------------------
(* The limiter and the failures                                            *)

RlLoginStates == {"idle", "take", "check", "failed", "block", "blocked"}
RlLogins == [pc: RlLoginStates, bucket: Nat, no: Nat, at: Nat]
RlFailures == [no: Nat, at: Nat]
RlPending(l) == [q \in Logins |-> IF l[q].pc = "take" THEN l[q].bucket ELSE 0]

\* G says of the requests that passed when they did, and more.
RlTells(G, gs) ==
    G \in Seq(RlGrants) /\ gs \in Seq(Nat) /\ Len(G) = Len(gs) /\ \A i \in DOMAIN G : G[i].at = gs[i]

RateTypes ==
    /\ rlClock \in Nat /\ rlCount \in Nat /\ login \in [Logins -> RlLogins] /\ fails \subseteq RlFailures
    /\ \A q \in Logins : /\ login[q].pc = "take" => login[q].bucket # 0
                         /\ login[q].at <= rlClock
                         /\ login[q].pc = "blocked" => inSet

RateKept(G) == RlTells(G, grants) /\ RlSound(G, rlClock, buckets, bucketOf, RlPending(login))
RateInv == RateTypes /\ \E G \in Seq(RlGrants) : RateKept(G)

\* What one login does changes what it is about to take from.
LEMMA RlPendingWith ==
    ASSUME NEW l \in [Logins -> RlLogins], NEW q \in Logins, NEW r \in RlLogins
    PROVE  /\ RlPending([l EXCEPT ![q] = r]) = [RlPending(l) EXCEPT ![q] = IF r.pc = "take" THEN r.bucket ELSE 0]
           /\ (l[q].pc # "take" /\ r.pc # "take") => RlPending([l EXCEPT ![q] = r]) = RlPending(l)
           /\ [l EXCEPT ![q] = r] \in [Logins -> RlLogins]
BY DEF RlPending

LEMMA RlRecords ==
    /\ NoLogin \in RlLogins /\ NoLogin.pc = "idle" /\ NoLogin.bucket = 0 /\ NoLogin.at = 0
    /\ \A b, n \in Nat : [pc |-> "take", bucket |-> b, no |-> n, at |-> 0] \in RlLogins
<1>1. NoLogin \in RlLogins /\ NoLogin.pc = "idle" /\ NoLogin.bucket = 0 /\ NoLogin.at = 0
  BY DEF NoLogin, RlLogins, RlLoginStates
<1>2. \A b, n \in Nat : [pc |-> "take", bucket |-> b, no |-> n, at |-> 0] \in RlLogins
  BY DEF RlLogins, RlLoginStates
<1> QED BY <1>1, <1>2

LEMMA RlRecordWith ==
    ASSUME NEW r \in RlLogins, NEW p \in RlLoginStates
    PROVE  /\ [r EXCEPT !.pc = p] \in RlLogins /\ [r EXCEPT !.pc = p].pc = p
           /\ [r EXCEPT !.pc = p].bucket = r.bucket /\ [r EXCEPT !.pc = p].at = r.at
BY DEF RlLogins

LEMMA RlRecordFailedAt ==
    ASSUME NEW r \in RlLogins, NEW t \in Nat
    PROVE  /\ [r EXCEPT !.pc = "failed", !.at = t] \in RlLogins
           /\ [r EXCEPT !.pc = "failed", !.at = t].pc = "failed"
           /\ [r EXCEPT !.pc = "failed", !.at = t].at = t
BY DEF RlLogins, RlLoginStates

LEMMA RateInitHolds == ASSUME RlInit PROVE RateInv
<1> DEFINE P == RlPending(login)
<1>1. RateTypes
  BY RlRecords DEF RlInit, RateTypes
<1>2. P = [q \in Logins |-> 0]
  BY RlRecords DEF RlInit, RlPending
<1>3. P \in [Logins -> 0..0] /\ \A q \in Logins : P[q] = 0
  BY <1>2
<1>4. buckets = << >> /\ bucketOf = 0 /\ rlClock = 0 /\ Len(buckets) = 0 /\ DOMAIN buckets = {}
  BY DEF RlInit
<1> HIDE DEF P
<1>5. RlTypes(<< >>, rlClock, buckets, bucketOf, P)
  BY <1>3, <1>4 DEF RlTypes
<1>6. RlCounts(<< >>, buckets)
  <2>1. \A b, f : Cardinality(RlGroup(<< >>, b, f)) = 0
    <3>1. \A b, f : RlGroup(<< >>, b, f) = {}
      BY DEF RlGroup
    <3> QED BY <3>1, FS_EmptySet
  <2> QED BY <1>4, <2>1, RlConstants DEF RlCounts
<1>7. DOMAIN << >> = {}
  OBVIOUS
<1>8. /\ \A i \in DOMAIN << >> : RlTimely(<< >>[i], rlClock, buckets, bucketOf)
      /\ RlFills(<< >>, buckets) /\ RlMadeBefore(<< >>, buckets) /\ RlOnward(<< >>, P)
      /\ RlMakers(<< >>, buckets, P)
      /\ RlDropped(<< >>, rlClock, buckets, bucketOf) /\ RlOld(<< >>, rlClock, buckets, bucketOf)
  BY <1>4, <1>7 DEF RlFills, RlMadeBefore, RlOnward, RlMakers, RlDropped, RlOld
<1>9. RlSound(<< >>, rlClock, buckets, bucketOf, P)
  BY <1>5, <1>6, <1>8 DEF RlSound
<1>10. RlTells(<< >>, grants)
  BY DEF RlTells, RlInit
<1>11. << >> \in Seq(RlGrants)
  OBVIOUS
<1>12. RateKept(<< >>)
  BY <1>9, <1>10 DEF RateKept, P
<1> QED BY <1>1, <1>11, <1>12 DEF RateInv

LEMMA FindBucketKeeps ==
    ASSUME RateInv, NEW q \in Logins, FindBucket(q)
    PROVE  RateInv'
<1> USE DEF RateInv
<1>1. PICK G \in Seq(RlGrants) : RateKept(G)
  OBVIOUS
<1>2. RlTells(G, grants) /\ RlSound(G, rlClock, buckets, bucketOf, RlPending(login))
  BY <1>1 DEF RateKept
<1>3. /\ bucketOf \in {0, Len(buckets)} /\ Len(buckets) \in Nat
  <2>1. RlTypes(G, rlClock, buckets, bucketOf, RlPending(login))
    BY <1>2 DEF RlSound
  <2> QED BY <2>1, RlElements DEF RlTypes
<1>4. bucketOf' \in Nat /\ bucketOf' # 0
  BY <1>3 DEF FindBucket
<1> DEFINE r == [pc |-> "take", bucket |-> bucketOf', no |-> rlCount', at |-> 0]
<1>5. rlCount' \in Nat /\ r \in RlLogins /\ r.pc = "take" /\ r.bucket = bucketOf' /\ r.at = 0
  BY <1>4, RlRecords DEF FindBucket, RateTypes
<1>6. login' = [login EXCEPT ![q] = r]
  BY DEF FindBucket
<1> HIDE DEF r
<1>7. RlPending(login') = [RlPending(login) EXCEPT ![q] = bucketOf'] /\ login' \in [Logins -> RlLogins]
  <2>1. login \in [Logins -> RlLogins]
    BY DEF RateTypes
  <2>2. RlPending([login EXCEPT ![q] = r]) = [RlPending(login) EXCEPT ![q] = r.bucket]
    BY <1>5, <2>1 DEF RlPending
  <2>3. [login EXCEPT ![q] = r] \in [Logins -> RlLogins]
    BY <1>5, <2>1
  <2> QED BY <1>5, <1>6, <2>2, <2>3
<1>8. RateTypes'
  BY <1>4, <1>5, <1>6, <1>7 DEF RateTypes, FindBucket
<1>9. CASE bucketOf # 0
  <2>1. RlSound(G, rlClock, buckets, bucketOf, [RlPending(login) EXCEPT ![q] = bucketOf])
    BY <1>2, <1>9, RlFinds
  <2>2. RateKept(G)'
    BY <1>2, <1>7, <1>9, <2>1 DEF RateKept, FindBucket
  <2> QED BY <1>8, <2>2
<1>10. CASE bucketOf = 0
  <2>1. RlSound(G, rlClock, Append(buckets, [tokens |-> RlLimit, fill |-> rlClock]), Len(buckets) + 1,
                [RlPending(login) EXCEPT ![q] = Len(buckets) + 1])
    BY <1>2, <1>10, RlMakes
  <2>2. RateKept(G)'
    BY <1>2, <1>7, <1>10, <2>1 DEF RateKept, FindBucket
  <2> QED BY <1>8, <2>2
<1> QED BY <1>9, <1>10

\* What is told of one request more.
LEMMA RlTellsMore ==
    ASSUME NEW G, NEW gs, RlTells(G, gs), NEW g \in RlGrants
    PROVE  RlTells(Append(G, g), Append(gs, g.at)) /\ Append(G, g) \in Seq(RlGrants)
<1>1. g.at \in Nat
  BY DEF RlGrants
<1> DEFINE n == Len(G) + 1
<1>2. /\ Append(G, g) \in Seq(RlGrants) /\ Append(gs, g.at) \in Seq(Nat)
      /\ Len(Append(G, g)) = n /\ Len(Append(gs, g.at)) = n
  BY <1>1 DEF RlTells
<1>3. \A i \in DOMAIN Append(G, g) : Append(G, g)[i].at = Append(gs, g.at)[i]
  <2> SUFFICES ASSUME NEW i \in 1..n PROVE Append(G, g)[i].at = Append(gs, g.at)[i]
    BY <1>2
  <2>1. Len(G) \in Nat /\ Len(gs) = Len(G) /\ G \in Seq(RlGrants) /\ gs \in Seq(Nat)
    BY DEF RlTells
  <2>2. CASE i = n
    BY <2>1, <2>2
  <2>3. CASE i # n
    <3>1. i \in 1..Len(G) /\ i \in DOMAIN G
      BY <2>1, <2>3
    <3>2. Append(G, g)[i] = G[i] /\ Append(gs, g.at)[i] = gs[i]
      BY <2>1, <3>1
    <3> QED BY <3>1, <3>2 DEF RlTells
  <2> QED BY <2>2, <2>3
<1> QED BY <1>2, <1>3 DEF RlTells

LEMMA TakeTokenKeeps ==
    ASSUME RateInv, NEW q \in Logins, TakeToken(q)
    PROVE  RateInv'
<1> USE DEF RateInv
<1>1. PICK G \in Seq(RlGrants) : RateKept(G)
  OBVIOUS
<1> DEFINE P == RlPending(login)
           c == login[q].bucket
<1>2. RlTells(G, grants) /\ RlSound(G, rlClock, buckets, bucketOf, P)
  BY <1>1 DEF RateKept
<1>3. RlTypes(G, rlClock, buckets, bucketOf, P)
  BY <1>2 DEF RlSound
<1>4. c = P[q] /\ c # 0 /\ login \in [Logins -> RlLogins] /\ rlClock \in Nat
  BY DEF TakeToken, RlPending, RateTypes
<1>5. c \in DOMAIN buckets /\ buckets[c] \in RlBuckets /\ buckets \in Seq(RlBuckets)
  <2>1. P[q] \in 0..Len(buckets) /\ Len(buckets) \in Nat /\ DOMAIN buckets = 1..Len(buckets)
    BY <1>3, RlElements DEF RlTypes
  <2>2. c \in DOMAIN buckets
    BY <1>4, <2>1
  <2> QED BY <1>3, <2>2, RlElements DEF RlTypes
<1>6. buckets[c] = [tokens |-> buckets[c].tokens, fill |-> buckets[c].fill]
      /\ buckets[c].tokens \in Nat /\ buckets[c].fill \in Nat
  BY <1>5 DEF RlBuckets
<1> DEFINE full == [tokens |-> RlLimit, fill |-> rlClock]
<1>7. UNCHANGED <<rlClock, bucketOf, fails, inSet, rlCount>>
  BY DEF TakeToken
\* the login goes on, or ends
<1>8. ASSUME NEW r \in RlLogins, login' = [login EXCEPT ![q] = r], r.pc \in {"idle", "check"}, r.at <= rlClock
      PROVE  RateTypes' /\ RlPending(login') = [P EXCEPT ![q] = 0]
  <2>1. RlPending(login') = [P EXCEPT ![q] = 0] /\ login' \in [Logins -> RlLogins]
    BY <1>4, <1>8, RlPendingWith
  <2>2. \A x \in Logins : /\ login'[x].pc = "take" => login'[x].bucket # 0
                          /\ login'[x].at <= rlClock
                          /\ login'[x].pc = "blocked" => inSet
    BY <1>4, <1>8 DEF RateTypes
  <2> QED BY <1>7, <2>1, <2>2 DEF RateTypes
<1>9. ASSUME LoginEnds(q), UNCHANGED <<buckets, grants>>
      PROVE  RateInv'
  <2>1. NoLogin.at <= rlClock
    BY <1>4, RlRecords
  <2>2. RateTypes' /\ RlPending(login') = [P EXCEPT ![q] = 0]
    BY <1>8, <1>9, <2>1, RlRecords DEF LoginEnds
  <2>3. RlSound(G, rlClock, buckets, bucketOf, [P EXCEPT ![q] = 0])
    BY <1>2, RlQuiet
  <2>4. RateKept(G)'
    BY <1>2, <1>7, <1>9, <2>2, <2>3 DEF RateKept
  <2> QED BY <2>2, <2>4
<1>10. ASSUME NEW bs, RlSound(G, rlClock, bs, bucketOf, P), ~(rlClock - bs[c].fill >= RlInterval), ~(bs[c].tokens <= 0),
              buckets' = [bs EXCEPT ![c] = [tokens |-> bs[c].tokens - 1, fill |-> bs[c].fill]],
              login' = [login EXCEPT ![q].pc = "check"], grants' = Append(grants, rlClock)
       PROVE  RateInv'
  <2> DEFINE r == [login[q] EXCEPT !.pc = "check"]
             g == RlGrant(rlClock, bs, bucketOf, q, c)
  <2>1. login[q] \in RlLogins /\ "check" \in RlLoginStates /\ login[q].at <= rlClock
    BY <1>4 DEF RlLoginStates, RateTypes
  <2>2. r \in RlLogins /\ r.pc = "check" /\ r.at = login[q].at
    BY <2>1, RlRecordWith
  <2>3. login' = [login EXCEPT ![q] = r]
    BY <1>10
  <2>4. RateTypes' /\ RlPending(login') = [P EXCEPT ![q] = 0]
    <3> HIDE DEF r
    <3> QED BY <1>8, <2>1, <2>2, <2>3
  <2>5. RlSound(Append(G, g), rlClock, buckets', bucketOf, [P EXCEPT ![q] = 0])
    <3> HIDE DEF P, c
    <3> QED BY <1>4, <1>10, RlPasses
  <2>6. RlTypes(G, rlClock, bs, bucketOf, P)
    BY <1>10 DEF RlSound
  <2>7. g \in RlGrants
    <3>1. c \in DOMAIN bs /\ c \in Nat
      <4>1. P[q] \in 0..Len(bs) /\ Len(bs) \in Nat /\ DOMAIN bs = 1..Len(bs)
        BY <2>6, RlElements DEF RlTypes
      <4> QED BY <1>4, <4>1
    <3>2. bs[c].fill \in Nat /\ Len(bs) \in Nat /\ RlNextOf(bs, bucketOf) \in Nat
      BY <2>6, <3>1, RlElements
    <3> QED BY <1>4, <3>1, <3>2 DEF RlGrant, RlGrants
  <2>8. g.at = rlClock
    BY DEF RlGrant
  <2> HIDE DEF g
  <2>9. RlTells(Append(G, g), grants') /\ Append(G, g) \in Seq(RlGrants)
    BY <1>2, <1>10, <2>7, <2>8, RlTellsMore
  <2>10. PICK H \in Seq(RlGrants) : H = Append(G, g)
    BY <2>9
  <2>11. RlTells(H, grants') /\ RlSound(H, rlClock', buckets', bucketOf', RlPending(login'))
    BY <1>7, <2>4, <2>5, <2>9, <2>10
  <2>12. RateKept(H)'
    BY <2>11 DEF RateKept
  <2> QED BY <2>4, <2>12
<1>11. CASE rlClock - buckets[c].fill >= RlInterval
  <2> DEFINE bs == [buckets EXCEPT ![c] = full]
  <2>1. Filled(buckets[c]) = full
    BY <1>11 DEF Filled
  <2>2. full.tokens = RlLimit /\ full.fill = rlClock /\ ~(full.tokens <= 0)
    BY RlConstants
  <2>3. /\ buckets' = [buckets EXCEPT ![c] = [full EXCEPT !.tokens = @ - 1]]
        /\ login' = [login EXCEPT ![q].pc = "check"] /\ grants' = Append(grants, rlClock)
    BY <2>1, <2>2 DEF TakeToken
  <2>4. RlSound(G, rlClock, bs, bucketOf, P)
    <3> HIDE DEF P, c
    <3> QED BY <1>2, <1>5, <1>11, RlRefills
  <2>5. bs[c] = full
    BY <1>5
  <2>6. ~(rlClock - bs[c].fill >= RlInterval) /\ ~(bs[c].tokens <= 0)
    BY <1>4, <2>2, <2>5, RlConstants
  <2>7. [full EXCEPT !.tokens = @ - 1] = [tokens |-> bs[c].tokens - 1, fill |-> bs[c].fill]
    BY <2>5
  <2>8. buckets' = [bs EXCEPT ![c] = [tokens |-> bs[c].tokens - 1, fill |-> bs[c].fill]]
    <3>1. \A x : [bs EXCEPT ![c] = x] = [buckets EXCEPT ![c] = x]
      BY <1>5
    <3> QED BY <2>3, <2>7, <3>1
  <2> HIDE DEF bs, P, c
  <2> QED BY <1>10, <2>3, <2>4, <2>6, <2>8
<1>12. CASE ~(rlClock - buckets[c].fill >= RlInterval)
  <2>1. Filled(buckets[c]) = buckets[c]
    BY <1>12 DEF Filled
  <2>2. CASE buckets[c].tokens <= 0
    <3>1. /\ buckets' = [buckets EXCEPT ![c] = buckets[c]]
          /\ LoginEnds(q) /\ UNCHANGED grants
      BY <2>1, <2>2 DEF TakeToken
    <3>2. buckets' = buckets
      BY <1>5, <3>1
    <3> QED BY <1>9, <3>1, <3>2
  <2>3. CASE ~(buckets[c].tokens <= 0)
    <3>1. /\ buckets' = [buckets EXCEPT ![c] = [buckets[c] EXCEPT !.tokens = @ - 1]]
          /\ login' = [login EXCEPT ![q].pc = "check"] /\ grants' = Append(grants, rlClock)
      BY <2>1, <2>3 DEF TakeToken
    <3>2. [buckets[c] EXCEPT !.tokens = @ - 1] = [tokens |-> buckets[c].tokens - 1, fill |-> buckets[c].fill]
      <4>1. \A b \in RlBuckets : [b EXCEPT !.tokens = @ - 1] = [tokens |-> b.tokens - 1, fill |-> b.fill]
        BY DEF RlBuckets
      <4> QED BY <1>5, <4>1
    <3> HIDE DEF P, c
    <3> QED BY <1>2, <1>10, <1>12, <2>3, <3>1, <3>2
  <2> QED BY <2>2, <2>3
<1> QED BY <1>11, <1>12

\* A login goes on and takes from no bucket before or after.
LEMMA LoginGoesOn ==
    ASSUME RateInv, NEW q \in Logins, NEW r \in RlLogins, login' = [login EXCEPT ![q] = r],
           login[q].pc # "take", r.pc # "take", r.at <= rlClock, r.pc = "blocked" => inSet',
           inSet => inSet', fails' \subseteq RlFailures, UNCHANGED <<rlClock, rlCount>>
    PROVE  RateTypes' /\ RlPending(login') = RlPending(login)
<1>1. login \in [Logins -> RlLogins]
  BY DEF RateInv, RateTypes
<1>2. RlPending(login') = RlPending(login) /\ login' \in [Logins -> RlLogins]
  BY <1>1, RlPendingWith, Zenon
<1>3. \A x \in Logins : /\ login'[x].pc = "take" => login'[x].bucket # 0
                        /\ login'[x].at <= rlClock
                        /\ login'[x].pc = "blocked" => inSet'
  BY <1>1 DEF RateInv, RateTypes
<1>4. (rlClock \in Nat /\ rlCount \in Nat)'
  BY DEF RateInv, RateTypes
<1> QED BY <1>2, <1>3, <1>4 DEF RateTypes

LEMMA GoingOnKeeps ==
    ASSUME RateInv, RateTypes', RlPending(login') = RlPending(login),
           UNCHANGED <<rlClock, buckets, bucketOf, grants>>
    PROVE  RateInv'
<1>1. PICK G \in Seq(RlGrants) : RateKept(G)
  BY DEF RateInv
<1>2. RateKept(G)'
  BY <1>1 DEF RateKept
<1> QED BY <1>2 DEF RateInv

LEMMA LoginOkKeeps == ASSUME RateInv, NEW q \in Logins, LoginOk(q) PROVE RateInv'
<1>1. PICK G \in Seq(RlGrants) : RateKept(G)
  BY DEF RateInv
<1>2. fails \subseteq RlFailures /\ rlClock \in Nat
  BY DEF RateInv, RateTypes
<1>3. RateTypes' /\ RlPending(login') = RlPending(login)
  <2>1. NoLogin.pc # "take" /\ NoLogin.pc # "blocked" /\ NoLogin.at <= rlClock /\ NoLogin \in RlLogins
    BY <1>2, RlRecords
  <2>2. /\ login' = [login EXCEPT ![q] = NoLogin] /\ login[q].pc # "take"
        /\ UNCHANGED <<rlClock, rlCount>> /\ inSet' = inSet /\ fails' = fails
    BY DEF LoginOk, LoginEnds
  <2> QED BY <1>2, <2>1, <2>2, LoginGoesOn
<1>4. RlSound(<< >>, rlClock, buckets, 0, RlPending(login))
  BY <1>1, RlForgets DEF RateKept
<1>5. RlTells(<< >>, << >>) /\ << >> \in Seq(RlGrants)
  BY DEF RlTells
<1>6. RateKept(<< >>)'
  BY <1>3, <1>4, <1>5 DEF RateKept, LoginOk
<1> QED BY <1>3, <1>5, <1>6 DEF RateInv

LEMMA LoginFailsKeeps == ASSUME RateInv, NEW q \in Logins, LoginFails(q) PROVE RateInv'
<1>1. login \in [Logins -> RlLogins] /\ fails \subseteq RlFailures /\ rlClock \in Nat
  BY DEF RateInv, RateTypes
<1>2. PICK r : r = [login[q] EXCEPT !.pc = "failed", !.at = rlClock]
  OBVIOUS
<1>3. r \in RlLogins /\ r.pc = "failed" /\ r.at = rlClock
  BY <1>1, <1>2, RlRecordFailedAt
<1>4. /\ login' = [login EXCEPT ![q] = r] /\ login[q].pc # "take"
      /\ UNCHANGED <<rlClock, buckets, bucketOf, grants, rlCount>> /\ inSet' = inSet /\ fails' = fails
  BY <1>1, <1>2 DEF LoginFails
<1>5. r.pc # "take" /\ r.pc # "blocked" /\ r.at <= rlClock
  BY <1>1, <1>3
<1>6. RateTypes' /\ RlPending(login') = RlPending(login)
  BY <1>1, <1>3, <1>4, <1>5, LoginGoesOn
<1> QED BY <1>4, <1>6, GoingOnKeeps

LEMMA RecordFailureKeeps == ASSUME RateInv, NEW q \in Logins, RecordFailure(q) PROVE RateInv'
<1>1. login \in [Logins -> RlLogins] /\ fails \subseteq RlFailures /\ rlClock \in Nat /\ login[q].at <= rlClock
  BY DEF RateInv, RateTypes
<1>2. login[q] \in RlLogins /\ login[q].no \in Nat /\ login[q].at \in Nat
  BY <1>1 DEF RlLogins
<1>3. fails' \subseteq RlFailures
  BY <1>1, <1>2 DEF RecordFailure, Recent, RlFailures
<1>4. /\ login[q].pc # "take"
      /\ UNCHANGED <<rlClock, buckets, bucketOf, grants, rlCount>> /\ inSet' = inSet
  BY DEF RecordFailure
<1>5. CASE LoginEnds(q)
  <2>1. NoLogin.pc # "take" /\ NoLogin.pc # "blocked" /\ NoLogin.at <= rlClock /\ NoLogin \in RlLogins
    BY <1>1, RlRecords
  <2>2. login' = [login EXCEPT ![q] = NoLogin]
    BY <1>5 DEF LoginEnds
  <2>3. RateTypes' /\ RlPending(login') = RlPending(login)
    BY <1>3, <1>4, <2>1, <2>2, LoginGoesOn
  <2> QED BY <1>4, <2>3, GoingOnKeeps
<1>6. CASE login' = [login EXCEPT ![q].pc = "block"]
  <2>1. PICK r : r = [login[q] EXCEPT !.pc = "block"]
    OBVIOUS
  <2>2. "block" \in RlLoginStates
    BY DEF RlLoginStates
  <2>3. r \in RlLogins /\ r.pc = "block" /\ r.at = login[q].at
    BY <1>2, <2>1, <2>2, RlRecordWith
  <2>4. login' = [login EXCEPT ![q] = r] /\ r.pc # "take" /\ r.pc # "blocked" /\ r.at <= rlClock
    BY <1>1, <1>6, <2>1, <2>3
  <2>5. RateTypes' /\ RlPending(login') = RlPending(login)
    BY <1>3, <1>4, <2>3, <2>4, LoginGoesOn
  <2> QED BY <1>4, <2>5, GoingOnKeeps
<1> QED BY <1>5, <1>6 DEF RecordFailure

LEMMA BlockKeeps == ASSUME RateInv, NEW q \in Logins, Block(q) PROVE RateInv'
<1>1. login \in [Logins -> RlLogins] /\ fails \subseteq RlFailures /\ rlClock \in Nat /\ login[q].at <= rlClock
  BY DEF RateInv, RateTypes
<1>2. login[q] \in RlLogins
  BY <1>1
<1>3. /\ login[q].pc # "take" /\ fails' = fails
      /\ UNCHANGED <<rlClock, buckets, bucketOf, grants, rlCount>>
  BY DEF Block
<1>4. PICK ok \in BOOLEAN : /\ inSet' = (inSet \/ ok)
                            /\ IF AfterCall(ok) = "idle" THEN LoginEnds(q)
                               ELSE login' = [login EXCEPT ![q].pc = AfterCall(ok)]
  BY DEF Block
<1>5. inSet => inSet'
  BY <1>4
<1>6. CASE ~ok
  <2>1. NoLogin.pc # "take" /\ NoLogin.pc # "blocked" /\ NoLogin.at <= rlClock /\ NoLogin \in RlLogins
    BY <1>1, RlRecords
  <2>2. login' = [login EXCEPT ![q] = NoLogin]
    BY <1>4, <1>6 DEF AfterCall, LoginEnds
  <2>3. RateTypes' /\ RlPending(login') = RlPending(login)
    BY <1>1, <1>3, <1>5, <2>1, <2>2, LoginGoesOn
  <2> QED BY <1>3, <2>3, GoingOnKeeps
<1>7. CASE ok
  <2>1. PICK r : r = [login[q] EXCEPT !.pc = "blocked"]
    OBVIOUS
  <2>2. "blocked" \in RlLoginStates
    BY DEF RlLoginStates
  <2>3. r \in RlLogins /\ r.pc = "blocked" /\ r.at = login[q].at
    BY <1>2, <2>1, <2>2, RlRecordWith
  <2>4. login' = [login EXCEPT ![q].pc = "blocked"] /\ inSet'
    BY <1>4, <1>7 DEF AfterCall
  <2>5. login' = [login EXCEPT ![q] = r] /\ r.pc # "take" /\ r.at <= rlClock
    BY <1>1, <2>1, <2>3, <2>4
  <2>6. RateTypes' /\ RlPending(login') = RlPending(login)
    BY <1>1, <1>3, <1>5, <2>3, <2>4, <2>5, LoginGoesOn
  <2> QED BY <1>3, <2>6, GoingOnKeeps
<1> QED BY <1>6, <1>7

LEMMA DropTrackerKeeps == ASSUME RateInv, NEW q \in Logins, DropTracker(q) PROVE RateInv'
<1>1. rlClock \in Nat
  BY DEF RateInv, RateTypes
<1>2. NoLogin.pc # "take" /\ NoLogin.pc # "blocked" /\ NoLogin.at <= rlClock /\ NoLogin \in RlLogins
  BY <1>1, RlRecords
<1>3. /\ login' = [login EXCEPT ![q] = NoLogin] /\ login[q].pc # "take"
      /\ UNCHANGED <<rlClock, buckets, bucketOf, grants, rlCount>> /\ inSet' = inSet /\ fails' = {}
  BY DEF DropTracker, LoginEnds
<1>4. fails' \subseteq RlFailures
  BY <1>3
<1>5. RateTypes' /\ RlPending(login') = RlPending(login)
  BY <1>2, <1>3, <1>4, LoginGoesOn
<1> QED BY <1>3, <1>5, GoingOnKeeps

LEMMA CleanBucketKeeps == ASSUME RateInv, CleanBucket PROVE RateInv'
<1>1. PICK G \in Seq(RlGrants) : RateKept(G)
  BY DEF RateInv
<1>2. RlSound(G, rlClock, buckets, 0, RlPending(login))
  BY <1>1, RlCleans DEF RateKept, CleanBucket
<1>3. RateKept(G)'
  BY <1>1, <1>2 DEF RateKept, CleanBucket
<1>4. RateTypes'
  BY DEF RateInv, RateTypes, CleanBucket
<1> QED BY <1>3, <1>4 DEF RateInv

LEMMA RlTickKeeps == ASSUME RateInv, RlTick PROVE RateInv'
<1>1. PICK G \in Seq(RlGrants) : RateKept(G)
  BY DEF RateInv
<1>2. RlSound(G, rlClock + 1, buckets, bucketOf, RlPending(login))
  BY <1>1, RlTicks DEF RateKept
<1>3. RateKept(G)'
  BY <1>1, <1>2 DEF RateKept, RlTick
<1>4. RateTypes'
  <2>1. rlClock \in Nat /\ rlClock' = rlClock + 1 /\ login \in [Logins -> RlLogins]
    BY DEF RateInv, RateTypes, RlTick
  <2>2. \A q \in Logins : login[q].at <= rlClock /\ login[q].at \in Nat
    BY <2>1 DEF RateInv, RateTypes, RlLogins
  <2>3. \A q \in Logins : login[q].at <= rlClock'
    BY <2>1, <2>2
  <2> QED BY <2>1, <2>3 DEF RateInv, RateTypes, RlTick
<1> QED BY <1>3, <1>4 DEF RateInv

LEMMA RateInvStep == ASSUME RateInv, RlNext \/ UNCHANGED rlVars PROVE RateInv'
<1>1. CASE UNCHANGED rlVars
  BY <1>1 DEF rlVars, RateInv, RateTypes, RateKept
<1>2. CASE RlNext
  BY <1>2, FindBucketKeeps, TakeTokenKeeps, LoginOkKeeps, LoginFailsKeeps, RecordFailureKeeps, BlockKeeps,
     DropTrackerKeeps, CleanBucketKeeps, RlTickKeeps DEF RlNext
<1> QED BY <1>1, <1>2

LEMMA RateInvSuffices == RateInv => PassesBounded
<1> SUFFICES ASSUME RateInv, NEW t \in 0..rlClock
             PROVE  Cardinality({i \in DOMAIN grants : grants[i] \in t..t + RlInterval - 1})
                        <= 2 * RlLimit + Cardinality(Logins) - 1
  BY DEF PassesBounded
<1>1. PICK G \in Seq(RlGrants) : RateKept(G)
  BY DEF RateInv
<1>2. t \in Nat
  BY DEF RateInv, RateTypes
<1>3. RlHistory(G) /\ RlTells(G, grants)
  BY <1>1, RlHistoryIs DEF RateKept
<1>4. DOMAIN grants = DOMAIN G /\ \A i \in DOMAIN G : grants[i] = G[i].at
  BY <1>3 DEF RlTells
<1> DEFINE W == {i \in DOMAIN grants : grants[i] \in t..t + RlInterval - 1}
<1>5. W \in SUBSET (DOMAIN G) /\ \A i \in W : t <= G[i].at /\ G[i].at <= t + RlInterval - 1
  BY <1>2, <1>4
<1> HIDE DEF W
<1>6. Cardinality(W) <= 2 * RlLimit + Cardinality(Logins) - 1
  BY <1>2, <1>3, <1>5, RlBound
<1> QED BY <1>6 DEF W

\* What a step may do to the failures.
FailuresKept == \A f \in fails : (rlClock - f.at <= RlWindow /\ ~inSet') => f \in fails'

LEMMA FailuresStep == ASSUME RateInv, RlNext \/ UNCHANGED rlVars PROVE FailuresKept
<1>1. CASE UNCHANGED rlVars
  BY <1>1 DEF rlVars, FailuresKept
<1>2. ASSUME NEW q \in Logins, RecordFailure(q)
      PROVE  FailuresKept
  <2> SUFFICES ASSUME NEW f \in fails, rlClock - f.at <= RlWindow PROVE f \in fails'
    BY DEF FailuresKept
  <2>1. login[q].at \in Nat /\ login[q].at <= rlClock /\ rlClock \in Nat /\ f.at \in Nat
    BY DEF RateInv, RateTypes, RlLogins, RlFailures
  <2>2. login[q].at - f.at <= RlWindow
    BY <2>1, RlConstants
  <2> QED BY <1>2, <2>2 DEF RecordFailure, Recent
<1>3. ASSUME NEW q \in Logins, DropTracker(q)
      PROVE  FailuresKept
  BY <1>3 DEF DropTracker, FailuresKept, RateInv, RateTypes
<1>4. ASSUME UNCHANGED fails PROVE FailuresKept
  BY <1>4 DEF FailuresKept
<1>5. ASSUME NEW q \in Logins,
             FindBucket(q) \/ TakeToken(q) \/ LoginOk(q) \/ LoginFails(q) \/ Block(q) \/ CleanBucket \/ RlTick
      PROVE  UNCHANGED fails
  BY <1>5 DEF FindBucket, TakeToken, LoginOk, LoginFails, Block, CleanBucket, RlTick
<1>6. CASE CleanBucket \/ RlTick
  BY <1>4, <1>6 DEF CleanBucket, RlTick
<1> QED BY <1>1, <1>2, <1>3, <1>4, <1>5, <1>6 DEF RlNext

-----------------------------------------------------------------------------
(* Users, keys and limits in the composition                               *)

AccessInv == UserInv /\ KeyInv /\ RateInv

LEMMA AccessInit == ASSUME Init PROVE AccessInv
BY UserInitHolds, KeyInitHolds, RateInitHolds DEF Init, AccessInv

LEMMA AccessParts ==
    ASSUME [Next]_vars
    PROVE  /\ UserNext \/ UNCHANGED userVars
           /\ KeyNext \/ UNCHANGED keyVars
           /\ RlNext \/ UNCHANGED rlVars
<1>1. CASE UNCHANGED vars
  BY <1>1 DEF vars
<1>2. CASE Next
  <2>1. UserNext \/ UNCHANGED userVars
    BY <1>2 DEF Next, Rest
  <2>2. KeyNext \/ UNCHANGED keyVars
    BY <1>2 DEF Next, Rest
  <2>3. RlNext \/ UNCHANGED rlVars
    BY <1>2 DEF Next, Rest
  <2> QED BY <2>1, <2>2, <2>3
<1> QED BY <1>1, <1>2

LEMMA AccessStep == ASSUME AccessInv, [Next]_vars PROVE AccessInv' /\ [FailuresKept]_rlVars
<1>1. UserInv'
  BY AccessParts, UserInvStep DEF AccessInv
<1>2. KeyInv'
  BY AccessParts, KeyInvStep DEF AccessInv
<1>3. RateInv'
  BY AccessParts, RateInvStep DEF AccessInv
<1>4. FailuresKept
  BY AccessParts, FailuresStep DEF AccessInv
<1> QED BY <1>1, <1>2, <1>3, <1>4 DEF AccessInv

-----------------------------------------------------------------------------
(* The parts in the composition                                            *)

LEMMA NetworkStep == ASSUME NetworkInv, [Next]_vars PROVE NetworkInv'
<1>1. DnsNext \/ UNCHANGED dnsVars
  BY DEF Next, Rest, vars
<1>2. DevNext \/ UNCHANGED devVars
  BY DEF Next, Rest, vars
<1> QED BY <1>1, <1>2, BlocklistStep, DevicesStep, IdentitiesStep DEF NetworkInv

LEMMA NetworkInit == Init => NetworkInv
<1>1. DnsInit => BlocklistInForce
  BY DEF DnsInit, BlocklistInForce
<1> QED BY <1>1, DevicesInit DEF Init, NetworkInv

FlowsInv == LearnInv /\ FdInv

LEMMA FlowsStep == ASSUME FlowsInv, [Next]_vars PROVE FlowsInv'
<1>1. LearnNext \/ UNCHANGED learnVars
  BY DEF Next, Rest, vars
<1>2. FdNext \/ UNCHANGED fdVars
  BY DEF Next, Rest, vars
<1> QED BY <1>1, <1>2, LearnInvStep, FdInvStep DEF FlowsInv

-----------------------------------------------------------------------------
(***************************************************************************)
(* Notifications: the numbers begin again with each run of the control     *)
(* plane, so everything is compared by run and number.  What a browser was *)
(* sent comes before all that the poll under way still holds, and, of the  *)
(* present run, lies at or below the cursor.                               *)
(***************************************************************************)
FeedNote == [run : Nat, id : Nat]
FeedPolls == [pc : {"wait", "last", "publish"}, got : Seq(FeedNote), last : Nat]
FeedBrowsers ==
    [state : {"away", "joining", "in", "leaving", "gone"}, topic : BOOLEAN, queue : Seq(FeedNote),
     open : BOOLEAN, shown : Seq(FeedNote)]
Stream(r) == r.shown \o r.queue
Sorted(s) == \A i, j \in 1 .. Len(s) : i < j => Before(s[i], s[j])

RingSound(rg, next, run) ==
    /\ \A i \in 1 .. Len(rg) : rg[i].run = run /\ rg[i].id < next
    /\ \A i, j \in 1 .. Len(rg) : i < j => rg[i].id < rg[j].id
\* What a poll holds: newer than the cursor, and not above what it will be set to.
GotSound(p, rg, run, cur) ==
    /\ Sorted(p.got)
    /\ \A i \in 1 .. Len(p.got) : p.got[i].run <= run /\ (p.got[i].run = run => cur < p.got[i].id)
    /\ p.pc = "wait" => p.got = << >>
    /\ p.pc = "last" => \A i \in 1 .. Len(p.got) :
                           p.got[i].run = run /\ Len(rg) >= 1 /\ p.got[i].id <= rg[Len(rg)].id
    /\ p.pc = "publish" => /\ p.got # << >>
                           /\ \A i \in 1 .. Len(p.got) : p.got[i].run = run => p.got[i].id <= p.last
StreamSound(s, p, run, cur) ==
    /\ Sorted(s)
    /\ \A k \in 1 .. Len(s) : s[k].run <= run
    /\ \A k \in 1 .. Len(s) : \A i \in 1 .. Len(p.got) : Before(s[k], p.got[i])
    /\ p.pc # "publish" => \A k \in 1 .. Len(s) : s[k].run = run => s[k].id <= cur

FeedTypes ==
    /\ ring \in Seq(FeedNote) /\ nextID \in Nat /\ ctlRun \in Nat /\ cursor \in Nat /\ noted \in Nat
    /\ poll \in FeedPolls /\ browser \in [Browsers -> FeedBrowsers]
FeedInv ==
    /\ FeedTypes /\ broken = FALSE
    /\ RingSound(ring, nextID, ctlRun) /\ GotSound(poll, ring, ctlRun, cursor)
    /\ \A b \in Browsers : StreamSound(Stream(browser[b]), poll, ctlRun, cursor)
    /\ \A b \in Browsers : browser[b].state # "gone" => browser[b].open

LEMMA StreamTyped == \A r \in FeedBrowsers : Stream(r) \in Seq(FeedNote)
<1> SUFFICES ASSUME NEW r \in FeedBrowsers PROVE Stream(r) \in Seq(FeedNote)
  OBVIOUS
<1>1. r.shown \in Seq(FeedNote) /\ r.queue \in Seq(FeedNote)
  BY DEF FeedBrowsers
<1> QED BY <1>1, ConcatProperties DEF Stream

\* What was sent is what was shown and what waits in the queue.
LEMMA FeedInvSuffices == FeedInv => ShownInOrder /\ NoSendOnClosed
<1> SUFFICES ASSUME FeedInv PROVE ShownInOrder /\ NoSendOnClosed
  OBVIOUS
<1>1. ASSUME NEW b \in Browsers
      PROVE  LET s == browser[b].shown \o browser[b].queue IN \A i, j \in DOMAIN s : i < j => Before(s[i], s[j])
  <2> DEFINE s == Stream(browser[b])
  <2>1. s \in Seq(FeedNote) /\ Sorted(s)
    BY StreamTyped DEF FeedInv, FeedTypes, StreamSound
  <2> HIDE DEF s
  <2>2. DOMAIN s = 1 .. Len(s)
    BY <2>1
  <2>3. \A i, j \in DOMAIN s : i < j => Before(s[i], s[j])
    BY <2>1, <2>2 DEF Sorted
  <2> QED BY <2>3 DEF s, Stream
<1> QED BY <1>1 DEF ShownInOrder, NoSendOnClosed, FeedInv

LEMMA FeedStart == FeedInit => FeedInv
<1> SUFFICES ASSUME FeedInit PROVE FeedInv
  OBVIOUS
<1>1. << >> \in Seq(FeedNote) /\ Len(<< >>) = 0
  OBVIOUS
<1>2. FeedTypes
  BY <1>1 DEF FeedInit, FeedTypes, FeedPolls, FeedBrowsers
<1>3. RingSound(ring, nextID, ctlRun) /\ GotSound(poll, ring, ctlRun, cursor)
  BY <1>1 DEF FeedInit, RingSound, GotSound, Sorted
<1>4. ASSUME NEW b \in Browsers PROVE StreamSound(Stream(browser[b]), poll, ctlRun, cursor)
  <2>1. Stream(browser[b]) = << >> \o << >>
    BY DEF FeedInit, Stream
  <2>2. << >> \o << >> = << >>
    OBVIOUS
  <2> QED BY <1>1, <2>1, <2>2 DEF StreamSound, Sorted
<1>5. (\A b \in Browsers : browser[b].state # "gone" => browser[b].open) /\ broken = FALSE
  BY DEF FeedInit
<1> QED BY <1>2, <1>3, <1>4, <1>5 DEF FeedInv

\* Only one browser's record changes, and not what it was or will be shown.
LEMMA OneBrowser ==
    ASSUME FeedInv, NEW b \in Browsers, NEW r \in FeedBrowsers, Feed(b, r),
           Stream(r) = Stream(browser[b]), r.state # "gone" => r.open
    PROVE  FeedInv'
<1>1. /\ browser' \in [Browsers -> FeedBrowsers] /\ \A c \in Browsers : browser'[c] = IF c = b THEN r ELSE browser[c]
      /\ UNCHANGED <<ring, nextID, ctlRun, cursor, poll, broken, noted>>
  BY DEF FeedInv, FeedTypes, Feed
<1>2. FeedTypes' /\ broken' = FALSE /\ RingSound(ring', nextID', ctlRun') /\ GotSound(poll', ring', ctlRun', cursor')
  BY <1>1 DEF FeedInv, FeedTypes
<1>3. \A c \in Browsers : Stream(browser'[c]) = Stream(browser[c])
  BY <1>1
<1>4. \A c \in Browsers : StreamSound(Stream(browser'[c]), poll', ctlRun', cursor')
  BY <1>1, <1>3 DEF FeedInv
<1>5. \A c \in Browsers : browser'[c].state # "gone" => browser'[c].open
  BY <1>1 DEF FeedInv
<1> QED BY <1>2, <1>4, <1>5 DEF FeedInv

\* Writing moves a notification from the queue to what was shown.
LEMMA WrittenStream ==
    ASSUME NEW r \in FeedBrowsers, r.queue # << >>
    PROVE  LET r2 == [r EXCEPT !.queue = Tail(@), !.shown = Append(@, Head(r.queue))]
           IN  r2 \in FeedBrowsers /\ Stream(r2) = Stream(r)
<1> DEFINE q == r.queue
           s == r.shown
           r2 == [r EXCEPT !.queue = Tail(@), !.shown = Append(@, Head(r.queue))]
<1>1. q \in Seq(FeedNote) /\ s \in Seq(FeedNote) /\ q # << >>
  BY DEF FeedBrowsers
<1>2. r2 = [r EXCEPT !.queue = Tail(q), !.shown = Append(s, Head(q))]
  OBVIOUS
<1>3. Tail(q) \in Seq(FeedNote) /\ Append(s, Head(q)) \in Seq(FeedNote) /\ Append(s, Head(q)) \o Tail(q) = s \o q
  <2> HIDE DEF q, s
  <2>1. Head(q) \in FeedNote /\ Tail(q) \in Seq(FeedNote) /\ Len(Tail(q)) = Len(q) - 1 /\ Len(q) \in Nat /\ Len(q) >= 1
        /\ Head(q) = q[1] /\ \A i \in 1 .. Len(q) - 1 : Tail(q)[i] = q[i + 1]
    BY <1>1
  <2> DEFINE t == Tail(q)
             a == Append(s, Head(q))
  <2>2. /\ a \in Seq(FeedNote) /\ Len(a) = Len(s) + 1 /\ a[Len(s) + 1] = q[1] /\ \A i \in 1 .. Len(s) : a[i] = s[i]
        /\ Len(s) \in Nat
    BY <1>1, <2>1
  <2> HIDE DEF t, a
  <2>3. /\ a \o t \in Seq(FeedNote) /\ Len(a \o t) = Len(a) + Len(t)
        /\ \A i \in 1 .. Len(a) + Len(t) : (a \o t)[i] = IF i <= Len(a) THEN a[i] ELSE t[i - Len(a)]
    <3>1. t \in Seq(FeedNote) /\ a \in Seq(FeedNote)
      BY <2>1, <2>2 DEF t
    <3> QED BY <3>1, ConcatProperties
  <2>4. /\ s \o q \in Seq(FeedNote) /\ Len(s \o q) = Len(s) + Len(q)
        /\ \A i \in 1 .. Len(s) + Len(q) : (s \o q)[i] = IF i <= Len(s) THEN s[i] ELSE q[i - Len(s)]
    BY <1>1, ConcatProperties
  <2> DEFINE x == a \o t
             y == s \o q
  <2> HIDE DEF x, y
  <2>5. Len(x) = Len(y) /\ x \in Seq(FeedNote) /\ y \in Seq(FeedNote) /\ Len(y) = Len(s) + Len(q)
    BY <2>1, <2>2, <2>3, <2>4 DEF x, y, t
  <2>6. ASSUME NEW i \in 1 .. Len(y) PROVE x[i] = y[i]
    <3>1. /\ x[i] = IF i <= Len(a) THEN a[i] ELSE t[i - Len(a)]
          /\ y[i] = IF i <= Len(s) THEN s[i] ELSE q[i - Len(s)]
      BY <2>1, <2>2, <2>3, <2>4, <2>5 DEF x, y, t
    <3>2. CASE i <= Len(s)
      BY <2>2, <3>1, <3>2
    <3>3. CASE i = Len(s) + 1
      <4>1. x[i] = q[1]
        BY <2>2, <3>1, <3>3
      <4>2. i - Len(s) = 1 /\ ~(i <= Len(s))
        BY <2>2, <3>3
      <4> QED BY <3>1, <4>1, <4>2
    <3>4. CASE i > Len(s) + 1
      <4> DEFINE j == i - Len(a)
      <4>1. j \in 1 .. Len(q) - 1 /\ j + 1 = i - Len(s) /\ ~(i <= Len(a)) /\ ~(i <= Len(s))
        BY <2>1, <2>2, <2>5, <3>4
      <4> HIDE DEF j
      <4>2. t[j] = q[j + 1]
        BY <2>1, <4>1 DEF t
      <4> QED BY <3>1, <4>1, <4>2 DEF j
    <3> QED BY <2>1, <2>2, <2>5, <3>2, <3>3, <3>4
  <2>7. x = y
    BY <2>5, <2>6, SeqEqual
  <2> QED BY <2>1, <2>2, <2>7 DEF x, y, a, t
<1> HIDE DEF q, s
<1>4. r2 \in FeedBrowsers /\ r2.queue = Tail(q) /\ r2.shown = Append(s, Head(q))
  <2> DEFINE t == Tail(q)
             a == Append(s, Head(q))
  <2>1. t \in Seq(FeedNote) /\ a \in Seq(FeedNote) /\ r2 = [r EXCEPT !.queue = t, !.shown = a]
    BY <1>2, <1>3
  <2> HIDE DEF t, a, r2
  <2>2. r2 \in FeedBrowsers /\ r2.queue = t /\ r2.shown = a
    BY <2>1 DEF FeedBrowsers
  <2> QED BY <2>2 DEF t, a
<1>5. Stream(r2) = s \o q
  BY <1>3, <1>4 DEF Stream
<1> QED BY <1>4, <1>5 DEF Stream, s, q

LEMMA ConcatAppend ==
    ASSUME NEW S, NEW s \in Seq(S), NEW q \in Seq(S), NEW n \in S
    PROVE  Append(q, n) \in Seq(S) /\ s \o Append(q, n) = Append(s \o q, n)
<1>1. s \o q \in Seq(S) /\ Append(q, n) \in Seq(S)
  OBVIOUS
<1>2. s \o Append(q, n) \in Seq(S) /\ Append(s \o q, n) \in Seq(S)
  BY <1>1
<1>3. Len(s \o Append(q, n)) = Len(Append(s \o q, n))
  BY <1>1
<1>4. \A i \in 1 .. Len(s \o Append(q, n)) : (s \o Append(q, n))[i] = Append(s \o q, n)[i]
  BY <1>1
<1> QED BY <1>1, <1>2, <1>3, <1>4, SeqEqual

\* One more at the end of a stream.
LEMMA AppendSorted ==
    ASSUME NEW s \in Seq(FeedNote), NEW n \in FeedNote, Sorted(s), \A k \in 1 .. Len(s) : Before(s[k], n)
    PROVE  Sorted(Append(s, n))
<1> DEFINE a == Append(s, n)
<1>1. /\ a \in Seq(FeedNote) /\ Len(a) = Len(s) + 1 /\ a[Len(s) + 1] = n /\ \A i \in 1 .. Len(s) : a[i] = s[i]
      /\ Len(s) \in Nat
  OBVIOUS
<1> HIDE DEF a
<1>2. ASSUME NEW i \in 1 .. Len(a), NEW j \in 1 .. Len(a), i < j PROVE Before(a[i], a[j])
  <2>1. i \in 1 .. Len(s) /\ a[i] = s[i]
    BY <1>1, <1>2
  <2>2. CASE j = Len(s) + 1
    BY <1>1, <2>1, <2>2
  <2>3. CASE j # Len(s) + 1
    <3>1. j \in 1 .. Len(s) /\ a[j] = s[j]
      BY <1>1, <2>3
    <3> QED BY <1>2, <2>1, <3>1 DEF Sorted
  <2> QED BY <2>2, <2>3
<1> QED BY <1>2 DEF Sorted, a

\* One notification of the poll goes out.
NextPoll(p) == [p EXCEPT !.got = Tail(@), !.pc = IF Len(p.got) = 1 THEN "wait" ELSE @]
AfterSent(p, cur) == IF Len(p.got) = 1 THEN p.last ELSE cur

\* The rest of a poll, by its elements.
LEMMA PollTail ==
    ASSUME NEW p \in FeedPolls, p.pc = "publish", p.got # << >>
    PROVE  /\ NextPoll(p) \in FeedPolls /\ NextPoll(p).last = p.last /\ Len(p.got) \in Nat /\ Len(p.got) >= 1
           /\ NextPoll(p).pc = (IF Len(p.got) = 1 THEN "wait" ELSE "publish")
           /\ Len(NextPoll(p).got) = Len(p.got) - 1 /\ NextPoll(p).got \in Seq(FeedNote)
           /\ \A i \in 1 .. Len(p.got) - 1 : NextPoll(p).got[i] = p.got[i + 1]
           /\ Head(p.got) = p.got[1] /\ p.got[1] \in FeedNote
<1> DEFINE g == p.got
           t == Tail(g)
           pc == IF Len(g) = 1 THEN "wait" ELSE p.pc
<1>1. g \in Seq(FeedNote) /\ g # << >> /\ p.last \in Nat
  BY DEF FeedPolls
<1>2. NextPoll(p) = [p EXCEPT !.got = t, !.pc = pc]
  BY DEF NextPoll
<1> HIDE DEF g
<1>3. /\ t \in Seq(FeedNote) /\ Len(t) = Len(g) - 1 /\ Len(g) \in Nat /\ Len(g) >= 1 /\ Head(g) = g[1] /\ g[1] \in FeedNote
      /\ \A i \in 1 .. Len(g) - 1 : t[i] = g[i + 1]
  BY <1>1
<1>4. pc \in {"wait", "publish"} /\ pc = (IF Len(g) = 1 THEN "wait" ELSE "publish")
  OBVIOUS
<1> HIDE DEF t, pc
<1>5. /\ NextPoll(p) \in FeedPolls /\ NextPoll(p).last = p.last /\ NextPoll(p).pc = pc /\ NextPoll(p).got = t
  BY <1>2, <1>3, <1>4 DEF FeedPolls
<1> QED BY <1>3, <1>4, <1>5 DEF g

\* What the poll holds after one went out is still sound for the cursor it sets.
LEMMA SentGot ==
    ASSUME NEW p \in FeedPolls, NEW rg, NEW run \in Nat, NEW cur \in Nat, p.pc = "publish", GotSound(p, rg, run, cur)
    PROVE  GotSound(NextPoll(p), rg, run, AfterSent(p, cur))
<1> DEFINE g == p.got
           p2 == NextPoll(p)
           t == p2.got
<1>1. /\ Sorted(g) /\ g # << >>
      /\ \A i \in 1 .. Len(g) : g[i].run <= run /\ (g[i].run = run => cur < g[i].id)
      /\ \A i \in 1 .. Len(g) : g[i].run = run => g[i].id <= p.last
  BY DEF GotSound
<1>2. /\ p2 \in FeedPolls /\ p2.last = p.last /\ Len(g) \in Nat /\ Len(g) >= 1
      /\ p2.pc = (IF Len(g) = 1 THEN "wait" ELSE "publish")
      /\ Len(t) = Len(g) - 1 /\ t \in Seq(FeedNote)
      /\ \A i \in 1 .. Len(g) - 1 : t[i] = g[i + 1]
  BY <1>1, PollTail
<1> HIDE DEF g, p2, t
<1>3. \A i \in 1 .. Len(t) : i + 1 \in 1 .. Len(g) /\ t[i] = g[i + 1]
  BY <1>2
<1>4. Sorted(t)
  <2> SUFFICES ASSUME NEW i \in 1 .. Len(t), NEW j \in 1 .. Len(t), i < j PROVE Before(t[i], t[j])
    BY DEF Sorted
  <2>1. i + 1 \in 1 .. Len(g) /\ j + 1 \in 1 .. Len(g) /\ i + 1 < j + 1
    BY <1>3, <1>2
  <2>2. Before(g[i + 1], g[j + 1])
    BY <1>1, <2>1 DEF Sorted
  <2> QED BY <1>3, <2>2
<1>5. CASE Len(g) = 1
  <2>1. Len(t) = 0 /\ t = << >> /\ p2.pc = "wait"
    BY <1>2, <1>5
  <2> QED BY <1>4, <2>1 DEF GotSound, p2, t
<1>6. CASE Len(g) # 1
  <2>1. AfterSent(p, cur) = cur /\ p2.pc = "publish" /\ t # << >>
    <3>1. AfterSent(p, cur) = cur
      BY <1>6 DEF AfterSent, g
    <3>2. p2.pc = "publish" /\ Len(t) # 0
      BY <1>2, <1>6
    <3> QED BY <3>1, <3>2
  <2>2. \A i \in 1 .. Len(t) : /\ t[i].run <= run /\ (t[i].run = run => cur < t[i].id)
                               /\ t[i].run = run => t[i].id <= p2.last
    BY <1>1, <1>2, <1>3
  <2> QED BY <1>4, <2>1, <2>2 DEF GotSound, p2, t
<1> QED BY <1>5, <1>6

\* A browser that is sent the next one, or skipped, still sees only earlier ones.
LEMMA SentStream ==
    ASSUME NEW p \in FeedPolls, NEW rg, NEW run \in Nat, NEW cur \in Nat, p.pc = "publish", GotSound(p, rg, run, cur),
           NEW s \in Seq(FeedNote), StreamSound(s, p, run, cur)
    PROVE  /\ StreamSound(s, NextPoll(p), run, AfterSent(p, cur))
           /\ StreamSound(Append(s, Head(p.got)), NextPoll(p), run, AfterSent(p, cur))
<1> DEFINE g == p.got
           p2 == NextPoll(p)
           t == p2.got
           n == g[1]
           a == Append(s, n)
<1>1. /\ Sorted(g) /\ g # << >>
      /\ \A i \in 1 .. Len(g) : g[i].run <= run /\ (g[i].run = run => cur < g[i].id)
      /\ \A i \in 1 .. Len(g) : g[i].run = run => g[i].id <= p.last
  BY DEF GotSound
<1>2. /\ p2 \in FeedPolls /\ p2.last = p.last /\ Len(g) \in Nat /\ Len(g) >= 1 /\ g[1] \in FeedNote /\ Head(g) = g[1]
      /\ p2.pc = (IF Len(g) = 1 THEN "wait" ELSE "publish")
      /\ Len(t) = Len(g) - 1 /\ t \in Seq(FeedNote)
      /\ \A i \in 1 .. Len(g) - 1 : t[i] = g[i + 1]
  BY <1>1, PollTail
<1>3. /\ Sorted(s) /\ \A k \in 1 .. Len(s) : s[k].run <= run
      /\ \A k \in 1 .. Len(s) : \A i \in 1 .. Len(g) : Before(s[k], g[i])
  BY DEF StreamSound
<1>4. p.last \in Nat
  BY DEF FeedPolls
<1> HIDE DEF g, p2, t
<1>5. n \in FeedNote /\ n.run <= run /\ (n.run = run => n.id <= p.last) /\ \A k \in 1 .. Len(s) : Before(s[k], n)
  BY <1>1, <1>2, <1>3
<1>6. \A i \in 1 .. Len(t) : i + 1 \in 1 .. Len(g) /\ 1 \in 1 .. Len(g) /\ 1 < i + 1 /\ t[i] = g[i + 1]
  BY <1>2
<1>7. \A i \in 1 .. Len(t) : Before(n, t[i]) /\ \A k \in 1 .. Len(s) : Before(s[k], t[i])
  BY <1>1, <1>3, <1>6 DEF Sorted
<1> HIDE DEF n
<1>8. \A k \in 1 .. Len(s) : s[k] \in FeedNote
  OBVIOUS
<1>9. \A k \in 1 .. Len(s) : s[k].run = run => s[k].id <= p.last
  <2> SUFFICES ASSUME NEW k \in 1 .. Len(s), s[k].run = run PROVE s[k].id <= p.last
    OBVIOUS
  <2>1. Before(s[k], n) /\ s[k].id \in Nat /\ n.id \in Nat /\ n.run \in Nat
    BY <1>5, <1>8 DEF FeedNote
  <2>2. n.run = run /\ s[k].id < n.id
    BY <1>5, <2>1 DEF Before
  <2> QED BY <1>4, <1>5, <2>1, <2>2
<1>10. p2.pc # "publish" => AfterSent(p, cur) = p.last
  BY <1>2 DEF AfterSent, g
<1>11. StreamSound(s, p2, run, AfterSent(p, cur))
  BY <1>3, <1>7, <1>9, <1>10 DEF StreamSound, t
<1>12. Sorted(a)
  BY <1>3, <1>5, AppendSorted
<1>13. Len(a) = Len(s) + 1 /\ a[Len(s) + 1] = n /\ (\A i \in 1 .. Len(s) : a[i] = s[i]) /\ Len(s) \in Nat
  BY <1>5
<1> HIDE DEF a
<1>14. \A k \in 1 .. Len(a) : k \in 1 .. Len(s) \/ k = Len(s) + 1
  BY <1>13
<1>15. \A k \in 1 .. Len(a) : a[k] = n \/ \E l \in 1 .. Len(s) : a[k] = s[l]
  BY <1>13, <1>14
<1>16. \A k \in 1 .. Len(a) : a[k].run <= run /\ (a[k].run = run => a[k].id <= p.last)
  BY <1>3, <1>5, <1>9, <1>15
<1>17. \A k \in 1 .. Len(a) : \A i \in 1 .. Len(t) : Before(a[k], t[i])
  BY <1>7, <1>15
<1>18. StreamSound(a, p2, run, AfterSent(p, cur))
  BY <1>10, <1>12, <1>16, <1>17 DEF StreamSound, t
<1> QED BY <1>2, <1>11, <1>18 DEF p2, a, n, g

\* The steps that move more than one browser: each keeps the invariant.
LEMMA SendStep ==
    ASSUME FeedInv, SendNext
    PROVE  FeedInv'
<1> DEFINE n == Head(poll.got)
           cur == AfterSent(poll, cursor)
<1>1. /\ FeedTypes /\ RingSound(ring, nextID, ctlRun) /\ GotSound(poll, ring, ctlRun, cursor)
      /\ poll \in FeedPolls /\ ctlRun \in Nat /\ cursor \in Nat /\ poll.pc = "publish"
  BY DEF FeedInv, FeedTypes, SendNext
<1>2. poll.got # << >> /\ poll.last \in Nat
  BY <1>1 DEF GotSound, FeedPolls
<1>3. /\ NextPoll(poll) \in FeedPolls /\ n \in FeedNote
  <2>1. Head(poll.got) = poll.got[1] /\ poll.got[1] \in FeedNote /\ NextPoll(poll) \in FeedPolls
    BY <1>1, <1>2, PollTail
  <2> QED BY <2>1
<1>4. poll' = NextPoll(poll) /\ cursor' = cur /\ UNCHANGED <<ring, nextID, ctlRun, noted>>
  BY DEF SendNext, NextPoll, NextCursor, AfterSent
<1>5. cur \in Nat
  BY <1>1, <1>2 DEF AfterSent
<1> HIDE DEF n, cur
<1>6. \A b \in Browsers : browser[b] \in FeedBrowsers /\ browser'[b] = IF b \in WsClients THEN AfterSend(browser[b], n) ELSE browser[b]
  BY <1>1 DEF SendNext, FeedTypes, n
<1>7. \A r \in FeedBrowsers :
         /\ AfterSend(r, n) \in FeedBrowsers /\ AfterSend(r, n).state = r.state /\ AfterSend(r, n).open = r.open
         /\ Stream(AfterSend(r, n)) = Stream(r) \/ Stream(AfterSend(r, n)) = Append(Stream(r), n)
  <2> SUFFICES ASSUME NEW r \in FeedBrowsers
               PROVE  /\ AfterSend(r, n) \in FeedBrowsers /\ AfterSend(r, n).state = r.state /\ AfterSend(r, n).open = r.open
                      /\ Stream(AfterSend(r, n)) = Stream(r) \/ Stream(AfterSend(r, n)) = Append(Stream(r), n)
    OBVIOUS
  <2>1. CASE r.topic /\ Len(r.queue) < QueueSize
    <3> DEFINE q == r.queue
               a == Append(q, n)
               r2 == [r EXCEPT !.queue = a]
    <3>1. AfterSend(r, n) = r2
      BY <2>1 DEF AfterSend
    <3>2. q \in Seq(FeedNote) /\ r.shown \in Seq(FeedNote)
      BY DEF FeedBrowsers
    <3>3. a \in Seq(FeedNote) /\ r.shown \o a = Append(r.shown \o q, n)
      <4> DEFINE sh == r.shown
      <4>1. sh \in Seq(FeedNote) /\ q \in Seq(FeedNote)
        BY <3>2
      <4> HIDE DEF sh, q
      <4>2. Append(q, n) \in Seq(FeedNote) /\ sh \o Append(q, n) = Append(sh \o q, n)
        BY <1>3, <4>1, ConcatAppend
      <4> QED BY <4>2 DEF sh
    <3> HIDE DEF a
    <3>4. r2 \in FeedBrowsers /\ r2.state = r.state /\ r2.open = r.open /\ r2.queue = a /\ r2.shown = r.shown
      BY <3>3 DEF FeedBrowsers
    <3> HIDE DEF r2
    <3> QED BY <3>1, <3>3, <3>4 DEF Stream
  <2>2. CASE ~(r.topic /\ Len(r.queue) < QueueSize)
    BY <2>2 DEF AfterSend
  <2> QED BY <2>1, <2>2
<1>8. browser' \in [Browsers -> FeedBrowsers]
  <2>1. \A b \in Browsers : browser'[b] \in FeedBrowsers
    BY <1>6, <1>7
  <2>2. browser' = [b \in Browsers |-> browser'[b]]
    BY DEF SendNext
  <2> QED BY <2>1, <2>2
<1>9. FeedTypes'
  BY <1>1, <1>3, <1>4, <1>5, <1>8 DEF FeedTypes
<1>10. RingSound(ring', nextID', ctlRun') /\ GotSound(poll', ring', ctlRun', cursor')
  <2>1. GotSound(NextPoll(poll), ring, ctlRun, cur)
    BY <1>1, SentGot DEF cur
  <2> QED BY <1>1, <1>4, <2>1
<1>11. ASSUME NEW b \in Browsers PROVE StreamSound(Stream(browser'[b]), poll', ctlRun', cursor')
  <2> DEFINE s == Stream(browser[b])
  <2>1. s \in Seq(FeedNote) /\ StreamSound(s, poll, ctlRun, cursor)
    BY <1>6, StreamTyped DEF FeedInv
  <2> HIDE DEF s
  <2>2. StreamSound(s, NextPoll(poll), ctlRun, cur) /\ StreamSound(Append(s, n), NextPoll(poll), ctlRun, cur)
    BY <1>1, <2>1, SentStream DEF cur, n
  <2>3. Stream(browser'[b]) = s \/ Stream(browser'[b]) = Append(s, n)
    BY <1>6, <1>7 DEF s
  <2> QED BY <1>4, <2>2, <2>3
<1>12. broken' = FALSE
  <2>1. broken = FALSE /\ \A b \in WsClients : browser[b].open
    BY DEF FeedInv, WsClients
  <2> QED BY <2>1 DEF SendNext
<1>13. \A b \in Browsers : browser'[b].state # "gone" => browser'[b].open
  BY <1>6, <1>7 DEF FeedInv
<1> QED BY <1>9, <1>10, <1>11, <1>12, <1>13 DEF FeedInv

LEMMA NotifyStep ==
    ASSUME FeedInv, Notify
    PROVE  FeedInv'
<1> DEFINE kept == IF Len(ring) >= FeedSize THEN Tail(ring) ELSE ring
           n == [run |-> ctlRun, id |-> nextID]
           rg == Append(kept, n)
<1>1. /\ ring \in Seq(FeedNote) /\ Len(ring) \in Nat /\ nextID \in Nat /\ ctlRun \in Nat /\ FeedSize >= 1 /\ FeedSize \in Nat
      /\ RingSound(ring, nextID, ctlRun) /\ GotSound(poll, ring, ctlRun, cursor)
  BY FeedAssumption DEF FeedInv, FeedTypes
<1>2. ring' = rg /\ nextID' = nextID + 1 /\ noted' = noted + 1 /\ UNCHANGED <<ctlRun, cursor, poll, browser, broken>>
  BY DEF Notify
<1>3. PICK d \in {0, 1} : /\ kept \in Seq(FeedNote) /\ Len(kept) = Len(ring) - d /\ Len(ring) >= d
                           /\ \A i \in 1 .. Len(kept) : kept[i] = ring[i + d]
  <2>1. CASE Len(ring) >= FeedSize
    <3>1. Len(ring) >= 1 /\ ring # << >> /\ kept = Tail(ring)
      BY <1>1, <2>1
    <3> HIDE DEF kept
    <3>2. kept \in Seq(FeedNote) /\ Len(kept) = Len(ring) - 1 /\ \A i \in 1 .. Len(kept) : kept[i] = ring[i + 1]
      BY <1>1, <3>1
    <3> QED BY <3>1, <3>2
  <2>2. CASE ~(Len(ring) >= FeedSize)
    <3>1. kept = ring
      BY <2>2
    <3> HIDE DEF kept
    <3>2. \A i \in 1 .. Len(ring) : i + 0 = i
      BY <1>1
    <3> QED BY <1>1, <3>1, <3>2
  <2> QED BY <2>1, <2>2
<1>4. n \in FeedNote /\ n.run = ctlRun /\ n.id = nextID
  BY <1>1 DEF FeedNote
<1> HIDE DEF kept, n
<1>5. /\ rg \in Seq(FeedNote) /\ Len(rg) = Len(kept) + 1 /\ rg[Len(rg)] = n /\ \A i \in 1 .. Len(kept) : rg[i] = kept[i]
      /\ Len(kept) \in Nat
  BY <1>3, <1>4
<1> HIDE DEF rg
<1>6. \A i \in 1 .. Len(rg) : i \in 1 .. Len(kept) \/ i = Len(rg)
  BY <1>5
<1>7. ASSUME NEW i \in 1 .. Len(kept)
      PROVE  rg[i] = ring[i + d] /\ i + d \in 1 .. Len(ring) /\ rg[i].run = ctlRun /\ rg[i].id < nextID /\ rg[i].id \in Nat
  <2>1. rg[i] = ring[i + d] /\ i + d \in 1 .. Len(ring)
    BY <1>1, <1>3, <1>5
  <2>2. ring[i + d] \in FeedNote
    BY <1>1, <2>1
  <2> QED BY <1>1, <2>1, <2>2 DEF RingSound, FeedNote
<1>8. \A i \in 1 .. Len(rg) : rg[i].run = ctlRun /\ rg[i].id < nextID + 1 /\ rg[i].id <= nextID
  <2> SUFFICES ASSUME NEW i \in 1 .. Len(rg) PROVE rg[i].run = ctlRun /\ rg[i].id < nextID + 1 /\ rg[i].id <= nextID
    OBVIOUS
  <2>1. CASE i \in 1 .. Len(kept)
    BY <1>1, <1>7, <2>1
  <2>2. CASE i = Len(rg)
    BY <1>1, <1>4, <1>5, <2>2
  <2> QED BY <1>6, <2>1, <2>2
<1>9. ASSUME NEW i \in 1 .. Len(rg), NEW j \in 1 .. Len(rg), i < j PROVE rg[i].id < rg[j].id
  <2>1. i \in 1 .. Len(kept)
    BY <1>5, <1>9
  <2>2. CASE j \in 1 .. Len(kept)
    <3>1. rg[i] = ring[i + d] /\ rg[j] = ring[j + d] /\ i + d \in 1 .. Len(ring) /\ j + d \in 1 .. Len(ring)
      BY <1>7, <2>1, <2>2
    <3>2. i + d < j + d
      BY <1>9, <2>1, <2>2
    <3> QED BY <1>1, <3>1, <3>2 DEF RingSound
  <2>3. CASE j = Len(rg)
    BY <1>4, <1>5, <1>7, <2>1, <2>3
  <2> QED BY <1>6, <2>2, <2>3
<1>10. RingSound(rg, nextID + 1, ctlRun)
  BY <1>8, <1>9 DEF RingSound
<1>11. GotSound(poll, rg, ctlRun, cursor)
  <2>1. poll.pc = "last" => \A i \in 1 .. Len(poll.got) : poll.got[i].run = ctlRun /\ Len(rg) >= 1 /\ poll.got[i].id <= rg[Len(rg)].id
    <3> SUFFICES ASSUME poll.pc = "last", NEW i \in 1 .. Len(poll.got)
                 PROVE  poll.got[i].run = ctlRun /\ Len(rg) >= 1 /\ poll.got[i].id <= rg[Len(rg)].id
      OBVIOUS
    <3>1. poll.got[i].run = ctlRun /\ Len(ring) >= 1 /\ poll.got[i].id <= ring[Len(ring)].id
      BY <1>1 DEF GotSound
    <3>2. ring[Len(ring)].id < nextID /\ ring[Len(ring)] \in FeedNote
      BY <1>1, <3>1 DEF RingSound
    <3>3. poll.got[i] \in FeedNote
      BY DEF FeedInv, FeedTypes, FeedPolls
    <3>4. poll.got[i].id \in Nat /\ ring[Len(ring)].id \in Nat
      BY <3>2, <3>3 DEF FeedNote
    <3> QED BY <1>1, <1>4, <1>5, <3>1, <3>2, <3>4
  <2> QED BY <1>1, <2>1 DEF GotSound
<1>12. FeedTypes'
  <2>1. nextID + 1 \in Nat /\ noted' \in Nat
    BY <1>1, <1>2 DEF FeedInv, FeedTypes
  <2> QED BY <1>2, <1>5, <2>1 DEF FeedInv, FeedTypes
<1> QED BY <1>2, <1>10, <1>11, <1>12 DEF FeedInv

\* The numbers begin again, of a later run: all that was sent stays before them.
LEMMA RestartStep ==
    ASSUME FeedInv, CtlRestart
    PROVE  FeedInv'
<1> DEFINE dropped2 == [poll EXCEPT !.pc = "wait", !.got = << >>]
<1>1. /\ ctlRun \in Nat /\ cursor \in Nat /\ poll \in FeedPolls /\ GotSound(poll, ring, ctlRun, cursor)
      /\ ctlRun' = ctlRun + 1 /\ ring' = << >> /\ nextID' = 1 /\ UNCHANGED <<cursor, browser, broken, noted>>
      /\ poll' = IF poll.pc = "last" THEN dropped2 ELSE poll
  BY DEF FeedInv, FeedTypes, CtlRestart
<1>2. /\ dropped2 \in FeedPolls /\ dropped2.pc = "wait" /\ dropped2.got = << >>
  <2>1. << >> \in Seq(FeedNote)
    OBVIOUS
  <2> QED BY <1>1, <2>1 DEF FeedPolls
<1> HIDE DEF dropped2
<1>3. FeedTypes'
  <2>1. ring' \in Seq(FeedNote) /\ nextID' \in Nat /\ ctlRun' \in Nat /\ poll' \in FeedPolls
    BY <1>1, <1>2
  <2> QED BY <1>1, <2>1 DEF FeedInv, FeedTypes
<1>4. RingSound(ring', nextID', ctlRun')
  BY <1>1 DEF RingSound
<1>5. \A i \in 1 .. Len(poll'.got) : poll'.got[i].run < ctlRun'
  <2>1. CASE poll.pc = "last"
    BY <1>1, <1>2, <2>1
  <2>2. CASE poll.pc # "last"
    <3> SUFFICES ASSUME NEW i \in 1 .. Len(poll.got) PROVE poll.got[i].run < ctlRun + 1
      BY <1>1, <2>2
    <3>1. poll.got[i] \in FeedNote /\ poll.got[i].run <= ctlRun
      BY <1>1 DEF GotSound, FeedPolls
    <3>2. poll.got[i].run \in Nat
      BY <3>1 DEF FeedNote
    <3> QED BY <1>1, <3>1, <3>2
  <2> QED BY <2>1, <2>2
<1>6. \A i \in 1 .. Len(poll'.got) : poll'.got[i].run \in Nat
  <2>1. \A i \in 1 .. Len(poll'.got) : poll'.got[i] \in FeedNote
    BY <1>3 DEF FeedTypes, FeedPolls
  <2> QED BY <2>1 DEF FeedNote
<1>7. Sorted(poll'.got) /\ poll'.pc # "last" /\ (poll'.pc = "wait" => poll'.got = << >>) /\ (poll'.pc = "publish" => poll'.got # << >>)
  <2>1. CASE poll.pc = "last"
    BY <1>1, <1>2, <2>1 DEF Sorted
  <2>2. CASE poll.pc # "last"
    BY <1>1, <2>2 DEF GotSound
  <2> QED BY <2>1, <2>2
<1>8. GotSound(poll', ring', ctlRun', cursor')
  BY <1>3, <1>5, <1>6, <1>7 DEF GotSound, FeedTypes
<1>9. ASSUME NEW b \in Browsers PROVE StreamSound(Stream(browser'[b]), poll', ctlRun', cursor')
  <2> DEFINE s == Stream(browser[b])
  <2>1. s \in Seq(FeedNote) /\ StreamSound(s, poll, ctlRun, cursor)
    BY StreamTyped DEF FeedInv, FeedTypes
  <2> HIDE DEF s
  <2>2. \A k \in 1 .. Len(s) : s[k].run \in Nat /\ s[k].run <= ctlRun
    <3>1. \A k \in 1 .. Len(s) : s[k] \in FeedNote
      BY <2>1
    <3> QED BY <2>1, <3>1 DEF StreamSound, FeedNote
  <2>3. \A k \in 1 .. Len(s) : s[k].run < ctlRun' /\ s[k].run <= ctlRun' /\ s[k].run # ctlRun'
    BY <1>1, <2>2
  <2>4. \A k \in 1 .. Len(s) : \A i \in 1 .. Len(poll'.got) : Before(s[k], poll'.got[i])
    <3>1. CASE poll.pc = "last"
      <4>1. Len(poll'.got) = 0
        BY <1>1, <1>2, <3>1
      <4> QED BY <4>1
    <3>2. CASE poll.pc # "last"
      BY <1>1, <2>1, <3>2 DEF StreamSound
    <3> QED BY <3>1, <3>2
  <2>5. StreamSound(s, poll', ctlRun', cursor')
    BY <2>1, <2>3, <2>4 DEF StreamSound
  <2> QED BY <1>1, <2>5 DEF s
<1> QED BY <1>1, <1>3, <1>4, <1>8, <1>9 DEF FeedInv

\* Places in ascending order keep the order of what is there.
LEMMA GetSinceStep ==
    ASSUME FeedInv, GetSince
    PROVE  FeedInv'
<1> DEFINE K == {i \in DOMAIN ring : ring[i].id > cursor}
<1>1. PICK newer \in SetToSeqs(K) :
         /\ \A i, j \in DOMAIN newer : i < j => newer[i] < newer[j]
         /\ poll' = [poll EXCEPT !.pc = "last", !.got = [i \in DOMAIN newer |-> ring[newer[i]]]]
  BY DEF GetSince
<1> DEFINE got == [i \in DOMAIN newer |-> ring[newer[i]]]
           m == Cardinality(K)
<1>2. /\ ring \in Seq(FeedNote) /\ Len(ring) \in Nat /\ ctlRun \in Nat /\ cursor \in Nat /\ poll \in FeedPolls
      /\ RingSound(ring, nextID, ctlRun) /\ poll.pc = "wait" /\ nextID \in Nat
      /\ UNCHANGED <<ring, nextID, ctlRun, cursor, browser, broken, noted>>
  BY DEF FeedInv, FeedTypes, GetSince
<1>3. m \in Nat /\ newer \in [1 .. m -> K] /\ K \subseteq 1 .. Len(ring)
  <2>1. IsFiniteSet(1 .. Len(ring)) /\ K \subseteq 1 .. Len(ring)
    <3>1. IsFiniteSet(1 .. Len(ring))
      <4>1. 1 \in Int /\ Len(ring) \in Int
        BY <1>2
      <4> QED BY <4>1, FS_Interval
    <3>2. DOMAIN ring = 1 .. Len(ring)
      BY <1>2
    <3> QED BY <3>1, <3>2
  <2>2. m \in Nat
    BY <2>1, FS_Subset, FS_CardinalityType
  <2> QED BY <2>1, <2>2 DEF SetToSeqs
<1> HIDE DEF m
<1>4. \A i \in 1 .. m : newer[i] \in 1 .. Len(ring) /\ ring[newer[i]].id > cursor
  BY <1>3
<1> HIDE DEF K
<1>5. /\ got \in Seq(FeedNote) /\ Len(got) = m /\ \A i \in 1 .. m : got[i] = ring[newer[i]]
  <2>1. DOMAIN newer = 1 .. m
    BY <1>3
  <2>2. got = [i \in 1 .. m |-> ring[newer[i]]]
    BY <2>1
  <2>3. \A i \in 1 .. m : ring[newer[i]] \in FeedNote
    BY <1>2, <1>4
  <2> HIDE DEF got
  <2>4. got \in [1 .. m -> FeedNote]
    BY <2>2, <2>3
  <2>5. got \in Seq(FeedNote) /\ Len(got) = m
    BY <1>3, <2>4
  <2> QED BY <2>2, <2>5
<1>6. poll' = [poll EXCEPT !.pc = "last", !.got = got]
  BY <1>1
<1> HIDE DEF got
<1>7. poll' \in FeedPolls /\ poll'.pc = "last" /\ poll'.got = got
  BY <1>2, <1>5, <1>6 DEF FeedPolls
<1>8. \A i \in 1 .. m : /\ got[i].run = ctlRun /\ got[i].id > cursor /\ got[i].id \in Nat /\ Len(ring) >= 1
                        /\ got[i].id <= ring[Len(ring)].id
  <2> SUFFICES ASSUME NEW i \in 1 .. m
               PROVE  /\ got[i].run = ctlRun /\ got[i].id > cursor /\ got[i].id \in Nat /\ Len(ring) >= 1
                      /\ got[i].id <= ring[Len(ring)].id
    OBVIOUS
  <2> DEFINE k == newer[i]
  <2>1. k \in 1 .. Len(ring) /\ got[i] = ring[k] /\ ring[k].id > cursor
    BY <1>4, <1>5
  <2> HIDE DEF k
  <2>2. Len(ring) \in 1 .. Len(ring) /\ Len(ring) >= 1
    BY <1>2, <2>1
  <2>3. ring[k] \in FeedNote /\ ring[Len(ring)] \in FeedNote
    BY <1>2, <2>1, <2>2
  <2>4. ring[k].id \in Nat /\ ring[Len(ring)].id \in Nat
    BY <2>3 DEF FeedNote
  <2>5. ring[k].id <= ring[Len(ring)].id
    <3>1. CASE k = Len(ring)
      BY <2>4, <3>1
    <3>2. CASE k # Len(ring)
      <4>1. k < Len(ring)
        BY <1>2, <2>1, <3>2
      <4>2. ring[k].id < ring[Len(ring)].id
        BY <1>2, <2>1, <2>2, <4>1 DEF RingSound
      <4> QED BY <2>4, <4>2
    <3> QED BY <3>1, <3>2
  <2> QED BY <1>2, <2>1, <2>2, <2>4, <2>5 DEF RingSound
<1>9. Sorted(got)
  <2> SUFFICES ASSUME NEW i \in 1 .. m, NEW j \in 1 .. m, i < j PROVE Before(got[i], got[j])
    BY <1>5 DEF Sorted
  <2> DEFINE k == newer[i]
             l == newer[j]
  <2>1. k \in 1 .. Len(ring) /\ l \in 1 .. Len(ring) /\ got[i] = ring[k] /\ got[j] = ring[l]
    BY <1>4, <1>5
  <2>2. k < l
    <3>1. DOMAIN newer = 1 .. m
      BY <1>3
    <3> QED BY <1>1, <3>1
  <2> HIDE DEF k, l
  <2>3. ring[k].id < ring[l].id
    BY <1>2, <2>1, <2>2 DEF RingSound
  <2> QED BY <1>8, <2>1, <2>3 DEF Before
<1>10. GotSound(poll', ring', ctlRun', cursor')
  BY <1>2, <1>5, <1>7, <1>8, <1>9 DEF GotSound
<1>11. FeedTypes'
  BY <1>2, <1>7 DEF FeedInv, FeedTypes
<1>12. ASSUME NEW b \in Browsers PROVE StreamSound(Stream(browser'[b]), poll', ctlRun', cursor')
  <2> DEFINE s == Stream(browser[b])
  <2>1. s \in Seq(FeedNote) /\ StreamSound(s, poll, ctlRun, cursor)
    BY StreamTyped DEF FeedInv, FeedTypes
  <2> HIDE DEF s
  <2>2. \A k \in 1 .. Len(s) : s[k].run \in Nat /\ s[k].id \in Nat /\ s[k].run <= ctlRun /\ (s[k].run = ctlRun => s[k].id <= cursor)
    <3>1. \A k \in 1 .. Len(s) : s[k] \in FeedNote
      BY <2>1
    <3> QED BY <1>2, <2>1, <3>1 DEF StreamSound, FeedNote
  <2>3. \A k \in 1 .. Len(s) : \A i \in 1 .. m : Before(s[k], got[i])
    BY <1>2, <1>8, <2>2 DEF Before
  <2>4. StreamSound(s, poll', ctlRun', cursor')
    BY <1>2, <1>5, <1>7, <2>1, <2>2, <2>3 DEF StreamSound
  <2> QED BY <1>2, <2>4 DEF s
<1> QED BY <1>2, <1>10, <1>11, <1>12 DEF FeedInv

\* The number read in the second half is at or above all that was got.
LEMMA LastIDStep ==
    ASSUME FeedInv, LastID
    PROVE  FeedInv'
<1> DEFINE last == IF ring = << >> THEN 0 ELSE ring[Len(ring)].id
           pc == IF poll.got = << >> THEN "wait" ELSE "publish"
<1>1. /\ ring \in Seq(FeedNote) /\ Len(ring) \in Nat /\ poll \in FeedPolls /\ poll.pc = "last" /\ GotSound(poll, ring, ctlRun, cursor)
      /\ UNCHANGED <<ring, nextID, ctlRun, cursor, browser, broken, noted>>
      /\ poll' = [poll EXCEPT !.pc = pc, !.last = last]
  BY DEF FeedInv, FeedTypes, LastID, Last
<1>2. last \in Nat
  <2>1. CASE ring = << >>
    BY <2>1
  <2>2. CASE ring # << >>
    <3>1. ring[Len(ring)] \in FeedNote
      BY <1>1, <2>2
    <3> QED BY <2>2, <3>1 DEF FeedNote
  <2> QED BY <2>1, <2>2
<1>3. Len(ring) >= 1 => last = ring[Len(ring)].id
  <2>1. Len(ring) >= 1 => ring # << >>
    BY <1>1
  <2> QED BY <2>1
<1>4. pc \in {"wait", "publish"} /\ (pc = "wait" <=> poll.got = << >>)
  OBVIOUS
<1> HIDE DEF last, pc
<1>5. poll' \in FeedPolls /\ poll'.pc = pc /\ poll'.last = last /\ poll'.got = poll.got
  BY <1>1, <1>2, <1>4 DEF FeedPolls
<1>6. \A i \in 1 .. Len(poll.got) : poll.got[i].run = ctlRun => poll.got[i].id <= last
  BY <1>1, <1>3 DEF GotSound
<1>7. GotSound(poll', ring', ctlRun', cursor')
  BY <1>1, <1>4, <1>5, <1>6 DEF GotSound
<1>8. FeedTypes'
  BY <1>1, <1>5 DEF FeedInv, FeedTypes
<1>9. ASSUME NEW b \in Browsers PROVE StreamSound(Stream(browser'[b]), poll', ctlRun', cursor')
  BY <1>1, <1>5 DEF FeedInv, StreamSound
<1> QED BY <1>1, <1>7, <1>8, <1>9 DEF FeedInv

LEMMA FeedStep == ASSUME FeedInv, FeedNext \/ UNCHANGED feedVars PROVE FeedInv'
<1>1. ASSUME NEW b \in Browsers, Connect(b) \/ RegisterWs(b) \/ ReadTopics(b) \/ ReadFails(b) \/ WriteMessage(b) \/ Unregister(b)
      PROVE  FeedInv'
  <2> DEFINE r == browser[b]
  <2>1. r \in FeedBrowsers /\ (r.state # "gone" => r.open)
    BY DEF FeedInv, FeedTypes
  <2>2. CASE Connect(b)
    <3> DEFINE r2 == [r EXCEPT !.state = "joining"]
    <3>1. r2 \in FeedBrowsers /\ r2.shown = r.shown /\ r2.queue = r.queue /\ r2.state = "joining"
      BY <2>1 DEF FeedBrowsers
    <3>2. Feed(b, r2)
      BY <2>2 DEF Connect
    <3> HIDE DEF r2
    <3>3. r.open
      BY <2>1, <2>2 DEF Connect
    <3>4. r2.open = r.open
      BY <2>1 DEF r2, FeedBrowsers
    <3> QED BY <3>1, <3>2, <3>3, <3>4, OneBrowser DEF Stream
  <2>3. CASE RegisterWs(b)
    <3> DEFINE r2 == [r EXCEPT !.state = "in"]
    <3>1. r2 \in FeedBrowsers /\ r2.shown = r.shown /\ r2.queue = r.queue /\ r2.open = r.open
      BY <2>1 DEF FeedBrowsers
    <3>2. Feed(b, r2) /\ r.state = "joining"
      BY <2>3 DEF RegisterWs
    <3>3. r.open
      BY <2>1, <3>2
    <3> HIDE DEF r2
    <3> QED BY <3>1, <3>2, <3>3, OneBrowser DEF Stream
  <2>4. CASE ReadTopics(b)
    <3> DEFINE r2 == [r EXCEPT !.topic = ~@]
    <3>1. r2 \in FeedBrowsers /\ r2.shown = r.shown /\ r2.queue = r.queue /\ r2.open = r.open /\ r2.state = r.state
      BY <2>1 DEF FeedBrowsers
    <3>2. Feed(b, r2)
      BY <2>4 DEF ReadTopics
    <3> HIDE DEF r2
    <3> QED BY <2>1, <3>1, <3>2, OneBrowser DEF Stream
  <2>5. CASE ReadFails(b)
    <3> DEFINE r2 == [r EXCEPT !.state = "leaving"]
    <3>1. r2 \in FeedBrowsers /\ r2.shown = r.shown /\ r2.queue = r.queue /\ r2.open = r.open
      BY <2>1 DEF FeedBrowsers
    <3>2. Feed(b, r2) /\ r.state = "in"
      BY <2>5 DEF ReadFails
    <3> HIDE DEF r2
    <3>3. r.open
      BY <2>1, <3>2
    <3> QED BY <3>1, <3>2, <3>3, OneBrowser DEF Stream
  <2>6. CASE WriteMessage(b)
    <3> DEFINE r2 == [r EXCEPT !.queue = Tail(@), !.shown = Append(@, Head(r.queue))]
    <3>1. Feed(b, r2) /\ r.queue # << >>
      BY <2>6 DEF WriteMessage
    <3>2. r2 \in FeedBrowsers /\ Stream(r2) = Stream(r)
      BY <2>1, <3>1, WrittenStream
    <3>3. r2.open = r.open /\ r2.state = r.state
      BY <2>1 DEF FeedBrowsers
    <3> HIDE DEF r2
    <3> QED BY <2>1, <3>1, <3>2, <3>3, OneBrowser
  <2>7. CASE Unregister(b)
    <3> DEFINE r2 == AfterUnregister(r)
    <3>1. r2 \in FeedBrowsers /\ r2.shown = r.shown /\ r2.queue = r.queue /\ r2.state = "gone"
      BY <2>1 DEF FeedBrowsers, AfterUnregister
    <3>2. Feed(b, r2)
      BY <2>7 DEF Unregister
    <3> HIDE DEF r2
    <3> QED BY <3>1, <3>2, OneBrowser DEF Stream
  <2> QED BY <1>1, <2>2, <2>3, <2>4, <2>5, <2>6, <2>7
<1>2. CASE UNCHANGED feedVars
  BY <1>2 DEF feedVars, FeedInv, FeedTypes
<1> QED BY <1>1, <1>2, NotifyStep, RestartStep, GetSinceStep, LastIDStep, SendStep DEF FeedNext

-----------------------------------------------------------------------------
(***************************************************************************)
(* What a sum over a finite set is: the library takes the elements one at  *)
(* a time in an order it chooses; for natural numbers no order matters.    *)
(***************************************************************************)
SomeOf(s) == CHOOSE x \in s : TRUE
SumFrom(f, g, s) == IF s = {} THEN 0 ELSE f[SomeOf(s)] + g[s \ {SomeOf(s)}]
IsSums(f, L, g) == g = [s \in L |-> SumFrom(f, g, s)]

\* A set of naturals with 0 and the successor of each of its members is all.
LEMMA AllNaturals ==
    ASSUME NEW F, 0 \in F, \A n \in Nat : n \in F => n + 1 \in F
    PROVE  \A n \in Nat : n \in F
<1> DEFINE T == {n \in Nat : n \notin F}
<1> SUFFICES ASSUME T # {} PROVE FALSE
  OBVIOUS
<1>1. T \subseteq Nat
  OBVIOUS
<1>2. PICK x \in T : \A y \in T : ~(<<y, x>> \in OpToRel(<, Nat))
  BY <1>1, NatLessThanWellFounded, WFMin
<1>3. x \in Nat /\ \A y \in T : ~(y < x)
  BY <1>1, <1>2 DEF OpToRel
<1>4. x # 0 /\ x - 1 \in Nat
  BY <1>3
<1>5. x - 1 \notin T
  BY <1>3, <1>4
<1>6. x - 1 + 1 \in F
  BY <1>4, <1>5
<1> QED BY <1>3, <1>6

\* A family of finite sets with the empty one and each of its members
\* enlarged by one element has all.
LEMMA AllFiniteSets ==
    ASSUME NEW S, IsFiniteSet(S), NEW F, {} \in F,
           \A T \in SUBSET S : \A x \in S : x \notin T /\ T \in F => T \cup {x} \in F
    PROVE  S \in F
<1> DEFINE N == {n \in Nat : \A T \in SUBSET S : Cardinality(T) = n => T \in F}
<1>1. 0 \in N
  BY FS_EmptySet, FS_Subset
<1>2. \A n \in Nat : n \in N => n + 1 \in N
  <2> SUFFICES ASSUME NEW n \in Nat, n \in N, NEW T \in SUBSET S, Cardinality(T) = n + 1
               PROVE  T \in F
    OBVIOUS
  <2>1. IsFiniteSet(T)
    BY FS_Subset
  <2>2. PICK x \in T : TRUE
    BY <2>1, FS_EmptySet
  <2>3. Cardinality(T \ {x}) = n
    <3>1. Cardinality(T \ {x}) = Cardinality(T) - 1
      BY <2>1, <2>2, FS_RemoveElement
    <3> QED BY <3>1
  <2>4. T \ {x} \in F /\ T \ {x} \in SUBSET S
    BY <2>3
  <2>5. (T \ {x}) \cup {x} \in F
    BY <2>4
  <2>6. (T \ {x}) \cup {x} = T
    OBVIOUS
  <2> QED BY <2>5, <2>6
<1> HIDE DEF N
<1>3. Cardinality(S) \in N
  BY <1>1, <1>2, AllNaturals, FS_CardinalityType
<1> QED BY <1>3 DEF N

\* The sums of all subsets of a finite set exist ...
LEMMA SumsExist ==
    ASSUME NEW D, NEW f \in [D -> Nat], NEW S \in SUBSET D, IsFiniteSet(S)
    PROVE  \E g \in [SUBSET S -> Nat] : IsSums(f, SUBSET S, g)
<1> DEFINE Level(n) == {s \in SUBSET S : Cardinality(s) <= n}
           F == {n \in Nat : \E g \in [Level(n) -> Nat] : IsSums(f, Level(n), g)}
<1>1. \A s \in SUBSET S : IsFiniteSet(s) /\ Cardinality(s) \in Nat /\ Cardinality(s) <= Cardinality(S)
  BY FS_Subset, FS_CardinalityType
<1>2. 0 \in F
  <2>1. \A s \in Level(0) : s = {}
    BY <1>1, FS_EmptySet
  <2> DEFINE g == [s \in Level(0) |-> 0]
  <2>2. g \in [Level(0) -> Nat]
    OBVIOUS
  <2>3. \A s \in Level(0) : SumFrom(f, g, s) = 0
    BY <2>1 DEF SumFrom
  <2>4. IsSums(f, Level(0), g)
    BY <2>3 DEF IsSums
  <2> QED BY <2>2, <2>4
<1>3. \A n \in Nat : n \in F => n + 1 \in F
  <2> SUFFICES ASSUME NEW n \in Nat, n \in F PROVE n + 1 \in F
    OBVIOUS
  <2>1. PICK g \in [Level(n) -> Nat] : IsSums(f, Level(n), g)
    OBVIOUS
  <2> DEFINE h == [s \in Level(n + 1) |-> SumFrom(f, g, s)]
  <2>2. \A s \in Level(n + 1) : s # {} => SomeOf(s) \in s /\ s \ {SomeOf(s)} \in Level(n)
    <3> SUFFICES ASSUME NEW s \in Level(n + 1), s # {}
                 PROVE  SomeOf(s) \in s /\ s \ {SomeOf(s)} \in Level(n)
      OBVIOUS
    <3>1. SomeOf(s) \in s
      BY DEF SomeOf
    <3>2. Cardinality(s \ {SomeOf(s)}) = Cardinality(s) - 1
      BY <3>1, <1>1, FS_RemoveElement
    <3>3. Cardinality(s \ {SomeOf(s)}) <= n
      BY <3>2, <1>1
    <3> QED BY <3>1, <3>3
  <2>3. \A s \in Level(n) : s \in Level(n + 1)
    BY <1>1
  <2>4. \A s \in Level(n) : g[s] = SumFrom(f, g, s)
    BY <2>1 DEF IsSums
  <2> HIDE DEF Level
  <2>5. \A s \in Level(n) : h[s] = g[s]
    BY <2>3, <2>4
  <2> HIDE DEF h
  <2>6. \A s \in Level(n + 1) : SumFrom(f, h, s) = SumFrom(f, g, s)
    <3> SUFFICES ASSUME NEW s \in Level(n + 1) PROVE SumFrom(f, h, s) = SumFrom(f, g, s)
      OBVIOUS
    <3>1. CASE s = {}
      BY <3>1 DEF SumFrom
    <3>2. CASE s # {}
      <4>1. h[s \ {SomeOf(s)}] = g[s \ {SomeOf(s)}]
        BY <3>2, <2>2, <2>5
      <4> QED BY <4>1, <3>2 DEF SumFrom
    <3> QED BY <3>1, <3>2
  <2>7. \A s \in Level(n + 1) : SumFrom(f, g, s) \in Nat
    <3> SUFFICES ASSUME NEW s \in Level(n + 1) PROVE SumFrom(f, g, s) \in Nat
      OBVIOUS
    <3>1. CASE s = {}
      BY <3>1 DEF SumFrom
    <3>2. CASE s # {}
      <4>1. SomeOf(s) \in D
        BY <3>2, <2>2 DEF Level
      <4>2. f[SomeOf(s)] \in Nat /\ g[s \ {SomeOf(s)}] \in Nat
        BY <4>1, <3>2, <2>2
      <4> QED BY <4>2, <3>2 DEF SumFrom
    <3> QED BY <3>1, <3>2
  <2>8. h \in [Level(n + 1) -> Nat]
    BY <2>7 DEF h
  <2>9. IsSums(f, Level(n + 1), h)
    <3>1. h = [s \in Level(n + 1) |-> SumFrom(f, g, s)]
      BY DEF h
    <3> QED BY <2>6, <3>1 DEF IsSums
  <2> QED BY <2>8, <2>9
<1>4. Level(Cardinality(S)) = SUBSET S
  BY <1>1
<1> HIDE DEF F, Level
<1>5. Cardinality(S) \in F
  BY <1>2, <1>3, AllNaturals, FS_CardinalityType
<1> QED BY <1>4, <1>5 DEF F

\* ... and are the same whichever set the subsets are taken of.
LEMMA SumsAgree ==
    ASSUME NEW f, NEW S, NEW T, NEW g, NEW h, IsSums(f, SUBSET S, g), IsSums(f, SUBSET T, h),
           NEW C, IsFiniteSet(C), C \subseteq S, C \subseteq T
    PROVE  g[C] = h[C]
<1> DEFINE F == {n \in Nat : \A s \in SUBSET C : Cardinality(s) = n => g[s] = h[s]}
<1>1. \A s \in SUBSET C : /\ IsFiniteSet(s) /\ Cardinality(s) \in Nat
                          /\ g[s] = SumFrom(f, g, s) /\ h[s] = SumFrom(f, h, s)
  <2>1. \A s \in SUBSET C : IsFiniteSet(s) /\ Cardinality(s) \in Nat
    BY FS_Subset, FS_CardinalityType
  <2>2. \A s \in SUBSET C : s \in SUBSET S /\ s \in SUBSET T
    OBVIOUS
  <2> QED BY <2>1, <2>2 DEF IsSums
<1>2. 0 \in F
  BY <1>1, FS_EmptySet DEF SumFrom
<1>3. \A n \in Nat : n \in F => n + 1 \in F
  <2> SUFFICES ASSUME NEW n \in Nat, n \in F, NEW s \in SUBSET C, Cardinality(s) = n + 1
               PROVE  g[s] = h[s]
    OBVIOUS
  <2>1. s # {}
    <3>1. Cardinality({}) = 0
      BY FS_EmptySet
    <3>2. Cardinality(s) # 0
      OBVIOUS
    <3> QED BY <3>1, <3>2
  <2>2. SomeOf(s) \in s
    BY <2>1 DEF SomeOf
  <2>3. Cardinality(s \ {SomeOf(s)}) = n
    BY <2>2, <1>1, FS_RemoveElement
  <2>4. g[s \ {SomeOf(s)}] = h[s \ {SomeOf(s)}]
    BY <2>3
  <2> QED BY <2>4, <1>1, <2>1 DEF SumFrom
<1> HIDE DEF F
<1>4. Cardinality(C) \in F
  BY <1>2, <1>3, AllNaturals, FS_CardinalityType
<1> QED BY <1>4 DEF F

LEMMA SumsUnique ==
    ASSUME NEW f, NEW C, IsFiniteSet(C), NEW g, NEW h, IsSums(f, SUBSET C, g), IsSums(f, SUBSET C, h)
    PROVE  g[C] = h[C]
<1>1. C \subseteq C
  OBVIOUS
<1> QED BY <1>1, SumsAgree

SumsOf(f, S) == CHOOSE g : IsSums(f, SUBSET S, g)

\* The library's definition, unfolded.
LEMMA SumIsSumsOf == \A f, S : SumFunctionOnSet(f, S) = SumsOf(f, S)[S]
BY DEF SumFunctionOnSet, FoldFunctionOnSet, MapThenFoldSet, SumsOf, IsSums, SumFrom, SomeOf

-----------------------------------------------------------------------------
\* The empty sum; a sum of naturals is one, and is the chosen element's value
\* and the sum of the others.
LEMMA SumEmpty == \A f : SumFunctionOnSet(f, {}) = 0
<1> SUFFICES ASSUME NEW f PROVE SumFunctionOnSet(f, {}) = 0
  OBVIOUS
<1> DEFINE g == [s \in SUBSET {} |-> 0]
<1>1. IsSums(f, SUBSET {}, g)
  <2>1. \A s \in SUBSET {} : SumFrom(f, g, s) = 0
    BY DEF SumFrom
  <2> QED BY <2>1 DEF IsSums
<1>2. IsSums(f, SUBSET {}, SumsOf(f, {}))
  BY <1>1 DEF SumsOf
<1> HIDE DEF g
<1>3. SumsOf(f, {})[{}] = SumFrom(f, SumsOf(f, {}), {})
  BY <1>2 DEF IsSums
<1> QED BY <1>3, SumIsSumsOf DEF SumFrom

LEMMA SumsOfSound ==
    ASSUME NEW D, NEW f \in [D -> Nat], NEW C \in SUBSET D, IsFiniteSet(C)
    PROVE  IsSums(f, SUBSET C, SumsOf(f, C)) /\ SumFunctionOnSet(f, C) = SumsOf(f, C)[C]
           /\ SumFunctionOnSet(f, C) \in Nat
<1>1. PICK g \in [SUBSET C -> Nat] : IsSums(f, SUBSET C, g)
  BY SumsExist
<1>2. IsSums(f, SUBSET C, SumsOf(f, C))
  BY <1>1 DEF SumsOf
<1>3. SumFunctionOnSet(f, C) = SumsOf(f, C)[C]
  BY SumIsSumsOf
<1>4. SumsOf(f, C)[C] = g[C]
  BY <1>1, <1>2, SumsUnique
<1>5. g[C] \in Nat
  OBVIOUS
<1> QED BY <1>2, <1>3, <1>4, <1>5

LEMMA SumChosen ==
    ASSUME NEW D, NEW f \in [D -> Nat], NEW C \in SUBSET D, IsFiniteSet(C), C # {}
    PROVE  /\ SomeOf(C) \in C
           /\ SumFunctionOnSet(f, C) = f[SomeOf(C)] + SumFunctionOnSet(f, C \ {SomeOf(C)})
<1> DEFINE x == SomeOf(C)
<1>1. x \in C
  BY DEF SomeOf
<1> HIDE DEF x
<1> DEFINE R == C \ {x}
<1>2. R \in SUBSET D /\ IsFiniteSet(R) /\ R \subseteq C
  BY FS_Subset
<1> HIDE DEF R
<1>3. SumsOf(f, C)[R] = SumsOf(f, R)[R]
  <2>1. IsSums(f, SUBSET C, SumsOf(f, C))
    BY SumsOfSound
  <2>2. IsSums(f, SUBSET R, SumsOf(f, R))
    BY <1>2, SumsOfSound
  <2> QED BY <1>2, <2>1, <2>2, SumsAgree
<1>4. SumsOf(f, C)[C] = SumFrom(f, SumsOf(f, C), C)
  <2>1. IsSums(f, SUBSET C, SumsOf(f, C))
    BY SumsOfSound
  <2>2. C \in SUBSET C
    OBVIOUS
  <2> QED BY <2>1, <2>2 DEF IsSums
<1>5. SumFrom(f, SumsOf(f, C), C) = f[x] + SumsOf(f, C)[R]
  BY DEF SumFrom, x, R
<1>6. SumFunctionOnSet(f, C) = f[x] + SumFunctionOnSet(f, R)
  BY <1>3, <1>4, <1>5, SumIsSumsOf
<1> QED BY <1>1, <1>6 DEF x, R

\* Any element may be taken first.
LEMMA SumSplit ==
    ASSUME NEW D, IsFiniteSet(D), NEW f \in [D -> Nat]
    PROVE  \A C \in SUBSET D : \A x \in C :
               SumFunctionOnSet(f, C) = f[x] + SumFunctionOnSet(f, C \ {x})
<1> DEFINE Splits(C) == \A x \in C : SumFunctionOnSet(f, C) = f[x] + SumFunctionOnSet(f, C \ {x})
           F == {n \in Nat : \A C \in SUBSET D : Cardinality(C) = n => Splits(C)}
<1>1. \A C \in SUBSET D : IsFiniteSet(C) /\ Cardinality(C) \in Nat /\ SumFunctionOnSet(f, C) \in Nat
  BY FS_Subset, FS_CardinalityType, SumsOfSound
<1>2. 0 \in F
  BY <1>1, FS_EmptySet
<1>3. \A n \in Nat : n \in F => n + 1 \in F
  <2> HIDE DEF Splits
  <2> SUFFICES ASSUME NEW n \in Nat, n \in F, NEW C \in SUBSET D, Cardinality(C) = n + 1
               PROVE  Splits(C)
    OBVIOUS
  <2>0. \A B \in SUBSET D : Cardinality(B) = n => Splits(B)
    OBVIOUS
  <2> SUFFICES ASSUME NEW x \in C
               PROVE  SumFunctionOnSet(f, C) = f[x] + SumFunctionOnSet(f, C \ {x})
    BY DEF Splits
  <2> HIDE DEF F
  <2> DEFINE c == SomeOf(C)
  <2>1. c \in C /\ SumFunctionOnSet(f, C) = f[c] + SumFunctionOnSet(f, C \ {c})
    BY <1>1, SumChosen
  <2> HIDE DEF c
  <2>2. CASE x = c
    BY <2>1, <2>2
  <2>3. CASE x # c
    <3> DEFINE Cc == C \ {c}
               Cx == C \ {x}
               R == Cc \ {x}
    <3>1. Cardinality(Cc) = n /\ Cardinality(Cx) = n
      <4>1. Cardinality(Cc) = Cardinality(C) - 1 /\ Cardinality(Cx) = Cardinality(C) - 1
        BY <1>1, <2>1, FS_RemoveElement
      <4> QED BY <4>1
    <3>2. Cc \in SUBSET D /\ Cx \in SUBSET D /\ x \in Cc /\ c \in Cx /\ R \in SUBSET D
      BY <2>1, <2>3
    <3>3. Splits(Cc) /\ Splits(Cx)
      BY <2>0, <3>1, <3>2
    <3>4. Cx \ {c} = R
      OBVIOUS
    <3>5. SumFunctionOnSet(f, Cc) = f[x] + SumFunctionOnSet(f, R)
      BY <3>2, <3>3 DEF Splits
    <3>6. SumFunctionOnSet(f, Cx) = f[c] + SumFunctionOnSet(f, R)
      BY <3>2, <3>3, <3>4 DEF Splits
    <3>7. f[x] \in Nat /\ f[c] \in Nat /\ SumFunctionOnSet(f, R) \in Nat
      BY <1>1, <2>1, <3>2
    <3>8. SumFunctionOnSet(f, C) = f[c] + SumFunctionOnSet(f, Cc)
      BY <2>1
    <3> HIDE DEF Cc, R
    <3>9. SumFunctionOnSet(f, C) = f[x] + SumFunctionOnSet(f, Cx)
      BY <3>5, <3>6, <3>7, <3>8
    <3> QED BY <3>9
  <2> QED BY <2>2, <2>3
<1> HIDE DEF F
<1>4. \A C \in SUBSET D : Splits(C)
  <2>1. \A n \in Nat : n \in F
    BY <1>2, <1>3, AllNaturals
  <2> QED BY <1>1, <2>1 DEF F
<1> QED BY <1>4

\* Sums of two functions that agree on the set; that are below each other; of
\* a pointwise sum; and with one point changed.
LEMMA SumSame ==
    ASSUME NEW D, IsFiniteSet(D), NEW f \in [D -> Nat], NEW g \in [D -> Nat]
    PROVE  \A C \in SUBSET D : (\A x \in C : f[x] = g[x]) =>
               SumFunctionOnSet(f, C) = SumFunctionOnSet(g, C)
<1> DEFINE F == {T \in SUBSET D : (\A x \in T : f[x] = g[x]) =>
                      SumFunctionOnSet(f, T) = SumFunctionOnSet(g, T)}
<1> SUFFICES ASSUME NEW C \in SUBSET D PROVE C \in F
  OBVIOUS
<1>1. {} \in F
  BY SumEmpty
<1>2. \A T \in SUBSET C : \A x \in C : x \notin T /\ T \in F => T \cup {x} \in F
  <2> SUFFICES ASSUME NEW T \in SUBSET C, NEW x \in C, x \notin T, T \in F,
                      \A y \in T \cup {x} : f[y] = g[y]
               PROVE  SumFunctionOnSet(f, T \cup {x}) = SumFunctionOnSet(g, T \cup {x})
    OBVIOUS
  <2>1. (T \cup {x}) \ {x} = T
    OBVIOUS
  <2>2. /\ SumFunctionOnSet(f, T \cup {x}) = f[x] + SumFunctionOnSet(f, T)
        /\ SumFunctionOnSet(g, T \cup {x}) = g[x] + SumFunctionOnSet(g, T)
    BY <2>1, SumSplit
  <2> QED BY <2>2
<1> HIDE DEF F
<1> QED BY <1>1, <1>2, AllFiniteSets, FS_Subset

LEMMA SumBelow ==
    ASSUME NEW D, IsFiniteSet(D), NEW f \in [D -> Nat], NEW g \in [D -> Nat],
           \A x \in D : f[x] <= g[x]
    PROVE  SumFunctionOnSet(f, D) <= SumFunctionOnSet(g, D)
<1> DEFINE F == {T \in SUBSET D : SumFunctionOnSet(f, T) <= SumFunctionOnSet(g, T)}
<1>1. {} \in F
  BY SumEmpty
<1>2. \A T \in SUBSET D : \A x \in D : x \notin T /\ T \in F => T \cup {x} \in F
  <2> SUFFICES ASSUME NEW T \in SUBSET D, NEW x \in D, x \notin T, T \in F
               PROVE  SumFunctionOnSet(f, T \cup {x}) <= SumFunctionOnSet(g, T \cup {x})
    OBVIOUS
  <2>1. (T \cup {x}) \ {x} = T
    OBVIOUS
  <2>2. /\ SumFunctionOnSet(f, T \cup {x}) = f[x] + SumFunctionOnSet(f, T)
        /\ SumFunctionOnSet(g, T \cup {x}) = g[x] + SumFunctionOnSet(g, T)
    BY <2>1, SumSplit
  <2>3. SumFunctionOnSet(f, T) \in Nat /\ SumFunctionOnSet(g, T) \in Nat
    BY SumsOfSound, FS_Subset
  <2>4. SumFunctionOnSet(f, T) <= SumFunctionOnSet(g, T) /\ f[x] <= g[x]
    OBVIOUS
  <2>5. f[x] \in Nat /\ g[x] \in Nat
    OBVIOUS
  <2> HIDE DEF F
  <2> QED BY <2>2, <2>3, <2>4, <2>5
<1> HIDE DEF F
<1>3. D \in F
  BY <1>1, <1>2, AllFiniteSets
<1> QED BY <1>3 DEF F

LEMMA SumOfBoth ==
    ASSUME NEW D, IsFiniteSet(D), NEW f \in [D -> Nat], NEW g \in [D -> Nat], NEW h \in [D -> Nat],
           \A x \in D : h[x] = f[x] + g[x]
    PROVE  SumFunctionOnSet(h, D) = SumFunctionOnSet(f, D) + SumFunctionOnSet(g, D)
<1> DEFINE F == {T \in SUBSET D : SumFunctionOnSet(h, T) = SumFunctionOnSet(f, T) + SumFunctionOnSet(g, T)}
<1>1. {} \in F
  BY SumEmpty
<1>2. \A T \in SUBSET D : \A x \in D : x \notin T /\ T \in F => T \cup {x} \in F
  <2> SUFFICES ASSUME NEW T \in SUBSET D, NEW x \in D, x \notin T, T \in F
               PROVE  SumFunctionOnSet(h, T \cup {x}) = SumFunctionOnSet(f, T \cup {x}) + SumFunctionOnSet(g, T \cup {x})
    OBVIOUS
  <2>1. (T \cup {x}) \ {x} = T
    OBVIOUS
  <2>2. /\ SumFunctionOnSet(f, T \cup {x}) = f[x] + SumFunctionOnSet(f, T)
        /\ SumFunctionOnSet(g, T \cup {x}) = g[x] + SumFunctionOnSet(g, T)
        /\ SumFunctionOnSet(h, T \cup {x}) = h[x] + SumFunctionOnSet(h, T)
    BY <2>1, SumSplit
  <2>3. SumFunctionOnSet(f, T) \in Nat /\ SumFunctionOnSet(g, T) \in Nat
    BY SumsOfSound, FS_Subset
  <2>4. SumFunctionOnSet(h, T) = SumFunctionOnSet(f, T) + SumFunctionOnSet(g, T) /\ h[x] = f[x] + g[x]
    OBVIOUS
  <2>5. f[x] \in Nat /\ g[x] \in Nat
    OBVIOUS
  <2> HIDE DEF F
  <2> QED BY <2>2, <2>3, <2>4, <2>5
<1> HIDE DEF F
<1>3. D \in F
  BY <1>1, <1>2, AllFiniteSets
<1> QED BY <1>3 DEF F

LEMMA SumPoint ==
    ASSUME NEW D, IsFiniteSet(D), NEW f \in [D -> Nat], NEW g \in [D -> Nat], NEW p \in D, NEW n \in Nat,
           g[p] = f[p] + n, \A x \in D \ {p} : g[x] = f[x]
    PROVE  SumFunctionOnSet(g, D) = SumFunctionOnSet(f, D) + n
<1>2. SumFunctionOnSet(g, D \ {p}) = SumFunctionOnSet(f, D \ {p})
  BY SumSame
<1>3. /\ SumFunctionOnSet(g, D) = g[p] + SumFunctionOnSet(g, D \ {p})
      /\ SumFunctionOnSet(f, D) = f[p] + SumFunctionOnSet(f, D \ {p})
  BY SumSplit
<1>4. f[p] \in Nat /\ SumFunctionOnSet(f, D \ {p}) \in Nat
  BY SumsOfSound, FS_Subset
<1> QED BY <1>2, <1>3, <1>4

\* Summed by group: the sums of the groups add up to the sum of the set.
LEMMA SumByGroup ==
    ASSUME NEW D, IsFiniteSet(D), NEW G, IsFiniteSet(G), NEW v \in [D -> Nat],
           NEW group \in [D -> G], NEW C \in SUBSET D
    PROVE  SumFunctionOnSet([d \in G |-> SumFunctionOnSet(v, {x \in C : group[x] = d})], G)
               = SumFunctionOnSet(v, C)
<1> DEFINE By(T) == [d \in G |-> SumFunctionOnSet(v, {x \in T : group[x] = d})]
           F == {T \in SUBSET C : SumFunctionOnSet(By(T), G) = SumFunctionOnSet(v, T)}
<1>0. \A T \in SUBSET D : By(T) \in [G -> Nat] /\ SumFunctionOnSet(v, T) \in Nat
  <2>1. \A T \in SUBSET D : IsFiniteSet(T) /\ SumFunctionOnSet(v, T) \in Nat
    BY SumsOfSound, FS_Subset
  <2>2. \A T \in SUBSET D : \A d \in G : {x \in T : group[x] = d} \in SUBSET D
    OBVIOUS
  <2> QED BY <2>1, <2>2
<1>1. {} \in F
  <2>1. \A d \in G : {x \in {} : group[x] = d} = {}
    OBVIOUS
  <2>2. \A d \in G : By({})[d] = 0
    BY <2>1, SumEmpty
  <2>3. \A T \in SUBSET G : SumFunctionOnSet(By({}), T) = 0
    <3> DEFINE z == By({})
    <3>1. z \in [G -> Nat] /\ \A d \in G : z[d] = 0
      BY <1>0, <2>2
    <3> HIDE DEF z
    <3> DEFINE E == {T \in SUBSET G : SumFunctionOnSet(z, T) = 0}
    <3>2. {} \in E
      BY SumEmpty
    <3>3. \A T \in SUBSET G : \A x \in G : x \notin T /\ T \in E => T \cup {x} \in E
      <4> SUFFICES ASSUME NEW T \in SUBSET G, NEW x \in G, x \notin T, T \in E
                   PROVE  SumFunctionOnSet(z, T \cup {x}) = 0
        OBVIOUS
      <4>1. (T \cup {x}) \ {x} = T
        OBVIOUS
      <4>2. SumFunctionOnSet(z, T \cup {x}) = z[x] + SumFunctionOnSet(z, T)
        BY <3>1, <4>1, SumSplit
      <4> QED BY <3>1, <4>2
    <3>4. \A U \in SUBSET G : U \in E
      <4> SUFFICES ASSUME NEW U \in SUBSET G PROVE U \in E
        OBVIOUS
      <4>1. IsFiniteSet(U)
        BY FS_Subset
      <4>2. \A T \in SUBSET U : \A x \in U : x \notin T /\ T \in E => T \cup {x} \in E
        BY <3>3
      <4> HIDE DEF E
      <4> QED BY <4>1, <4>2, <3>2, AllFiniteSets
    <3> QED BY <3>4 DEF z
  <2> QED BY <2>3, SumEmpty
<1>2. \A T \in SUBSET C : \A x \in C : x \notin T /\ T \in F => T \cup {x} \in F
  <2> SUFFICES ASSUME NEW T \in SUBSET C, NEW x \in C, x \notin T, T \in F
               PROVE  SumFunctionOnSet(By(T \cup {x}), G) = SumFunctionOnSet(v, T \cup {x})
    OBVIOUS
  <2> DEFINE U == T \cup {x}
             p == group[x]
  <2>1. p \in G /\ v[x] \in Nat /\ U \in SUBSET D /\ T \in SUBSET D
    OBVIOUS
  <2>2. By(U)[p] = By(T)[p] + v[x] /\ \A d \in G \ {p} : By(U)[d] = By(T)[d]
    <3>1. ASSUME NEW d \in G \ {p} PROVE By(U)[d] = By(T)[d]
      <4>1. {y \in U : group[y] = d} = {y \in T : group[y] = d}
        OBVIOUS
      <4> QED BY <4>1
    <3>2. By(U)[p] = By(T)[p] + v[x]
      <4> DEFINE Up == {y \in U : group[y] = p}
                 Tp == {y \in T : group[y] = p}
      <4>1. By(U)[p] = SumFunctionOnSet(v, Up) /\ By(T)[p] = SumFunctionOnSet(v, Tp)
        OBVIOUS
      <4>2. Up \in SUBSET D /\ Tp \in SUBSET D /\ x \in Up /\ Up \ {x} = Tp
        OBVIOUS
      <4> HIDE DEF By, Up, Tp, p
      <4>3. SumFunctionOnSet(v, Up) = v[x] + SumFunctionOnSet(v, Tp)
        BY <4>2, SumSplit
      <4>4. SumFunctionOnSet(v, Tp) \in Nat
        BY <1>0, <4>2
      <4> QED BY <4>1, <4>3, <4>4, <2>1
    <3> QED BY <3>1, <3>2
  <2>3. By(T) \in [G -> Nat] /\ By(U) \in [G -> Nat]
    BY <1>0, <2>1
  <2>4. SumFunctionOnSet(By(T), G) = SumFunctionOnSet(v, T)
    OBVIOUS
  <2>5. SumFunctionOnSet(v, U) = v[x] + SumFunctionOnSet(v, T)
    <3>1. U \ {x} = T /\ x \in U
      OBVIOUS
    <3> HIDE DEF U
    <3> QED BY <2>1, <3>1, SumSplit
  <2>6. SumFunctionOnSet(v, T) \in Nat
    BY <1>0, <2>1
  <2> HIDE DEF By, U, p, F
  <2>8. SumFunctionOnSet(By(U), G) = SumFunctionOnSet(By(T), G) + v[x]
    BY <2>1, <2>2, <2>3, SumPoint
  <2>9. SumFunctionOnSet(By(U), G) = SumFunctionOnSet(v, U)
    BY <2>1, <2>4, <2>5, <2>6, <2>8
  <2> QED BY <2>9 DEF U
<1>3. IsFiniteSet(C)
  BY FS_Subset
<1> HIDE DEF F
<1>4. C \in F
  BY <1>1, <1>2, <1>3, AllFiniteSets
<1> QED BY <1>4 DEF F

\* What is taken out and what stays add up to what there was.
LEMMA SumParted ==
    ASSUME NEW D, IsFiniteSet(D), NEW v \in [D -> Nat], NEW C \in SUBSET D
    PROVE  SumFunctionOnSet(v, D) = SumFunctionOnSet(v, C)
               + SumFunctionOnSet([x \in D |-> IF x \in C THEN 0 ELSE v[x]], D)
<1> DEFINE Kpt(T) == [x \in D |-> IF x \in T THEN 0 ELSE v[x]]
           F == {T \in SUBSET D : SumFunctionOnSet(v, D) = SumFunctionOnSet(v, T) + SumFunctionOnSet(Kpt(T), D)}
<1>1. \A T \in SUBSET D : Kpt(T) \in [D -> Nat] /\ SumFunctionOnSet(v, T) \in Nat
  <2>1. \A T \in SUBSET D : SumFunctionOnSet(v, T) \in Nat
    BY SumsOfSound, FS_Subset
  <2> QED BY <2>1
<1>2. {} \in F
  <2>1. Kpt({}) \in [D -> Nat] /\ \A x \in D : Kpt({})[x] = v[x]
    BY <1>1
  <2> HIDE DEF Kpt
  <2>2. SumFunctionOnSet(Kpt({}), D) = SumFunctionOnSet(v, D)
    BY <2>1, SumSame
  <2>3. SumFunctionOnSet(v, D) \in Nat
    BY <1>1
  <2> QED BY <2>2, <2>3, SumEmpty
<1>3. \A T \in SUBSET D : \A x \in D : x \notin T /\ T \in F => T \cup {x} \in F
  <2> SUFFICES ASSUME NEW T \in SUBSET D, NEW x \in D, x \notin T, T \in F
               PROVE  SumFunctionOnSet(v, D) = SumFunctionOnSet(v, T \cup {x}) + SumFunctionOnSet(Kpt(T \cup {x}), D)
    OBVIOUS
  <2> DEFINE U == T \cup {x}
  <2>1. U \in SUBSET D /\ U \ {x} = T /\ x \in U /\ v[x] \in Nat
    OBVIOUS
  <2>2. Kpt(T)[x] = Kpt(U)[x] + v[x] /\ \A y \in D \ {x} : Kpt(T)[y] = Kpt(U)[y]
    OBVIOUS
  <2>3. Kpt(T) \in [D -> Nat] /\ Kpt(U) \in [D -> Nat]
    BY <1>1, <2>1
  <2>4. SumFunctionOnSet(v, D) = SumFunctionOnSet(v, T) + SumFunctionOnSet(Kpt(T), D)
    OBVIOUS
  <2> HIDE DEF Kpt, U, F
  <2>6. SumFunctionOnSet(Kpt(T), D) = SumFunctionOnSet(Kpt(U), D) + v[x]
    BY <2>1, <2>2, <2>3, SumPoint
  <2>7. SumFunctionOnSet(v, U) = v[x] + SumFunctionOnSet(v, T)
    BY <2>1, SumSplit
  <2>8. SumFunctionOnSet(v, T) \in Nat /\ SumFunctionOnSet(Kpt(U), D) \in Nat
    BY <1>1, <2>1, <2>3, SumsOfSound
  <2>9. SumFunctionOnSet(v, D) = SumFunctionOnSet(v, U) + SumFunctionOnSet(Kpt(U), D)
    BY <2>1, <2>4, <2>6, <2>7, <2>8
  <2> QED BY <2>9 DEF U
<1>4. IsFiniteSet(C)
  BY FS_Subset
<1>5. \A T \in SUBSET C : \A x \in C : x \notin T /\ T \in F => T \cup {x} \in F
  BY <1>3
<1> HIDE DEF F
<1>6. C \in F
  BY <1>2, <1>4, <1>5, AllFiniteSets
<1> QED BY <1>6 DEF F

-----------------------------------------------------------------------------
(***************************************************************************)
(* The event hub: the tables' sums move with each step as the counters do. *)
(* The janitor's is the one that moves them among each other: what it puts *)
(* into the days is, by day, what it takes out of the hours, and what it   *)
(* deletes from the raw table it has added up before.                      *)
(***************************************************************************)
HubTypes == /\ hubClock \in Hours
            /\ raw \in [Hours -> Nat] /\ hourly \in [Hours -> Nat] /\ daily \in [Days -> Nat]
            /\ chan \in Nat /\ buffered \in Nat /\ dropped \in Nat /\ lostEvents \in Nat /\ events \in Nat
HubInv == HubTypes /\ NothingLost

LEMMA HubSets == /\ IsFiniteSet(Hours) /\ IsFiniteSet(Days)
                 /\ \A h \in Hours : h \in Nat /\ DayOf(h) \in Days
<1>1. IsFiniteSet(Hours) /\ \A h \in Hours : h \in Nat
  BY HubAssumption, FS_Interval DEF Hours
<1>2. \A h \in Hours : DayOf(h) \in Days
  BY DEF Days
<1>3. IsFiniteSet(Days)
  <2> DEFINE day == [h \in Hours |-> DayOf(h)]
  <2>1. day \in Surjection(Hours, Days)
    BY DEF Surjection, Days
  <2> HIDE DEF day
  <2> QED BY <1>1, <2>1, FS_Surjection
<1> QED BY <1>1, <1>2, <1>3

LEMMA HubStart == ASSUME HubInit PROVE HubInv
<1>1. HubTypes
  BY HubAssumption DEF HubInit, HubTypes, Hours
<1>2. SumFunctionOnSet(raw, Hours) \in Nat /\ SumFunctionOnSet(hourly, Hours) \in Nat
      /\ SumFunctionOnSet(daily, Days) \in Nat
  BY <1>1, HubSets, SumsOfSound DEF HubTypes
<1>3. Kept \in Nat
  BY <1>2 DEF Kept
<1> QED BY <1>1, <1>3 DEF HubInit, HubInv, NothingLost

LEMMA KeptIsNat == ASSUME HubTypes
                   PROVE  /\ SumFunctionOnSet(raw, Hours) \in Nat /\ SumFunctionOnSet(hourly, Hours) \in Nat
                          /\ SumFunctionOnSet(daily, Days) \in Nat /\ Kept \in Nat
<1>1. SumFunctionOnSet(raw, Hours) \in Nat /\ SumFunctionOnSet(hourly, Hours) \in Nat
      /\ SumFunctionOnSet(daily, Days) \in Nat
  BY HubSets, SumsOfSound DEF HubTypes
<1> QED BY <1>1 DEF Kept

\* What was flushed is in the hour's row.
LEMMA FlushKeeps ==
    ASSUME HubTypes, raw' = [raw EXCEPT ![hubClock] = @ + buffered], UNCHANGED <<hourly, daily>>
    PROVE  raw' \in [Hours -> Nat] /\ Kept' = Kept + buffered
<1> DEFINE r == raw
           t == raw'
<1>1. r \in [Hours -> Nat] /\ hubClock \in Hours /\ buffered \in Nat
  BY DEF HubTypes
<1>2. t \in [Hours -> Nat] /\ t[hubClock] = r[hubClock] + buffered /\ \A h \in Hours \ {hubClock} : t[h] = r[h]
  BY <1>1
<1>3. UNCHANGED <<hourly, daily>>
  OBVIOUS
<1> HIDE DEF r, t
<1>4. SumFunctionOnSet(t, Hours) = SumFunctionOnSet(r, Hours) + buffered
  BY <1>1, <1>2, HubSets, SumPoint
<1>5. SumFunctionOnSet(raw', Hours) = SumFunctionOnSet(raw, Hours) + buffered
  BY <1>4 DEF r, t
<1>6. Kept' = SumFunctionOnSet(raw', Hours) + SumFunctionOnSet(hourly, Hours) + SumFunctionOnSet(daily, Days)
  BY <1>3 DEF Kept
<1>7. Kept' = Kept + buffered
  BY <1>1, <1>5, <1>6, KeptIsNat DEF Kept
<1> QED BY <1>2, <1>7 DEF t

\* The janitor loses nothing: RawRetention is no shorter than what it leaves
\* out when it adds up.
LEMMA JanitorKeeps ==
    ASSUME HubTypes, Janitor PROVE HubTypes' /\ Kept' \in Nat /\ Kept' >= Kept
<1> DEFINE up == [h \in Hours |-> IF h < hubClock - 1 THEN hourly[h] + raw[h] ELSE hourly[h]]
           old == {h \in Hours : h < HourlyCutoff}
           moved == [d \in Days |-> SumFunctionOnSet(up, {h \in Hours : h < HourlyCutoff /\ DayOf(h) = d})]
           rawNext == [h \in Hours |-> IF h < RawCutoff THEN 0 ELSE raw[h]]
           hourlyNext == [h \in Hours |-> IF h < HourlyCutoff THEN 0 ELSE up[h]]
           dailyNext == [d \in Days |-> daily[d] + moved[d]]
<1>1. /\ raw' = rawNext /\ hourly' = hourlyNext
      /\ UNCHANGED <<hubClock, chan, dropped, buffered, events, lostEvents>>
  BY DEF Janitor
<1>2. daily' = dailyNext
  BY DEF Janitor
<1>3. /\ hubClock \in Nat /\ raw \in [Hours -> Nat] /\ hourly \in [Hours -> Nat] /\ daily \in [Days -> Nat]
      /\ \A h \in Hours : h \in Nat /\ raw[h] \in Nat /\ hourly[h] \in Nat
  BY HubSets DEF HubTypes
<1>4. up \in [Hours -> Nat] /\ old \in SUBSET Hours
  BY <1>3
<1>5. moved \in [Days -> Nat]
  <2>1. \A d \in Days : {h \in Hours : h < HourlyCutoff /\ DayOf(h) = d} \in SUBSET Hours
    OBVIOUS
  <2> HIDE DEF up
  <2>2. \A C \in SUBSET Hours : SumFunctionOnSet(up, C) \in Nat
    BY <1>4, HubSets, SumsOfSound, FS_Subset
  <2> QED BY <2>1, <2>2
<1>6. rawNext \in [Hours -> Nat]
  BY <1>3
<1>7. hourlyNext \in [Hours -> Nat]
  <2> HIDE DEF up
  <2> QED BY <1>4
<1>8. dailyNext \in [Days -> Nat]
  <2> HIDE DEF moved
  <2> QED BY <1>3, <1>5
<1>9. HubTypes'
  BY <1>1, <1>2, <1>6, <1>7, <1>8 DEF HubTypes, Hours, Days
\* By day, all that leaves the hours.
<1>10. SumFunctionOnSet(moved, Days) = SumFunctionOnSet(up, old)
  <2> DEFINE day == [h \in Hours |-> DayOf(h)]
  <2>1. day \in [Hours -> Days]
    BY HubSets
  <2>2. \A d \in Days : {h \in old : day[h] = d} = {h \in Hours : h < HourlyCutoff /\ DayOf(h) = d}
    OBVIOUS
  <2>3. moved = [d \in Days |-> SumFunctionOnSet(up, {h \in old : day[h] = d})]
    BY <2>2
  <2> HIDE DEF day, up, old, moved
  <2>4. SumFunctionOnSet([d \in Days |-> SumFunctionOnSet(up, {h \in old : day[h] = d})], Days)
            = SumFunctionOnSet(up, old)
    BY <1>4, <2>1, HubSets, SumByGroup
  <2> QED BY <2>3, <2>4
<1>11. SumFunctionOnSet(dailyNext, Days) = SumFunctionOnSet(daily, Days) + SumFunctionOnSet(moved, Days)
  <2>1. \A d \in Days : dailyNext[d] = daily[d] + moved[d]
    BY <1>3
  <2> HIDE DEF dailyNext, moved
  <2> QED BY <1>3, <1>5, <1>8, <2>1, HubSets, SumOfBoth
<1>12. SumFunctionOnSet(up, Hours) = SumFunctionOnSet(up, old) + SumFunctionOnSet(hourlyNext, Hours)
  <2>1. hourlyNext = [h \in Hours |-> IF h \in old THEN 0 ELSE up[h]]
    OBVIOUS
  <2> HIDE DEF hourlyNext, up, old
  <2>2. SumFunctionOnSet(up, Hours) = SumFunctionOnSet(up, old)
            + SumFunctionOnSet([h \in Hours |-> IF h \in old THEN 0 ELSE up[h]], Hours)
    BY <1>4, HubSets, SumParted
  <2> QED BY <2>1, <2>2
\* Every row of an hour is in one of the two tables.
<1>13. SumFunctionOnSet(raw, Hours) + SumFunctionOnSet(hourly, Hours)
           <= SumFunctionOnSet(rawNext, Hours) + SumFunctionOnSet(up, Hours)
  <2> DEFINE was == [h \in Hours |-> raw[h] + hourly[h]]
             is == [h \in Hours |-> rawNext[h] + up[h]]
  <2>1. \A h \in Hours : was[h] <= is[h]
    <3> SUFFICES ASSUME NEW h \in Hours PROVE was[h] <= is[h]
      OBVIOUS
    <3>1. h \in Nat /\ raw[h] \in Nat /\ hourly[h] \in Nat /\ hubClock \in Nat
      BY <1>3
    <3>2. h < RawCutoff => h < hubClock - 1
      BY <3>1, HubAssumption DEF RawCutoff
    <3> QED BY <3>1, <3>2
  <2>2. was \in [Hours -> Nat]
    BY <1>3
  <2>3. is \in [Hours -> Nat]
    <3> HIDE DEF rawNext, up
    <3> QED BY <1>4, <1>6
  <2>4. \A h \in Hours : was[h] = raw[h] + hourly[h]
    OBVIOUS
  <2>5. \A h \in Hours : is[h] = rawNext[h] + up[h]
    OBVIOUS
  <2> HIDE DEF was, is, rawNext, up
  <2>6. SumFunctionOnSet(was, Hours) = SumFunctionOnSet(raw, Hours) + SumFunctionOnSet(hourly, Hours)
    BY <1>3, <2>2, <2>4, HubSets, SumOfBoth
  <2>7. SumFunctionOnSet(is, Hours) = SumFunctionOnSet(rawNext, Hours) + SumFunctionOnSet(up, Hours)
    BY <1>4, <1>6, <2>3, <2>5, HubSets, SumOfBoth
  <2>8. SumFunctionOnSet(was, Hours) <= SumFunctionOnSet(is, Hours)
    BY <2>1, <2>2, <2>3, HubSets, SumBelow
  <2> QED BY <2>6, <2>7, <2>8
<1>14. Kept' = SumFunctionOnSet(rawNext, Hours) + SumFunctionOnSet(hourlyNext, Hours)
                   + SumFunctionOnSet(dailyNext, Days)
  <2> HIDE DEF rawNext, hourlyNext, dailyNext
  <2> QED BY <1>1, <1>2 DEF Kept, Hours, Days
<1> HIDE DEF rawNext, hourlyNext, dailyNext, up, old, moved
<1>15. /\ SumFunctionOnSet(rawNext, Hours) \in Nat /\ SumFunctionOnSet(hourlyNext, Hours) \in Nat
       /\ SumFunctionOnSet(up, old) \in Nat /\ SumFunctionOnSet(dailyNext, Days) \in Nat
  <2>1. IsFiniteSet(old)
    BY <1>4, HubSets, FS_Subset
  <2> QED BY <1>4, <1>6, <1>7, <1>8, <2>1, HubSets, SumsOfSound
<1>16. Kept' >= Kept
  BY <1>10, <1>11, <1>12, <1>13, <1>14, <1>15, KeptIsNat DEF Kept
<1>17. Kept' \in Nat
  BY <1>14, <1>15
<1> QED BY <1>9, <1>16, <1>17

LEMMA HubStep ==
    ASSUME HubInv, HubNext \/ UNCHANGED hubVars PROVE HubInv'
<1>1. HubTypes /\ NothingLost /\ Kept \in Nat
  BY KeptIsNat DEF HubInv
<1>2. CASE HubPublish \/ Consume \/ Hour \/ UNCHANGED hubVars
  <2>1. UNCHANGED <<raw, hourly, daily>>
    BY <1>2 DEF HubPublish, Consume, Hour, hubVars
  <2>2. UNCHANGED Kept
    BY <2>1 DEF Kept
  <2>3. HubTypes'
    <3>1. hubClock' \in Hours
      <4>1. UNCHANGED hubClock \/ (hubClock < HubHours /\ hubClock' = hubClock + 1)
        BY <1>2 DEF HubPublish, Consume, Hour, hubVars
      <4>2. hubClock \in 0 .. HubHours
        BY <1>1 DEF HubTypes, Hours
      <4> QED BY <4>1, <4>2, HubAssumption DEF Hours
    <3>2. chan' \in Nat /\ buffered' \in Nat /\ dropped' \in Nat /\ lostEvents' \in Nat /\ events' \in Nat
      BY <1>1, <1>2 DEF HubTypes, HubPublish, Consume, Hour, hubVars
    <3> QED BY <1>1, <2>1, <3>1, <3>2 DEF HubTypes
  <2>4. events' <= chan' + buffered' + dropped' + lostEvents' + Kept
    BY <1>1, <1>2 DEF HubTypes, NothingLost, HubPublish, Consume, Hour, hubVars
  <2> QED BY <2>2, <2>3, <2>4 DEF HubInv, NothingLost
<1>3. CASE Flush
  <2>1. CASE raw' = [raw EXCEPT ![hubClock] = @ + buffered] /\ UNCHANGED lostEvents
    <3>1. raw' \in [Hours -> Nat] /\ Kept' = Kept + buffered
      BY <1>1, <1>3, <2>1, FlushKeeps DEF Flush
    <3>2. buffered' = 0 /\ UNCHANGED <<hubClock, chan, dropped, hourly, daily, events, lostEvents>>
      BY <1>3, <2>1 DEF Flush
    <3>3. HubTypes'
      BY <1>1, <3>1, <3>2 DEF HubTypes
    <3>4. events' <= chan' + buffered' + dropped' + lostEvents' + Kept'
      BY <1>1, <3>1, <3>2 DEF HubTypes, NothingLost
    <3> QED BY <3>3, <3>4 DEF HubInv, NothingLost
  <2>2. CASE lostEvents' = lostEvents + buffered /\ UNCHANGED raw
    <3>1. buffered' = 0 /\ UNCHANGED <<hubClock, chan, dropped, raw, hourly, daily, events>>
      BY <1>3, <2>2 DEF Flush
    <3>2. UNCHANGED Kept
      BY <3>1 DEF Kept
    <3>3. lostEvents' \in Nat /\ HubTypes'
      BY <1>1, <2>2, <3>1 DEF HubTypes
    <3>4. events' <= chan' + buffered' + dropped' + lostEvents' + Kept
      BY <1>1, <2>2, <3>1 DEF HubTypes, NothingLost
    <3> QED BY <3>2, <3>3, <3>4 DEF HubInv, NothingLost
  <2> QED BY <1>3, <2>1, <2>2 DEF Flush
<1>4. CASE Janitor
  <2>1. HubTypes' /\ Kept' >= Kept /\ Kept' \in Nat
    BY <1>1, <1>4, JanitorKeeps
  <2>2. UNCHANGED <<chan, dropped, buffered, events, lostEvents>>
    BY <1>4 DEF Janitor
  <2>3. events' <= chan' + buffered' + dropped' + lostEvents' + Kept'
    <3>1. events <= chan + buffered + dropped + lostEvents + Kept
      BY <1>1 DEF NothingLost
    <3>2. chan \in Nat /\ buffered \in Nat /\ dropped \in Nat /\ lostEvents \in Nat /\ events \in Nat
      BY <1>1 DEF HubTypes
    <3> DEFINE rest == chan + buffered + dropped + lostEvents
               kept == Kept
               keptNext == Kept'
    <3>3. rest \in Nat /\ kept \in Nat /\ keptNext \in Nat /\ keptNext >= kept /\ events <= rest + kept
      BY <1>1, <2>1, <3>1, <3>2
    <3>4. chan' + buffered' + dropped' + lostEvents' = rest /\ events' = events
      BY <2>2
    <3> HIDE DEF rest, kept, keptNext
    <3>5. events <= rest + keptNext
      BY <3>2, <3>3
    <3> QED BY <3>4, <3>5 DEF keptNext
  <2> QED BY <2>1, <2>3 DEF HubInv, NothingLost
<1> QED BY <1>2, <1>3, <1>4 DEF HubNext

-----------------------------------------------------------------------------
EventsInv == FeedInv /\ HubInv

LEMMA EventsStep == ASSUME EventsInv, [Next]_vars PROVE EventsInv'
<1>1. FeedNext \/ UNCHANGED feedVars
  BY DEF Next, Rest, vars
<1>2. HubNext \/ UNCHANGED hubVars
  BY DEF Next, Rest, vars
<1> QED BY <1>1, <1>2, FeedStep, HubStep DEF EventsInv

-----------------------------------------------------------------------------
(* Theorems                                                                *)

\* Leases and TakenIPs stay inverse to each other, and a server that answers
\* knows every persisted lease whose term runs: for any number of clients and
\* addresses, through expiry, reloads that may fail, and restarts.
THEOREM LeasesSafe == LeaseSpec => [](TypeOK /\ LeasesExclusive /\ LeaseKeptForTerm)
<1>1. DHCPInv => LeasesExclusive /\ LeaseKeptForTerm
  BY DEF DHCPInv, RowsKnown, LeaseKeptForTerm, Serving
<1> QED BY <1>1, Invariance, PTL

\* Two clients never use one address within the terms of their leases, unless
\* a reload lost running leases or reservations were moved.
THEOREM AddressesNotShared == LeaseSpec => []NoSharedAddress
<1>1. TypeOK /\ DHCPInv => NoSharedAddress
  <2> SUFFICES ASSUME TypeOK, DHCPInv, ~lost, ~changed,
                      NEW m \in Clients, NEW n \in Clients,
                      m # n, InTerm(m), InTerm(n), held[m].ip = held[n].ip
               PROVE  FALSE
    BY DEF NoSharedAddress
  <2>1. CASE reserved[m] = NoAddress /\ reserved[n] = NoAddress
    BY <2>1 DEF InTerm, DHCPInv, RowsDistinct
  <2>2. CASE reserved[m] # NoAddress /\ reserved[n] # NoAddress
    BY <2>2 DEF InTerm, TypeOK
  <2>3. CASE reserved[m] # NoAddress /\ reserved[n] = NoAddress
    BY <2>3 DEF InTerm, DHCPInv, RowsUnreserved
  <2>4. CASE reserved[m] = NoAddress /\ reserved[n] # NoAddress
    BY <2>4 DEF InTerm, DHCPInv, RowsUnreserved
  <2> QED BY <2>1, <2>2, <2>3, <2>4
<1> QED BY <1>1, Invariance, PTL

\* Both together: no address has two owners or two users, and a lease lasts
\* for its term, also across restarts.
THEOREM LeasesCorrect == LeaseSpec => []LeasesSound
<1>1. TypeOK /\ LeasesExclusive /\ LeaseKeptForTerm /\ NoSharedAddress => LeasesSound
  BY DEF LeasesSound
<1> QED BY <1>1, LeasesSafe, AddressesNotShared, PTL

\* The blocklist of the file in force stays blocked through every reload, and
\* no gateway is given the addresses of the devices behind it, nor a device an
\* identity that is not in the store, with any number of devices, writers of
\* the devices' file, updates of identities under way, and restarts.
THEOREM NetworkKnownHolds == Spec => []NetworkKnown
<1>1. NetworkInv => NetworkKnown
  BY NetworkInvSuffices DEF NetworkKnown
<1>2. NetworkInv /\ [Next]_vars => NetworkInv'
  BY NetworkStep
<1> QED BY <1>1, <1>2, NetworkInit, PTL DEF Spec

\* The operator's decisions about learned flows stand, in the engine and in the
\* database, packets that miss the cache follow them, a hint is shown with its
\* own flow only, and a source is reported once per interval: for any packets,
\* sizes of cache and channel, interval and number of decisions.
THEOREM FlowsHold == Spec => []FlowsAsDecided
<1>1. FlowsInv => FlowsAsDecided
  BY LearnInvSuffices, FdInvSuffices DEF FlowsInv, FlowsAsDecided
<1>2. FlowsInv /\ [Next]_vars => FlowsInv'
  BY FlowsStep
<1>3. Init => FlowsInv
  BY LearnInitHolds, FdInitHolds DEF Init, FlowsInv
<1> QED BY <1>1, <1>2, <1>3, PTL DEF Spec

\* AccessSound: an administrator remains, a session is its own user's, a key
\* that was revoked is not accepted any more, an address passes the limiter at
\* most twice the limit and the requests under way, and a failure is forgotten
\* only when it is old or the address is blocked, however many users, keys and
\* requests there are.
THEOREM AccessHolds == Spec => AccessSound
<1> DEFINE Sound == AdminRemains /\ SessionKeepsUser /\ RevokedStays /\ PassesBounded
<1>1. Init => AccessInv
  BY AccessInit
<1>2. AccessInv /\ [Next]_vars => AccessInv' /\ [FailuresKept]_rlVars
  BY AccessStep
<1>3. AccessInv => Sound
  BY UserInvSuffices, KeyInvSuffices, RateInvSuffices DEF AccessInv
<1>4. Spec => []Sound
  BY <1>1, <1>2, <1>3, PTL DEF Spec
<1>5. Spec => [][FailuresKept]_rlVars
  BY <1>1, <1>2, PTL DEF Spec
<1>6. Sound <=> (AdminRemains /\ SessionKeepsUser /\ RevokedStays /\ PassesBounded)
  OBVIOUS
<1>7. FailuresCount <=> [][FailuresKept]_rlVars
  BY DEF FailuresCount, FailuresKept
<1> QED BY <1>4, <1>5, <1>7 DEF AccessSound

\* A browser is shown every notification at most once and in the order they
\* were published, across the two halves of a poll, slow readers and restarts
\* of the control plane, and is never sent to after its channel is closed; and
\* no counted event disappears from channel, buffer and tables: for any number
\* of browsers, sizes of ring, queue and channel, and any retention of the raw
\* table of at least one hour.
THEOREM EventsHold == Spec => []EventsKept
<1>1. EventsInv => EventsKept
  BY FeedInvSuffices DEF EventsInv, HubInv, EventsKept
<1>2. EventsInv /\ [Next]_vars => EventsInv'
  BY EventsStep
<1>3. Init => EventsInv
  BY FeedStart, HubStart DEF Init, EventsInv
<1> QED BY <1>1, <1>2, <1>3, PTL DEF Spec

=============================================================================

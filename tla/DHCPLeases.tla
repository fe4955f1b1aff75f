----------------------------- MODULE DHCPLeases -----------------------------
(***************************************************************************)
(* The DHCP server's leases (internal/services/dhcp/service.go): one scope *)
(* with its lease store, the lease bucket of the state store, the          *)
(* expiration reaper, configuration reloads and restarts of the process.   *)
(*                                                                         *)
(* The read loop handles one packet after the other and LeaseStore methods *)
(* hold the store's lock, so a packet is one step.  Reload builds a new    *)
(* lease store from the bucket; whatever an old handler still does to the  *)
(* old store it can no longer answer, its socket being closed.  A write to *)
(* the bucket that fails, or an exhausted range, makes Allocate return an  *)
(* error before it changes anything: no step.                              *)
(*                                                                         *)
(* Addresses are positive numbers and NoAddress is 0.0.0.0.                *)
(***************************************************************************)
EXTENDS Naturals

CONSTANTS
    Clients,          \* MAC addresses
    NoClient,         \* no entry in TakenIPs
    RangeStart,       \* first and
    RangeEnd,         \* last address of the scope
    ReservationMaps,  \* reservations a configuration may have
    LeaseTime,        \* 24 h: reaper, bucket row and reply use the same
    MaxTime           \* bound: last instant explored

NoAddress == 0

Pool == RangeStart..RangeEnd

\* In particular, a configuration reserves an address for one client only.
ASSUME DHCPAssumption ==
    /\ NoClient \notin Clients
    /\ RangeStart \in Nat \ {0} /\ RangeEnd \in Nat /\ RangeStart <= RangeEnd
    /\ ReservationMaps \subseteq [Clients -> Nat] /\ ReservationMaps # {}
    /\ \A r \in ReservationMaps, m, n \in Clients : m # n /\ r[m] = r[n] => r[m] = NoAddress
    /\ LeaseTime \in Nat \ {0} /\ MaxTime \in Nat

VARIABLES
    leases,      \* LeaseStore.Leases: client -> address
    taken,       \* LeaseStore.TakenIPs: address -> client
    expiry,      \* LeaseStore.leaseExpiry: client -> time, 0 for no entry
    reserved,    \* LeaseStore.Reservations: client -> address
    persistent,  \* LeaseStore.bucket is set
    running,     \* Service.running
    socket,      \* the connection registered as "dhcp-v4"
    rows,        \* the bucket dhcp_leases: client -> address and expires_at
    now,         \* clock.Now()
    held,        \* history: what each client was last told, and until when
    lost,        \* history: a reload could not read leases that are running
    changed      \* history: the reservations were changed

store == <<leases, taken, expiry>>
leaseVars == <<store, reserved, persistent, running, socket, rows, now, held, lost, changed>>

Lease == [ip : Nat, end : Nat]
NoLease == [ip |-> NoAddress, end |-> 0]

TypeOK ==
    /\ leases \in [Clients -> Pool \cup {NoAddress}]
    /\ taken \in [Pool -> Clients \cup {NoClient}]
    /\ expiry \in [Clients -> Nat]
    /\ reserved \in ReservationMaps
    /\ persistent \in BOOLEAN /\ running \in BOOLEAN
    /\ socket \in {"none", "open", "closed"}
    /\ rows \in [Clients -> Lease]
    /\ now \in Nat
    /\ held \in [Clients -> Lease]
    /\ lost \in BOOLEAN /\ changed \in BOOLEAN

\* NewService: nothing is served before the first Reload.
LeaseInit ==
    /\ leases = [m \in Clients |-> NoAddress]
    /\ taken = [a \in Pool |-> NoClient]
    /\ expiry = [m \in Clients |-> 0]
    /\ reserved \in ReservationMaps
    /\ persistent = FALSE /\ running = FALSE /\ socket = "none"
    /\ rows = [m \in Clients |-> NoLease]
    /\ now = 1
    /\ held = [m \in Clients |-> NoLease]
    /\ lost = FALSE /\ changed = FALSE

\* A lease that readers of the bucket see: expires_at > now.
Live(m) == rows[m].end > now

\* serveDHCP reads packets: started, on a socket that is open.
Serving == running /\ socket = "open"

-----------------------------------------------------------------------------
(* Allocation                                                              *)

\* Mutant: the scan runs one address past the range.
Free_PastEnd ==
    {a \in RangeStart..(RangeEnd + 1) :
        /\ a \in Pool => taken[a] = NoClient
        /\ \A m \in Clients : reserved[m] # a}

\* Mutant: addresses reserved for other clients are not skipped.
Free_Reserved == {a \in Pool : taken[a] = NoClient}

\* What the scan over the range, RangeEnd included, may give out.
Free == {a \in Pool : taken[a] = NoClient /\ \A m \in Clients : reserved[m] # a}

\* Mutant: the bucket row outlives the lease in memory.
Persist_Longer(m, a) ==
    rows' = IF persistent THEN [rows EXCEPT ![m] = [ip |-> a, end |-> now + 2 * LeaseTime]]
            ELSE rows

\* persistLease: the lease goes to the bucket with its end as time-to-live.
Persist(m, a) ==
    rows' = IF persistent THEN [rows EXCEPT ![m] = [ip |-> a, end |-> now + LeaseTime]]
            ELSE rows

\* Allocate: a reservation first, then the lease the client has, else the
\* lowest free address.  Only a new lease is persisted and gets an expiry;
\* one that exists is returned as it is.
Allocate(m, a) ==
    \/ /\ a = reserved[m] /\ a # NoAddress
       /\ UNCHANGED <<store, rows>>
    \/ /\ reserved[m] = NoAddress
       /\ a = leases[m] /\ a # NoAddress
       /\ UNCHANGED <<store, rows>>
    \/ /\ reserved[m] = NoAddress /\ leases[m] = NoAddress
       /\ a \in Free /\ \A b \in Free : a <= b
       /\ Persist(m, a)
       /\ leases' = [leases EXCEPT ![m] = a]
       /\ taken' = [taken EXCEPT ![a] = m]
       /\ expiry' = [expiry EXCEPT ![m] = now + LeaseTime]

\* What Allocate may return.
Addresses ==
    Free \cup (({leases[m] : m \in Clients} \cup {reserved[m] : m \in Clients}) \ {NoAddress})

\* What a client may ask for.
Asked == Pool \cup {reserved[m] : m \in Clients} \cup {NoAddress}

\* handleDiscover: the offer is backed by a lease at once.
Discover(m) ==
    /\ Serving
    /\ \E a \in Addresses : Allocate(m, a)
    /\ UNCHANGED <<reserved, persistent, running, socket, now, held, lost, changed>>

\* handleRequest: an address other than the allocated one is refused (NAK,
\* the client gives up what it had), else the client may use it (ACK) for
\* LeaseTime from now, whatever the lease's expiry is.
Request(m, asked) ==
    /\ Serving
    /\ \E a \in Addresses :
           /\ Allocate(m, a)
           /\ held' = [held EXCEPT ![m] = IF asked \in {a, NoAddress}
                                          THEN [ip |-> a, end |-> now + LeaseTime]
                                          ELSE NoLease]
    /\ UNCHANGED <<reserved, persistent, running, socket, now, lost, changed>>

-----------------------------------------------------------------------------
(* Expiration                                                              *)

Expired == {m \in Clients : expiry[m] # 0 /\ expiry[m] < now}

\* Mutant: the reverse lookup is forgotten.
ExpireLeases_KeepsTaken ==
    /\ Expired # {}
    /\ leases' = [m \in Clients |-> IF m \in Expired THEN NoAddress ELSE leases[m]]
    /\ expiry' = [m \in Clients |-> IF m \in Expired THEN 0 ELSE expiry[m]]
    /\ UNCHANGED <<taken, reserved, persistent, running, socket, rows, now, held, lost, changed>>

\* The reaper's tick: every expired lease goes, and its address is free.  The
\* bucket is left alone.
ExpireLeases ==
    /\ Expired # {}
    /\ leases' = [m \in Clients |-> IF m \in Expired THEN NoAddress ELSE leases[m]]
    /\ taken' = [a \in Pool |-> IF \E m \in Expired : leases[m] = a
                                THEN NoClient ELSE taken[a]]
    /\ expiry' = [m \in Clients |-> IF m \in Expired THEN 0 ELSE expiry[m]]
    /\ UNCHANGED <<reserved, persistent, running, socket, rows, now, held, lost, changed>>

-----------------------------------------------------------------------------
(* Reload, start, stop, restart                                            *)

Forget ==
    /\ leases' = [m \in Clients |-> NoAddress]
    /\ taken' = [a \in Pool |-> NoClient]
    /\ expiry' = [m \in Clients |-> 0]

Owners(known, a) == {m \in known : rows[m].ip = a}

\* Mutant: leases are loaded without the reverse lookup.
LoadLeases_NoTaken(known) ==
    /\ leases' = [m \in Clients |-> IF m \in known THEN rows[m].ip ELSE NoAddress]
    /\ taken' = [a \in Pool |-> NoClient]
    /\ expiry' = [m \in Clients |-> 0]

\* createServer loads the known rows, in no particular order; leaseExpiry
\* starts empty, so the reaper will not see a loaded lease.
LoadLeases(known) ==
    /\ leases' = [m \in Clients |-> IF m \in known THEN rows[m].ip ELSE NoAddress]
    /\ taken' \in [Pool -> Clients \cup {NoClient}]
    /\ \A a \in Pool : IF Owners(known, a) = {} THEN taken'[a] = NoClient
                       ELSE taken'[a] \in Owners(known, a)
    /\ expiry' = [m \in Clients |-> 0]

NewReservations(r) ==
    /\ reserved' = r
    /\ changed' = (changed \/ r # reserved)

\* Reload with the server enabled: a running server's socket is closed; a
\* socket that is still registered with the upgrade manager is used again,
\* closed or not, else a new one is opened.  The bucket may fail to open
\* (leases stay in memory only) or to list (nothing is loaded): a warning.
Reload(r, opens, lists) ==
    LET known == IF opens /\ lists THEN {m \in Clients : Live(m)} ELSE {} IN
    /\ NewReservations(r)
    /\ LoadLeases(known)
    /\ persistent' = opens
    /\ running' = TRUE
    /\ socket' = IF socket = "none" THEN "open" ELSE "closed"
    /\ lost' = (lost \/ \E m \in Clients \ known : Live(m))
    /\ UNCHANGED <<rows, now, held>>

\* Reload that cannot open a socket.
ReloadFails(r) ==
    /\ socket = "none"
    /\ NewReservations(r)
    /\ Forget
    /\ persistent' = FALSE
    /\ running' = FALSE
    /\ UNCHANGED <<socket, rows, now, held, lost>>

\* Reload with the server disabled, external or imported.
ReloadOff(r) ==
    /\ NewReservations(r)
    /\ Forget
    /\ persistent' = FALSE
    /\ running' = FALSE
    /\ socket' = IF socket = "open" THEN "closed" ELSE socket
    /\ UNCHANGED <<rows, now, held, lost>>

\* Start after Stop: the servers read from the sockets they had.
Start ==
    /\ ~running
    /\ running' = TRUE
    /\ UNCHANGED <<store, reserved, persistent, socket, rows, now, held, lost, changed>>

\* The leases stay, and so does the reaper.
Stop ==
    /\ running
    /\ running' = FALSE
    /\ socket' = IF socket = "open" THEN "closed" ELSE socket
    /\ UNCHANGED <<store, reserved, persistent, rows, now, held, lost, changed>>

\* The process ends; the next one starts with NewService.
Exit ==
    /\ Forget
    /\ persistent' = FALSE
    /\ running' = FALSE
    /\ socket' = "none"
    /\ UNCHANGED <<reserved, rows, now, held, lost, changed>>

Tick ==
    /\ now < MaxTime
    /\ now' = now + 1
    /\ UNCHANGED <<store, reserved, persistent, running, socket, rows, held, lost, changed>>

LeaseNext ==
    \/ \E m \in Clients : Discover(m)
    \/ \E m \in Clients : \E asked \in Asked : Request(m, asked)
    \/ ExpireLeases
    \/ \E r \in ReservationMaps : \E opens, lists \in BOOLEAN : Reload(r, opens, lists)
    \/ \E r \in ReservationMaps : ReloadFails(r) \/ ReloadOff(r)
    \/ Start \/ Stop \/ Exit
    \/ Tick

LeaseSpec == LeaseInit /\ [][LeaseNext]_leaseVars

\* The reaper's ticker goes on for as long as there are leases in memory.
LeaseFairSpec == LeaseSpec /\ WF_leaseVars(ExpireLeases)

-----------------------------------------------------------------------------
(* Properties                                                              *)

\* Leases and TakenIPs stay inverse to each other, so no two clients have one
\* address: through allocation, expiry, reloads and restarts, unless a reload
\* failed to read running leases, whose addresses are then given out again.
LeasesExclusive ==
    ~lost => \A m \in Clients, a \in Pool : leases[m] = a <=> taken[a] = m

\* A lease that was persisted is honoured until its end: whatever restarts
\* and reloads happened, a server that answers knows it.  The reaper and the
\* bucket count the same time, the reaper one instant later.
LeaseKeptForTerm ==
    Serving /\ ~lost => \A m \in Clients : Live(m) => leases[m] = rows[m].ip

\* A client that was told an address, within the term of its lease.
InTerm(m) ==
    /\ held[m].end > now
    /\ IF reserved[m] # NoAddress THEN held[m].ip = reserved[m]
       ELSE Live(m) /\ held[m].ip = rows[m].ip

\* Two clients never use one address within the terms of their leases, across
\* restarts, unless a reload failed to read running leases or reservations
\* were moved.  The term counts from the allocation: an ACK given later
\* promises more (handleRequest does not renew the lease), and in that time
\* the address may be given to another.
NoSharedAddress ==
    ~lost /\ ~changed =>
        \A m, n \in Clients : m # n /\ InTerm(m) /\ InTerm(n) => held[m].ip # held[n].ip

\* Strengthening for the three above.  Bucket rows hold addresses of the range,
\* end within a lease time and no later than the lease in memory.
RowsSound ==
    \A m \in Clients :
        /\ rows[m].end > 0 => rows[m].ip \in Pool
        /\ rows[m].end <= now + LeaseTime
        /\ expiry[m] # 0 => rows[m].end <= expiry[m]

\* Rows that run have different addresses,
RowsDistinct ==
    ~lost => \A m, n \in Clients : m # n /\ Live(m) /\ Live(n) => rows[m].ip # rows[n].ip

\* which are nobody's reservation,
RowsUnreserved ==
    ~changed => \A m, n \in Clients : Live(m) => rows[m].ip # reserved[n]

\* and from the reload that opens the socket until the socket is closed the
\* lease store knows them.
RowsKnown ==
    ~lost /\ socket = "open" => \A m \in Clients : Live(m) => leases[m] = rows[m].ip

DHCPInv == RowsSound /\ RowsDistinct /\ RowsUnreserved /\ RowsKnown /\ LeasesExclusive

\* The address of a lease this process granted becomes free again after its
\* end (runExpirationReaper).
ExpiredReclaimed ==
    \A m \in Clients, a \in Pool :
        (leases[m] = a /\ m \in Expired) ~> (taken[a] # m)

\* No address has two owners or two users, and a lease lasts for its term.
LeasesSound == TypeOK /\ LeasesExclusive /\ LeaseKeptForTerm /\ NoSharedAddress
=============================================================================

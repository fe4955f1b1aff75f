-------------------------- MODULE SafeNetwork_proofs --------------------------
(***************************************************************************)
(* Theorems about SafeNetwork, for any interfaces, addresses, VLANs,       *)
(* reloads and numbers of calls.                                           *)
(*                                                                         *)
(* The inductive invariant, NetInv, has two parts.  ListInv is about the   *)
(* handlers of InterfaceConfig: the list names a physical interface once,  *)
(* the links of those are there and have the addresses of their entries.   *)
(* ApplyInv is about the pending apply: its two snapshots are such lists   *)
(* as well, so that restoring one of them keeps ListInv.                   *)
(***************************************************************************)
EXTENDS SafeNetwork, WellFoundedInduction, TLAPS

-----------------------------------------------------------------------------
(* Sequences                                                               *)

\* A set of numbers has a least one.
LEMMA Least ==
    ASSUME NEW S \in SUBSET Nat, S # {}
    PROVE  Min(S) \in S
<1>1. PICK x \in S : \A y \in S : ~(<<y, x>> \in OpToRel(<, Nat))
  BY NatLessThanWellFounded, WFMin
<1>2. \A y \in S : ~(y < x)
  BY <1>1 DEF OpToRel
<1>3. \A y \in S : x <= y
  BY <1>2
<1> QED BY <1>3 DEF Min

\* What is left of a sequence when an element is removed.
LEMMA Removed ==
    ASSUME NEW T, NEW s \in Seq(T), NEW i \in DOMAIN s
    PROVE  /\ RemoveAt(s, i) \in Seq(T)
           /\ Len(RemoveAt(s, i)) = Len(s) - 1
           /\ \A k \in DOMAIN RemoveAt(s, i) :
                RemoveAt(s, i)[k] = IF k < i THEN s[k] ELSE s[k + 1]
<1> DEFINE front == SubSeq(s, 1, i - 1)
           back == SubSeq(s, i + 1, Len(s))
<1>1. i \in 1..Len(s) /\ Len(s) \in Nat
  OBVIOUS
<1>2. front \in Seq(T) /\ Len(front) = i - 1 /\ \A k \in 1..(i - 1) : front[k] = s[k]
  BY <1>1
<1>3. /\ back \in Seq(T) /\ Len(back) = Len(s) - i
      /\ \A k \in 1..(Len(s) - i) : back[k] = s[k + i]
  BY <1>1
<1>4. RemoveAt(s, i) = front \o back
  BY DEF RemoveAt
<1> HIDE DEF front, back
<1>5. front \o back \in Seq(T) /\ Len(front \o back) = Len(s) - 1
  BY <1>1, <1>2, <1>3
<1>6. \A k \in 1..(Len(s) - 1) : (front \o back)[k] = IF k < i THEN s[k] ELSE s[k + 1]
  <2> SUFFICES ASSUME NEW k \in 1..(Len(s) - 1)
               PROVE  (front \o back)[k] = IF k < i THEN s[k] ELSE s[k + 1]
    OBVIOUS
  <2>1. CASE k < i
    BY <2>1, <1>1, <1>2, <1>3
  <2>2. CASE ~(k < i)
    <3>1. (front \o back)[k] = back[k - (i - 1)]
      BY <2>2, <1>1, <1>2, <1>3
    <3>2. k - (i - 1) \in 1..(Len(s) - i) /\ (k - (i - 1)) + i = k + 1
      BY <2>2, <1>1
    <3> QED BY <2>2, <3>1, <3>2, <1>3
  <2> QED BY <2>1, <2>2
<1>7. DOMAIN (front \o back) = 1..(Len(s) - 1)
  BY <1>5
<1> QED BY <1>4, <1>5, <1>6, <1>7

\* IndexOf finds the first entry of a name, and 0 if there is none.
LEMMA Found ==
    ASSUME NEW cfg \in Seq(Entries), NEW n
    PROVE  \/ IndexOf(cfg, n) = 0 /\ \A i \in DOMAIN cfg : cfg[i].name # n
           \/ IndexOf(cfg, n) \in DOMAIN cfg /\ cfg[IndexOf(cfg, n)].name = n
<1> DEFINE I == {i \in 1..Len(cfg) : cfg[i].name = n}
<1>1. IndexOf(cfg, n) = IF I # {} THEN Min(I) ELSE 0
  BY DEF IndexOf, SelectInSeq
<1>2. I \in SUBSET Nat /\ DOMAIN cfg = 1..Len(cfg)
  OBVIOUS
<1>3. CASE I = {}
  BY <1>1, <1>2, <1>3
<1>4. CASE I # {}
  <2>1. Min(I) \in I
    <3> HIDE DEF I
    <3> QED BY <1>2, <1>4, Least
  <2> QED BY <1>1, <1>2, <1>4, <2>1
<1> QED BY <1>3, <1>4

\* ... and so the only one, if the list is as it should be.
LEMMA TheEntry ==
    ASSUME NEW cfg, ListOK(cfg), NEW i \in DOMAIN cfg, cfg[i].name \in Ifaces
    PROVE  IndexOf(cfg, cfg[i].name) = i /\ i # 0
<1>1. cfg \in Seq(Entries) /\ i \in 1..Len(cfg)
  BY DEF ListOK
<1>2. IndexOf(cfg, cfg[i].name) \in DOMAIN cfg /\ cfg[IndexOf(cfg, cfg[i].name)].name = cfg[i].name
  BY <1>1, Found
<1> QED BY <1>1, <1>2 DEF ListOK

-----------------------------------------------------------------------------
(* The list and the kernel                                                 *)

Kernels == [Names -> [link : BOOLEAN, up : BOOLEAN, addr : Addrs \cup {"none", "lease"}]]

\* The links of the physical interfaces are there, with the addresses of a
\* list.
Backed(ker, cfg) ==
    /\ ker \in Kernels
    /\ \A n \in Ifaces : ker[n].link
    /\ \A i \in DOMAIN cfg :
          cfg[i].name \in Ifaces /\ cfg[i].addr # "dhcp" => ker[cfg[i].name].addr = cfg[i].addr

ListInv ==
    /\ ListOK(config) /\ Backed(kernel, config)
    /\ vlanLinks \subseteq Names \X Vids /\ clients \subseteq Names

\* Applying a setting.
LEMMA AppliedType ==
    ASSUME NEW ker \in Kernels, NEW n \in Names, NEW s \in Settings
    PROVE  /\ Applied(ker[n], s) \in [link : BOOLEAN, up : BOOLEAN, addr : Addrs \cup {"none", "lease"}]
           /\ Applied(ker[n], s).link /\ Applied(ker[n], s).up
           /\ s # "dhcp" => Applied(ker[n], s).addr = s
  BY DEF Applied, Settings

\* A list is applied entry by entry, so the kernel then has its addresses;
\* with `all` also where the link was missing.
LEMMA AppliedList ==
    ASSUME ListInv, NEW cfg, ListOK(cfg), NEW ker, NEW all \in BOOLEAN,
           ker = [n \in Names |-> IF IndexOf(cfg, n) # 0 /\ (all \/ kernel[n].link)
                                  THEN Applied(kernel[n], cfg[IndexOf(cfg, n)].addr)
                                  ELSE kernel[n]]
    PROVE  Backed(ker, cfg)
<1>1. kernel \in Kernels /\ cfg \in Seq(Entries) /\ Ifaces \subseteq Names
  BY DEF ListInv, Backed, ListOK, Names
<1>2. ASSUME NEW n \in Names, IndexOf(cfg, n) # 0
      PROVE  cfg[IndexOf(cfg, n)].addr \in Settings
  <2>1. IndexOf(cfg, n) \in DOMAIN cfg
    BY <1>1, <1>2, Found
  <2>2. cfg[IndexOf(cfg, n)] \in Entries
    BY <1>1, <2>1
  <2> QED BY <2>2 DEF Entries
<1>3. ker \in Kernels
  <2>1. \A n \in Names : ker[n] \in [link : BOOLEAN, up : BOOLEAN, addr : Addrs \cup {"none", "lease"}]
    BY <1>1, <1>2, AppliedType DEF Kernels
  <2> QED BY <2>1 DEF Kernels
<1>4. \A n \in Ifaces : ker[n].link
  BY <1>1, <1>2, AppliedType DEF ListInv, Backed
<1>5. ASSUME NEW i \in DOMAIN cfg, cfg[i].name \in Ifaces, cfg[i].addr # "dhcp"
      PROVE  ker[cfg[i].name].addr = cfg[i].addr
  <2>1. IndexOf(cfg, cfg[i].name) = i /\ i # 0
    BY <1>5, TheEntry
  <2>2. kernel[cfg[i].name].link /\ cfg[i].name \in Names
    BY <1>1, <1>5 DEF ListInv, Backed
  <2>3. ker[cfg[i].name] = Applied(kernel[cfg[i].name], cfg[i].addr)
    BY <2>1, <2>2
  <2> QED BY <1>5, <2>3 DEF Applied
<1> QED BY <1>3, <1>4, <1>5 DEF Backed

\* A list that asks for no address a backed one does not ask for.
LEMMA FewerEntries ==
    ASSUME NEW ker, NEW cfg, NEW less, Backed(ker, cfg),
           \A j \in DOMAIN less : \E k \in DOMAIN cfg :
              less[j].name = cfg[k].name /\ less[j].addr = cfg[k].addr
    PROVE  Backed(ker, less)
  BY DEF Backed

LEMMA ShorterList ==
    ASSUME NEW cfg, ListOK(cfg), NEW i \in DOMAIN cfg
    PROVE  /\ ListOK(RemoveAt(cfg, i))
           /\ \A j \in DOMAIN RemoveAt(cfg, i) : \E k \in DOMAIN cfg : RemoveAt(cfg, i)[j] = cfg[k]
<1> DEFINE less == RemoveAt(cfg, i)
           old(j) == IF j < i THEN j ELSE j + 1
<1>1. cfg \in Seq(Entries) /\ i \in 1..Len(cfg) /\ Len(cfg) \in Nat
  BY DEF ListOK
<1>2. /\ less \in Seq(Entries) /\ Len(less) = Len(cfg) - 1
      /\ \A j \in DOMAIN less : less[j] = IF j < i THEN cfg[j] ELSE cfg[j + 1]
  BY <1>1, Removed
<1> HIDE DEF less
<1>3. \A j \in DOMAIN less : old(j) \in DOMAIN cfg /\ less[j] = cfg[old(j)]
  BY <1>1, <1>2
<1>4. \A j, k \in DOMAIN less : old(j) = old(k) => j = k
  BY <1>1, <1>2
<1> HIDE DEF old
<1>5. \A j, k \in DOMAIN less : less[j].name \in Ifaces /\ less[k].name = less[j].name => j = k
  BY <1>3, <1>4 DEF ListOK
<1>6. ListOK(less)
  BY <1>2, <1>5 DEF ListOK
<1> QED BY <1>3, <1>6 DEF less

LEMMA LongerList ==
    ASSUME NEW cfg, ListOK(cfg), NEW e \in Entries,
           e.name \in Ifaces => IndexOf(cfg, e.name) = 0
    PROVE  /\ ListOK(Append(cfg, e))
           /\ \A j \in DOMAIN Append(cfg, e) : 
              Append(cfg, e)[j] = e \/ (j \in DOMAIN cfg /\ Append(cfg, e)[j] = cfg[j])
<1> DEFINE more == Append(cfg, e)
<1>1. cfg \in Seq(Entries) /\ Len(cfg) \in Nat
  BY DEF ListOK
<1>2. /\ more \in Seq(Entries) /\ Len(more) = Len(cfg) + 1
      /\ more[Len(cfg) + 1] = e /\ \A j \in DOMAIN cfg : more[j] = cfg[j]
  BY <1>1
<1>3. \A j \in DOMAIN more : j \in DOMAIN cfg \/ j = Len(cfg) + 1
  BY <1>1, <1>2
<1>4. e.name \in Ifaces => \A j \in DOMAIN cfg : cfg[j].name # e.name
  BY <1>1, Found
<1> HIDE DEF more
<1>5. \A j, k \in DOMAIN more : more[j].name \in Ifaces /\ more[k].name = more[j].name => j = k
  BY <1>2, <1>3, <1>4 DEF ListOK
<1>6. ListOK(more)
  BY <1>2, <1>5 DEF ListOK
<1>7. \A j \in DOMAIN more : more[j] = e \/ (j \in DOMAIN cfg /\ more[j] = cfg[j])
  BY <1>2, <1>3
<1> QED BY <1>6, <1>7 DEF more

LEMMA SameNames ==
    ASSUME NEW cfg, ListOK(cfg), NEW other \in Seq(Entries), DOMAIN other = DOMAIN cfg,
           \A i \in DOMAIN cfg : other[i].name = cfg[i].name
    PROVE  ListOK(other)
  BY DEF ListOK

-----------------------------------------------------------------------------
(* The handlers                                                            *)

LEMMA UpdateKeeps ==
    ASSUME ListInv, NEW args \in UpdateArgs, UpdateInterface(args)
    PROVE  ListInv'
<1> DEFINE n == args.name
           i == IndexOf(config, n)
           e == UpdateEffect(args)
<1>1. /\ n \in Names /\ args.addr \in Settings
      /\ args.action \in {"enable", "disable", "update", "delete"}
  BY DEF UpdateArgs, Settings
<1>2. config' = e.cfg /\ kernel' = e.ker /\ vlanLinks' = vlanLinks /\ clients' = clients
  BY DEF UpdateInterface
<1>3. ListOK(config) /\ config \in Seq(Entries) /\ Backed(kernel, config) /\ kernel \in Kernels
  BY DEF ListInv, ListOK, Backed
<1>4. \/ i = 0 /\ \A j \in DOMAIN config : config[j].name # n
      \/ i \in DOMAIN config /\ config[i].name = n
  BY <1>3, Found
<1> HIDE DEF i
<1>5. CASE args.action \in {"enable", "disable"}
  <2>1. config' = config
    BY <1>2, <1>5 DEF UpdateEffect
  <2>2. PICK x \in BOOLEAN : kernel' = kernel \/ kernel' = [kernel EXCEPT ![n].up = x]
    BY <1>2, <1>5 DEF UpdateEffect
  <2>3. Backed(kernel', config)
    <3>1. CASE kernel' = [kernel EXCEPT ![n].up = x]
      <4>1. [kernel[n] EXCEPT !.up = x] \in [link : BOOLEAN, up : BOOLEAN, addr : Addrs \cup {"none", "lease"}]
        BY <1>1, <1>3 DEF Kernels
      <4>2. kernel' \in Kernels
        BY <1>1, <1>3, <3>1, <4>1 DEF Kernels
      <4>3. \A m \in Names : kernel'[m].link = kernel[m].link /\ kernel'[m].addr = kernel[m].addr
        BY <1>1, <1>3, <3>1 DEF Kernels
      <4> QED BY <1>3, <4>2, <4>3 DEF Backed, Names, ListOK, Entries
    <3> QED BY <1>3, <2>2, <3>1
  <2> QED BY <1>2, <1>3, <2>1, <2>3 DEF ListInv
<1>6. CASE args.action = "update"
  <2> DEFINE cfg == IF i = 0 THEN Append(config, Entry(n, args.addr, <<>>))
                    ELSE [config EXCEPT ![i].addr = args.addr]
  <2>1. /\ config' = cfg
        /\ kernel' = IF kernel[n].link THEN [kernel EXCEPT ![n] = Applied(kernel[n], args.addr)] ELSE kernel
    BY <1>2, <1>6 DEF UpdateEffect, i
  <2>2. /\ ListOK(cfg)
        /\ \A j \in DOMAIN cfg :
              \/ cfg[j].name = n /\ cfg[j].addr = args.addr
              \/ j \in DOMAIN config /\ cfg[j] = config[j] /\ (n \in Ifaces => cfg[j].name # n)
    <3>1. CASE i = 0
      <4>1. Entry(n, args.addr, <<>>) \in Entries
        BY <1>1 DEF Entry, Entries
      <4>2. Entry(n, args.addr, <<>>).name = n /\ Entry(n, args.addr, <<>>).addr = args.addr
        BY DEF Entry
      <4>3. IndexOf(config, n) = 0
        BY <3>1 DEF i
      <4> QED BY <1>3, <1>4, <3>1, <4>1, <4>2, <4>3, LongerList
    <3>2. CASE i # 0
      <4>1. i \in DOMAIN config /\ config[i].name = n
        BY <1>4, <3>2
      <4>2. cfg = [config EXCEPT ![i].addr = args.addr]
        BY <3>2
      <4>3. [config[i] EXCEPT !.addr = args.addr] \in Entries
        <5>1. config[i] \in Entries
          BY <1>3, <4>1
        <5> QED BY <1>1, <5>1 DEF Entries
      <4>4. cfg \in Seq(Entries) /\ DOMAIN cfg = DOMAIN config
        BY <1>3, <4>1, <4>2, <4>3
      <4>5. /\ cfg[i].name = n /\ cfg[i].addr = args.addr
            /\ \A j \in DOMAIN config : j # i => cfg[j] = config[j]
        <5>1. config[i] \in Entries
          BY <1>3, <4>1
        <5> QED BY <1>3, <4>1, <4>2, <5>1 DEF Entries
      <4>6. \A j \in DOMAIN config : j # i /\ n \in Ifaces => config[j].name # n
        BY <1>3, <4>1 DEF ListOK
      <4> HIDE DEF cfg
      <4>7. ListOK(cfg)
        BY <1>3, <4>1, <4>4, <4>5, SameNames
      <4> QED BY <4>4, <4>5, <4>6, <4>7
    <3> QED BY <3>1, <3>2
  <2> HIDE DEF cfg
  <2>3. kernel' \in Kernels
    BY <1>1, <1>3, <2>1, AppliedType DEF Kernels
  <2>4. \A m \in Ifaces : kernel'[m].link
    BY <1>1, <1>3, <2>1, AppliedType DEF Backed, Kernels
  <2>5. ASSUME NEW j \in DOMAIN cfg, cfg[j].name \in Ifaces, cfg[j].addr # "dhcp"
        PROVE  kernel'[cfg[j].name].addr = cfg[j].addr
    <3>1. Ifaces \subseteq Names
      BY DEF Names
    <3>2. CASE cfg[j].name = n /\ cfg[j].addr = args.addr
      <4>1. kernel[n].link
        BY <1>3, <2>5, <3>2 DEF Backed
      <4>2. kernel'[n] = Applied(kernel[n], args.addr)
        BY <1>1, <1>3, <2>1, <4>1 DEF Kernels
      <4> QED BY <2>5, <3>2, <4>2 DEF Applied
    <3>3. CASE j \in DOMAIN config /\ cfg[j] = config[j] /\ cfg[j].name # n
      <4>1. kernel'[cfg[j].name] = kernel[cfg[j].name]
        BY <1>1, <1>3, <2>1, <2>5, <3>1, <3>3 DEF Kernels
      <4> QED BY <1>3, <2>5, <3>3, <4>1 DEF Backed
    <3> QED BY <2>2, <2>5, <3>2, <3>3
  <2> QED BY <1>2, <2>1, <2>2, <2>3, <2>4, <2>5 DEF ListInv, Backed
<1>7. CASE args.action = "delete"
  <2>1. CASE i = 0
    BY <1>2, <1>3, <1>7, <2>1 DEF UpdateEffect, i, ListInv
  <2>2. CASE i # 0
    <3>1. config' = RemoveAt(config, i) /\ kernel' = kernel
      BY <1>2, <1>7, <2>2 DEF UpdateEffect, i
    <3>2. i \in DOMAIN config
      BY <1>4, <2>2
    <3>3. /\ ListOK(config')
          /\ \A j \in DOMAIN config' : \E k \in DOMAIN config : config'[j] = config[k]
      BY <1>3, <3>1, <3>2, ShorterList
    <3>4. Backed(kernel', config')
      BY <1>3, <3>1, <3>3, FewerEntries
    <3> QED BY <1>2, <3>3, <3>4 DEF ListInv
  <2> QED BY <2>1, <2>2
<1> QED BY <1>1, <1>5, <1>6, <1>7

\* Another VLAN list for an entry is no matter for names and addresses.
WithVlans(cfg, i, vs) == [cfg EXCEPT ![i].vlans = vs]

LEMMA OtherVlans ==
    ASSUME NEW cfg, ListOK(cfg), NEW i \in DOMAIN cfg, NEW vs \in Seq(Vids)
    PROVE  /\ ListOK(WithVlans(cfg, i, vs)) /\ DOMAIN WithVlans(cfg, i, vs) = DOMAIN cfg
           /\ \A j \in DOMAIN cfg :
                 /\ WithVlans(cfg, i, vs)[j].name = cfg[j].name
                 /\ WithVlans(cfg, i, vs)[j].addr = cfg[j].addr
<1> DEFINE other == [cfg EXCEPT ![i].vlans = vs]
<1>1. cfg \in Seq(Entries)
  BY DEF ListOK
<1>2. cfg[i] \in Entries
  BY <1>1
<1>3. [cfg[i] EXCEPT !.vlans = vs] \in Entries
  BY <1>2 DEF Entries
<1>4. other \in Seq(Entries) /\ DOMAIN other = DOMAIN cfg
  BY <1>1, <1>3
<1>5. \A j \in DOMAIN cfg : other[j].name = cfg[j].name /\ other[j].addr = cfg[j].addr
  <2>1. other[i].name = cfg[i].name /\ other[i].addr = cfg[i].addr
    BY <1>1, <1>2 DEF Entries
  <2>2. \A j \in DOMAIN cfg : j # i => other[j] = cfg[j]
    BY <1>1
  <2> QED BY <2>1, <2>2
<1> HIDE DEF other
<1>6. ListOK(other)
  BY <1>4, <1>5, SameNames
<1> QED BY <1>4, <1>5, <1>6 DEF other, WithVlans

\* The same for the list in force.
LEMMA VlansChange ==
    ASSUME ListInv, NEW i \in DOMAIN config, NEW vs \in Seq(Vids),
           config' = WithVlans(config, i, vs), kernel' = kernel,
           vlanLinks' \subseteq Names \X Vids, clients' = clients
    PROVE  ListInv'
<1>1. ListOK(config)
  BY DEF ListInv
<1>2. /\ ListOK(config') /\ DOMAIN config' = DOMAIN config
      /\ \A j \in DOMAIN config : config'[j].name = config[j].name /\ config'[j].addr = config[j].addr
  BY <1>1, OtherVlans
<1>3. Backed(kernel', config')
  BY <1>2, FewerEntries DEF ListInv
<1> QED BY <1>2, <1>3 DEF ListInv

LEMMA CreateVLANKeeps ==
    ASSUME ListInv, NEW p \in Ifaces, NEW v \in Vids, NEW up \in BOOLEAN, CreateVLAN(p, v, up)
    PROVE  ListInv'
<1>1. p \in Names /\ config \in Seq(Entries) /\ kernel' = kernel /\ clients' = clients
  BY DEF Names, ListInv, ListOK, CreateVLAN
<1>2. vlanLinks' \subseteq Names \X Vids
  BY <1>1 DEF CreateVLAN, ListInv
<1>3. CASE up /\ IndexOf(config, p) # 0
  <2> DEFINE i == IndexOf(config, p)
  <2>1. i \in DOMAIN config
    BY <1>1, <1>3, Found
  <2>2. config[i] \in Entries
    BY <1>1, <2>1
  <2>3. Append(config[i].vlans, v) \in Seq(Vids)
    BY <2>2 DEF Entries
  <2>4. config' = WithVlans(config, i, Append(config[i].vlans, v))
    BY <1>1, <1>3, <2>1 DEF CreateVLAN, WithVlans
  <2> HIDE DEF i
  <2> QED BY <1>1, <1>2, <2>1, <2>3, <2>4, VlansChange
<1>4. CASE ~(up /\ IndexOf(config, p) # 0)
  BY <1>1, <1>2, <1>4 DEF CreateVLAN, ListInv
<1> QED BY <1>3, <1>4

\* What VlanIndex finds.
LEMMA VlanFound ==
    ASSUME ListInv, NEW p, NEW v, VlanIndex(p, v) # 0
    PROVE  /\ IndexOf(config, p) \in DOMAIN config /\ config[IndexOf(config, p)].name = p
           /\ config[IndexOf(config, p)].vlans \in Seq(Vids)
           /\ VlanIndex(p, v) \in DOMAIN config[IndexOf(config, p)].vlans
<1> DEFINE i == IndexOf(config, p)
           vs == config[i].vlans
           I == {k \in 1..Len(vs) : vs[k] = v}
<1>1. config \in Seq(Entries)
  BY DEF ListInv, ListOK
<1>2. i # 0
  BY DEF VlanIndex
<1>3. i \in DOMAIN config /\ config[i].name = p
  BY <1>1, <1>2, Found
<1>4. config[i] \in Entries
  BY <1>1, <1>3
<1>5. vs \in Seq(Vids)
  BY <1>4 DEF Entries
<1>6. VlanIndex(p, v) = IF I # {} THEN Min(I) ELSE 0
  BY <1>2 DEF VlanIndex, SelectInSeq
<1>7. VlanIndex(p, v) = Min(I) /\ I # {}
  BY <1>6
<1>8. I \in SUBSET Nat /\ DOMAIN vs = 1..Len(vs)
  BY <1>5
<1>9. Min(I) \in I
  <2> HIDE DEF I
  <2> QED BY <1>7, <1>8, Least
<1> QED BY <1>3, <1>5, <1>7, <1>8, <1>9

LEMMA DeleteVLANKeeps ==
    ASSUME ListInv, NEW p \in Ifaces, NEW v \in Vids, DeleteVLAN(p, v)
    PROVE  ListInv'
<1>1. kernel' = kernel /\ clients' = clients /\ vlanLinks' \subseteq Names \X Vids
  BY DEF DeleteVLAN, ListInv
<1>2. CASE VlanIndex(p, v) = 0
  BY <1>1, <1>2 DEF DeleteVLAN, ListInv
<1>3. CASE VlanIndex(p, v) # 0
  <2> DEFINE i == IndexOf(config, p)
             vs == RemoveAt(config[i].vlans, VlanIndex(p, v))
  <2>1. i \in DOMAIN config /\ vs \in Seq(Vids)
    BY <1>3, VlanFound, Removed
  <2>2. config' = WithVlans(config, i, vs)
    BY <1>3, <2>1 DEF DeleteVLAN, WithVlans, ListInv, ListOK
  <2> HIDE DEF i, vs
  <2> QED BY <1>1, <2>1, <2>2, VlansChange
<1> QED BY <1>2, <1>3

\* The kernel may do what it likes with the bond, if the addresses and links
\* of the physical interfaces are left.
LEMMA BondOnly ==
    ASSUME NEW ker, NEW ker2 \in Kernels, NEW cfg, Backed(ker, cfg),
           \A n \in Ifaces : ker2[n].link = ker[n].link /\ ker2[n].addr = ker[n].addr
    PROVE  Backed(ker2, cfg)
  BY DEF Backed

LEMMA CreateBondKeeps ==
    ASSUME ListInv, NEW m \in Ifaces, NEW s \in Settings, NEW outcome \in {"ok", "down", "nodhcp"},
           CreateBond(m, s, outcome)
    PROVE  ListInv'
<1> DEFINE bond == [link |-> TRUE, up |-> outcome # "down",
                    addr |-> IF s = "dhcp" \/ outcome # "ok" THEN "none" ELSE s]
           ker == [kernel EXCEPT ![Bond] = bond]
           States == [link : BOOLEAN, up : BOOLEAN, addr : Addrs \cup {"none", "lease"}]
<1> USE InterfaceAssumption
<1>1. /\ m \in Names /\ Bond \in Names /\ m # Bond /\ Bond \notin Ifaces /\ Ifaces \subseteq Names
      /\ ListOK(config) /\ Backed(kernel, config) /\ kernel \in [Names -> States]
  BY DEF Names, ListInv, Backed, Kernels
<1>2. kernel' = [ker EXCEPT ![m].up = FALSE]
  BY <1>1 DEF CreateBond
<1>3. bond \in States
  BY DEF Settings
<1>4. ker \in [Names -> States] /\ \A n \in Ifaces : ker[n] = kernel[n]
  BY <1>1, <1>3
<1> HIDE DEF ker, bond
<1>5. [ker[m] EXCEPT !.up = FALSE] \in States
  BY <1>1, <1>4
<1>6. kernel' \in Kernels
  BY <1>1, <1>2, <1>4, <1>5 DEF Kernels
<1>7. \A n \in Ifaces : kernel'[n].link = kernel[n].link /\ kernel'[n].addr = kernel[n].addr
  BY <1>1, <1>2, <1>4
<1>8. Backed(kernel', config)
  BY <1>1, <1>6, <1>7, BondOnly
<1>9. ListOK(config') /\ Backed(kernel', config')
  <2>1. CASE outcome = "ok"
    <3> DEFINE e == Entry(Bond, s, <<>>)
    <3>1. e \in Entries /\ e.name = Bond
      BY <1>1 DEF Entry, Entries
    <3>2. config' = Append(config, e)
      BY <2>1 DEF CreateBond
    <3> HIDE DEF e
    <3>3. /\ ListOK(config')
          /\ \A j \in DOMAIN config' : config'[j] = e \/ (j \in DOMAIN config /\ config'[j] = config[j])
      BY <1>1, <3>1, <3>2, LongerList
    <3>4. Backed(kernel', config')
      BY <1>1, <1>8, <3>1, <3>3 DEF Backed
    <3> QED BY <3>3, <3>4
  <2>2. CASE outcome # "ok"
    BY <1>1, <1>8, <2>2 DEF CreateBond
  <2> QED BY <2>1, <2>2
<1>10. vlanLinks' = vlanLinks /\ clients' \subseteq Names
  BY <1>1 DEF CreateBond, ListInv
<1> QED BY <1>9, <1>10 DEF ListInv

LEMMA DeleteBondKeeps ==
    ASSUME ListInv, DeleteBond
    PROVE  ListInv'
<1> USE InterfaceAssumption
<1>1. /\ Bond \in Names /\ Bond \notin Ifaces /\ Ifaces \subseteq Names
      /\ ListOK(config) /\ Backed(kernel, config) /\ kernel \in Kernels
  BY DEF Names, ListInv, Backed
<1>2. /\ kernel' \in Kernels
      /\ \A n \in Ifaces : kernel'[n] = kernel[n]
  BY <1>1 DEF DeleteBond, Kernels
<1>3. Backed(kernel', config)
  BY <1>1, <1>2, BondOnly
<1>4. ListOK(config') /\ Backed(kernel', config')
  <2>1. CASE IndexOf(config, Bond) = 0
    BY <1>1, <1>3, <2>1 DEF DeleteBond
  <2>2. CASE IndexOf(config, Bond) # 0
    <3>1. config' = RemoveAt(config, IndexOf(config, Bond)) /\ IndexOf(config, Bond) \in DOMAIN config
      BY <1>1, <2>2, Found DEF DeleteBond, ListOK
    <3>2. /\ ListOK(config')
          /\ \A j \in DOMAIN config' : \E k \in DOMAIN config : config'[j] = config[k]
      BY <1>1, <3>1, ShorterList
    <3> QED BY <1>3, <3>2, FewerEntries
  <2> QED BY <2>1, <2>2
<1> QED BY <1>4 DEF DeleteBond, ListInv

\* The VLANs and the DHCP interfaces of a list.
LEMMA ListNames ==
    ASSUME NEW cfg, ListOK(cfg)
    PROVE  VlansOf(cfg) \subseteq Names \X Vids /\ DhcpOf(cfg) \subseteq Names
<1>1. \A i \in DOMAIN cfg : cfg[i].name \in Names /\ Range(cfg[i].vlans) \subseteq Vids
  <2> SUFFICES ASSUME NEW i \in DOMAIN cfg
               PROVE  cfg[i].name \in Names /\ Range(cfg[i].vlans) \subseteq Vids
    OBVIOUS
  <2>1. cfg[i] \in Entries
    BY DEF ListOK
  <2>2. cfg[i].name \in Names /\ cfg[i].vlans \in Seq(Vids)
    BY <2>1 DEF Entries
  <2> QED BY <2>2 DEF Range
<1> QED BY <1>1 DEF VlansOf, DhcpOf

\* A reload and a rollback apply a whole list.
LEMMA ReloadKeeps ==
    ASSUME ListInv, NEW cfg \in Reloads, ReloadInterfaces(cfg)
    PROVE  ListInv'
<1>1. ListOK(cfg) /\ cfg \in Seq(Entries)
  BY InterfaceAssumption DEF ListOK
<1>2. Backed(kernel', cfg)
  BY <1>1, AppliedList, TRUE \in BOOLEAN DEF ReloadInterfaces
<1>3. config' = cfg /\ vlanLinks' \subseteq Names \X Vids /\ clients' \subseteq Names
  BY <1>1, ListNames DEF ReloadInterfaces, ListInv
<1> QED BY <1>1, <1>2, <1>3 DEF ListInv

LEMMA ApplyAllBacked ==
    ASSUME ListInv, NEW cfg, ListOK(cfg)
    PROVE  Backed(ApplyAll(cfg), cfg)
  BY AppliedList, FALSE \in BOOLEAN DEF ApplyAll

LEMMA RestoreKeeps ==
    ASSUME ListInv, NEW cfg, ListOK(cfg), RestoreInterfaces(cfg)
    PROVE  ListInv'
  BY ApplyAllBacked DEF RestoreInterfaces, ListInv

LEMMA LeaseKeeps ==
    ASSUME ListInv, NEW n \in Names, LeaseArrives(n)
    PROVE  ListInv'
<1> DEFINE i == IndexOf(config, n)
<1>1. config' = config /\ vlanLinks' = vlanLinks /\ clients' = clients
  BY DEF LeaseArrives
<1>2. ListOK(config) /\ config \in Seq(Entries) /\ Backed(kernel, config) /\ kernel \in Kernels
  BY DEF ListInv, ListOK, Backed
<1>3. i \in DOMAIN config /\ config[i].name = n /\ config[i].addr = "dhcp"
  BY <1>2, Found DEF LeaseArrives
<1>4. [kernel[n] EXCEPT !.addr = "lease"]
        \in [link : BOOLEAN, up : BOOLEAN, addr : Addrs \cup {"none", "lease"}]
  BY <1>2 DEF Kernels
<1>5. kernel' = [kernel EXCEPT ![n].addr = "lease"]
  BY DEF LeaseArrives
<1>6. kernel' \in Kernels /\ (\A m \in Names : kernel'[m].link = kernel[m].link)
  BY <1>2, <1>4, <1>5 DEF Kernels
<1>7. \A m \in Names : m # n => kernel'[m] = kernel[m]
  BY <1>2, <1>5 DEF Kernels
<1> HIDE DEF i
<1>8. \A j \in DOMAIN config : config[j].name \in Ifaces /\ config[j].addr # "dhcp" => config[j].name # n
  BY <1>2, <1>3 DEF ListOK
<1>9. Backed(kernel', config')
  BY <1>1, <1>2, <1>6, <1>7, <1>8 DEF Backed, Names
<1> QED BY <1>1, <1>2, <1>9 DEF ListInv

LEMMA InitList == Init => ListInv
<1> SUFFICES ASSUME Init PROVE ListInv
  OBVIOUS
<1>1. ListOK(config) /\ config \in Seq(Entries)
  BY InterfaceAssumption DEF Init, IfaceInit, ListOK
<1>2. \A n \in Names : IndexOf(config, n) = 0 \/ config[IndexOf(config, n)].addr \in Settings
  <2> SUFFICES ASSUME NEW n \in Names, IndexOf(config, n) # 0
               PROVE  config[IndexOf(config, n)].addr \in Settings
    OBVIOUS
  <2>1. IndexOf(config, n) \in DOMAIN config
    BY <1>1, Found
  <2>2. config[IndexOf(config, n)] \in Entries
    BY <1>1, <2>1
  <2> QED BY <2>2 DEF Entries
<1>3. kernel \in Kernels /\ \A n \in Ifaces : kernel[n].link
  BY <1>2 DEF Init, IfaceInit, Kernels, Settings, Names
<1>4. ASSUME NEW i \in DOMAIN config, config[i].name \in Ifaces, config[i].addr # "dhcp"
      PROVE  kernel[config[i].name].addr = config[i].addr
  <2>1. IndexOf(config, config[i].name) = i /\ i # 0
    BY <1>1, <1>4, TheEntry
  <2>2. config[i].name \in Names
    BY <1>4 DEF Names
  <2> QED BY <1>4, <2>1, <2>2 DEF Init, IfaceInit
<1>5. vlanLinks \subseteq Names \X Vids /\ clients \subseteq Names
  BY <1>1, ListNames DEF Init, IfaceInit
<1> QED BY <1>1, <1>3, <1>4, <1>5 DEF ListInv, Backed

-----------------------------------------------------------------------------
(* The pending apply                                                       *)

ApplyTypes ==
    /\ pending \in Applies \cup {NoApply} /\ probing \in {NoApply, pending}
    /\ shared \subseteq Names
    /\ kept \in BOOLEAN /\ cancelled \subseteq Applies
    /\ timer \in [Applies -> {"none", "armed", "fired"}]
    /\ used \in 0..MaxApplies /\ others \in 0..MaxOthers
    /\ disturbed \in BOOLEAN

\* Both snapshots of a pending apply can be applied.
Snapshots ==
    /\ pending = NoApply => memory = NoSnapshot
    /\ pending # NoApply => ListOK(memory) /\ ListOK(file)
    /\ SnapshotKept

NetInv == ListInv /\ ApplyTypes /\ Snapshots

LEMMA NumbersAreIds == NoApply \notin Applies
  BY DEF Applies, NoApply

LEMMA InvIsUndoable == NetInv => InterfacesUndoable
<1> SUFFICES ASSUME NetInv PROVE InterfacesUndoable
  OBVIOUS
<1>1. IfaceTypeOK
  BY DEF NetInv, ListInv, ListOK, Backed, Kernels, IfaceTypeOK
<1>2. TypeOK
  BY <1>1 DEF NetInv, ApplyTypes, TypeOK
<1>3. AddressesAgree
  BY DEF NetInv, ListInv, ListOK, Backed, AddressesAgree
<1> QED BY <1>2, <1>3 DEF NetInv, Snapshots, InterfacesUndoable

\* What Forget leaves of the apply.
LEMMA Forgotten ==
    ASSUME Forget
    PROVE  Snapshots' /\ pending' = NoApply /\ shared' = {} /\ disturbed' = FALSE
  BY DEF Forget, Snapshots, SnapshotKept

LEMMA ApplyKeeps ==
    ASSUME NetInv, NEW a \in Applies, NEW args \in UpdateArgs, ApplyInterfaceConfig(a, args)
    PROVE  NetInv'
<1> DEFINE err == UpdateEffect(args).err
<1>1. ListInv /\ ListOK(config) /\ ApplyTypes /\ Snapshots /\ pending = NoApply /\ probing = NoApply
  BY DEF NetInv, ListInv, ApplyInterfaceConfig
<1>2. /\ used' = a /\ disturbed' = FALSE /\ kept' = FALSE
      /\ cancelled' = cancelled /\ timer' = timer /\ others' = others
  BY DEF ApplyInterfaceConfig
<1>3. used' \in 0..MaxApplies
  BY <1>2, SafeNetworkAssumption DEF Applies
<1>4. CASE err
  <2>1. /\ config' = config /\ kernel' = ApplyAll(config)
        /\ vlanLinks' = vlanLinks /\ clients' = clients
        /\ pending' = pending /\ probing' = probing /\ memory' = memory /\ shared' = shared
    BY <1>4 DEF ApplyInterfaceConfig
  <2>2. ListInv'
    BY <1>1, <2>1, ApplyAllBacked DEF ListInv
  <2>3. ApplyTypes'
    BY <1>1, <1>2, <1>3, <2>1 DEF ApplyTypes
  <2>4. Snapshots'
    BY <1>1, <2>1 DEF Snapshots, SnapshotKept
  <2> QED BY <2>2, <2>3, <2>4 DEF NetInv
<1>5. CASE ~err
  <2>1. /\ UpdateInterface(args)
        /\ before' = config /\ pending' = a /\ probing' = a
        /\ memory' = config /\ file' = config /\ shared' = Shared(config)
    BY <1>5 DEF ApplyInterfaceConfig
  <2>2. ListInv'
    BY <1>1, <2>1, UpdateKeeps
  <2>3. Shared(config) \subseteq Names
    <3>1. \A i \in DOMAIN config : config[i] \in Entries
      BY <1>1 DEF ListOK
    <3> QED BY <3>1 DEF Shared, Entries
  <2>4. ApplyTypes'
    BY <1>1, <1>2, <1>3, <2>1, <2>3 DEF ApplyTypes
  <2>5. Snapshots'
    BY <1>1, <2>1, NumbersAreIds DEF Snapshots, SnapshotKept
  <2> QED BY <2>2, <2>4, <2>5 DEF NetInv
<1> QED BY <1>4, <1>5

LEMMA ProbeKeeps ==
    ASSUME NetInv, NEW a \in Applies, NEW c \in BOOLEAN, ProbeFails(a) \/ ProbeSucceeds(a, c)
    PROVE  NetInv'
<1>1. ListInv /\ ApplyTypes /\ Snapshots
  BY DEF NetInv
<1>2. probing = a /\ probing' = NoApply
  BY DEF ProbeFails, ProbeSucceeds
<1>3. pending = a /\ pending # NoApply
  BY <1>1, <1>2, NumbersAreIds DEF ApplyTypes
<1>4. CASE ProbeFails(a)
  <2>1. /\ RestoreInterfaces(memory) /\ Forget /\ kept' = kept /\ cancelled' = cancelled
        /\ timer' = timer /\ used' = used /\ others' = others
    BY <1>4 DEF ProbeFails
  <2>2. ListInv'
    BY <1>1, <1>3, <2>1, RestoreKeeps DEF Snapshots
  <2>3. ApplyTypes'
    BY <1>1, <1>2, <2>1, Forgotten DEF ApplyTypes
  <2> QED BY <2>1, <2>2, <2>3, Forgotten DEF NetInv
<1>5. CASE ProbeSucceeds(a, c)
  <2>1. /\ ListInv' /\ cancelled' = cancelled /\ used' = used /\ others' = others
    BY <1>1, <1>5 DEF ProbeSucceeds, ifaceVars, ListInv
  <2>2. CASE c
    <3>1. /\ timer' = [timer EXCEPT ![a] = "armed"] /\ pending' = pending /\ memory' = memory
          /\ file' = file /\ shared' = shared /\ before' = before /\ disturbed' = disturbed
          /\ kept' = kept
      BY <1>5, <2>2 DEF ProbeSucceeds
    <3>2. ApplyTypes'
      BY <1>1, <1>2, <2>1, <3>1 DEF ApplyTypes
    <3>3. Snapshots'
      BY <1>1, <3>1 DEF Snapshots, SnapshotKept
    <3> QED BY <2>1, <3>2, <3>3 DEF NetInv
  <2>3. CASE ~c
    <3>1. Forget /\ kept' = TRUE /\ timer' = timer
      BY <1>5, <2>3 DEF ProbeSucceeds
    <3>2. ApplyTypes'
      BY <1>1, <1>2, <2>1, <3>1, Forgotten DEF ApplyTypes
    <3> QED BY <2>1, <3>1, <3>2, Forgotten DEF NetInv
  <2> QED BY <2>2, <2>3
<1> QED BY <1>4, <1>5

LEMMA ConfirmKeeps ==
    ASSUME NetInv, NEW a \in Applies, ConfirmApply(a)
    PROVE  NetInv'
<1>1. ListInv /\ ApplyTypes
  BY DEF NetInv
<1>2. /\ probing = NoApply /\ probing' = probing /\ cancelled' = cancelled \cup {a} /\ kept' = TRUE
      /\ Forget /\ timer' = timer /\ used' = used /\ others' = others
  BY DEF ConfirmApply
<1>3. ListInv'
  BY <1>1 DEF ConfirmApply, ifaceVars, ListInv
<1>4. ApplyTypes'
  BY <1>1, <1>2, Forgotten DEF ApplyTypes
<1> QED BY <1>2, <1>3, <1>4, Forgotten DEF NetInv

LEMMA CancelKeeps ==
    ASSUME NetInv, NEW a \in Applies, NEW readable \in BOOLEAN, CancelApply(a, readable)
    PROVE  NetInv'
<1>1. ListInv /\ ApplyTypes /\ Snapshots
  BY DEF NetInv
<1>2. /\ probing = NoApply /\ pending = a /\ pending # NoApply /\ cancelled' = cancelled \cup {a}
      /\ probing' = probing /\ kept' = kept /\ timer' = timer /\ used' = used /\ others' = others
  BY NumbersAreIds DEF CancelApply
<1>3. CASE ~readable
  <2>1. /\ ListInv' /\ pending' = pending /\ memory' = memory /\ file' = file /\ shared' = shared
        /\ before' = before /\ disturbed' = disturbed
    BY <1>1, <1>3 DEF CancelApply, ifaceVars, ListInv
  <2>2. ApplyTypes' /\ Snapshots'
    BY <1>1, <1>2, <2>1 DEF ApplyTypes, Snapshots, SnapshotKept
  <2> QED BY <2>1, <2>2 DEF NetInv
<1>4. CASE readable
  <2>1. RestoreInterfaces(file) /\ ListOK(file)
    BY <1>1, <1>2, <1>4 DEF CancelApply, Snapshots
  <2>2. ListInv'
    BY <1>1, <2>1, RestoreKeeps
  <2>3. CASE MissingLink(file)
    <3>1. /\ shared' = {} /\ pending' = pending /\ memory' = memory /\ file' = file
          /\ before' = before /\ disturbed' = disturbed
      BY <1>4, <2>3 DEF CancelApply
    <3>2. ApplyTypes' /\ Snapshots'
      BY <1>1, <1>2, <3>1 DEF ApplyTypes, Snapshots, SnapshotKept
    <3> QED BY <2>2, <3>2 DEF NetInv
  <2>4. CASE ~MissingLink(file)
    <3>1. Forget
      BY <1>4, <2>4 DEF CancelApply
    <3>2. ApplyTypes'
      BY <1>1, <1>2, <3>1, Forgotten DEF ApplyTypes
    <3> QED BY <2>2, <3>1, <3>2, Forgotten DEF NetInv
  <2> QED BY <2>3, <2>4
<1> QED BY <1>3, <1>4

LEMMA TimerKeeps ==
    ASSUME NetInv, NEW a \in Applies, TimerFires(a) \/ TimerCancelled(a) \/ TimerRollsBack(a)
    PROVE  NetInv'
<1>1. ListInv /\ ApplyTypes /\ Snapshots
  BY DEF NetInv
<1>2. /\ timer' \in [Applies -> {"none", "armed", "fired"}]
      /\ probing' = probing /\ kept' = kept /\ cancelled' = cancelled /\ used' = used /\ others' = others
  BY <1>1 DEF TimerFires, TimerCancelled, TimerRollsBack, ApplyTypes
<1>3. CASE TimerRollsBack(a) /\ pending = a
  <2>1. RestoreInterfaces(memory) /\ Forget /\ ListOK(memory) /\ probing = NoApply
    BY <1>1, <1>3, NumbersAreIds DEF TimerRollsBack, StillPending, Snapshots
  <2>2. ListInv'
    BY <1>1, <2>1, RestoreKeeps
  <2>3. ApplyTypes'
    BY <1>1, <1>2, <2>1, Forgotten DEF ApplyTypes
  <2> QED BY <2>1, <2>2, <2>3, Forgotten DEF NetInv
<1>4. CASE ~(TimerRollsBack(a) /\ pending = a)
  <2>1. /\ config' = config /\ kernel' = kernel /\ vlanLinks' = vlanLinks /\ clients' = clients
        /\ pending' = pending /\ memory' = memory /\ file' = file /\ shared' = shared
        /\ before' = before /\ disturbed' = disturbed
    BY <1>4 DEF TimerFires, TimerCancelled, TimerRollsBack, StillPending, ifaceVars
  <2>2. ListInv'
    BY <1>1, <2>1 DEF ListInv
  <2>3. ApplyTypes' /\ Snapshots'
    BY <1>1, <1>2, <2>1 DEF ApplyTypes, Snapshots, SnapshotKept
  <2> QED BY <2>2, <2>3 DEF NetInv
<1> QED BY <1>3, <1>4

\* The shared array moves under the snapshot, which stays a list that can be
\* applied.
LEMMA ShiftedSnapshot ==
    ASSUME ListInv, NEW p, NEW v, ListOK(memory)
    PROVE  ListOK(ShiftShared(p, v))
<1> DEFINE j == VlanIndex(p, v)
           cv == config[IndexOf(config, p)].vlans
           m == IndexOf(memory, p)
           moved(vs) == [k \in DOMAIN vs |-> IF k >= j /\ k < Len(cv) THEN cv[k + 1] ELSE vs[k]]
<1>1. CASE j = 0 \/ p \notin shared \/ memory = NoSnapshot
  BY <1>1 DEF ShiftShared
<1>2. CASE ~(j = 0 \/ p \notin shared \/ memory = NoSnapshot)
  <2>1. cv \in Seq(Vids)
    BY <1>2, VlanFound
  <2>2. ShiftShared(p, v) = [memory EXCEPT ![m].vlans = moved(@)]
    BY <1>2 DEF ShiftShared
  <2>3. memory \in Seq(Entries)
    BY DEF ListOK
  <2>4. CASE m \in DOMAIN memory
    <3>1. memory[m] \in Entries
      BY <2>3, <2>4
    <3>2. memory[m].vlans \in Seq(Vids)
      BY <3>1 DEF Entries
    <3>3. moved(memory[m].vlans) \in Seq(Vids)
      <4> DEFINE vs == memory[m].vlans
      <4> HIDE DEF vs, cv, j
      <4>1. vs \in Seq(Vids)
        BY <3>2 DEF vs
      <4>2. \A k \in 1..Len(vs) : moved(vs)[k] \in Vids
        <5> SUFFICES ASSUME NEW k \in 1..Len(vs) PROVE moved(vs)[k] \in Vids
          OBVIOUS
        <5>1. moved(vs)[k] = IF k >= j /\ k < Len(cv) THEN cv[k + 1] ELSE vs[k]
          BY <4>1
        <5>2. k < Len(cv) => cv[k + 1] \in Vids
          BY <2>1, <4>1
        <5> QED BY <4>1, <5>1, <5>2
      <4>3. moved(vs) \in [1..Len(vs) -> Vids] /\ Len(vs) \in Nat
        <5>1. moved(vs) = [k \in 1..Len(vs) |-> moved(vs)[k]]
          BY <4>1
        <5> HIDE DEF moved
        <5> QED BY <4>1, <4>2, <5>1
      <4>4. moved(vs) \in Seq(Vids)
        <5> HIDE DEF moved
        <5> QED BY <4>3
      <4> QED BY <4>4 DEF vs
    <3>4. ShiftShared(p, v) = WithVlans(memory, m, moved(memory[m].vlans))
      BY <2>2, <2>3, <2>4 DEF WithVlans
    <3> HIDE DEF moved, m
    <3> QED BY <2>4, <3>3, <3>4, OtherVlans
  <2>5. CASE m \notin DOMAIN memory
    <3>1. ShiftShared(p, v) = memory
      BY <2>2, <2>3, <2>5
    <3> QED BY <3>1
  <2> QED BY <2>4, <2>5
<1> QED BY <1>1, <1>2

LEMMA OtherKeeps ==
    ASSUME NetInv, OtherHandler
    PROVE  NetInv'
<1>1. ListInv /\ ApplyTypes /\ Snapshots
  BY DEF NetInv
<1>2. /\ others' \in 0..MaxOthers /\ disturbed' = (pending # NoApply)
      /\ pending' = pending /\ probing' = probing /\ file' = file /\ kept' = kept
      /\ cancelled' = cancelled /\ timer' = timer /\ used' = used /\ before' = before
  BY <1>1, SafeNetworkAssumption DEF OtherHandler, Other, ApplyTypes
<1>3. /\ ListInv' /\ shared' \subseteq Names
      /\ \/ memory' = memory
         \/ \E p \in Ifaces, v \in Vids : memory' = ShiftShared(p, v)
  <2>1. ASSUME NEW args \in UpdateArgs, UpdateInterface(args),
               Unshare(IF args.action = "delete" THEN {args.name} ELSE {})
        PROVE  ListInv' /\ shared' \subseteq Names /\ memory' = memory
    BY <1>1, <2>1, UpdateKeeps DEF Unshare, ApplyTypes
  <2>2. ASSUME NEW p \in Ifaces, NEW v \in Vids, NEW up \in BOOLEAN, NEW grow \in BOOLEAN,
               CreateVLAN(p, v, up), Unshare(IF grow THEN {p} ELSE {})
        PROVE  ListInv' /\ shared' \subseteq Names /\ memory' = memory
    BY <1>1, <2>2, CreateVLANKeeps DEF Unshare, ApplyTypes
  <2>3. ASSUME NEW p \in Ifaces, NEW v \in Vids, DeleteVLAN(p, v),
               memory' = ShiftShared(p, v), UNCHANGED shared
        PROVE  ListInv' /\ shared' \subseteq Names /\ memory' = ShiftShared(p, v)
    BY <1>1, <2>3, DeleteVLANKeeps DEF ApplyTypes
  <2>4. ASSUME NEW m \in Ifaces, NEW s \in Settings, NEW outcome \in {"ok", "down", "nodhcp"},
               CreateBond(m, s, outcome), Unshare({})
        PROVE  ListInv' /\ shared' \subseteq Names /\ memory' = memory
    BY <1>1, <2>4, CreateBondKeeps DEF Unshare, ApplyTypes
  <2>5. ASSUME DeleteBond, Unshare({Bond})
        PROVE  ListInv' /\ shared' \subseteq Names /\ memory' = memory
    BY <1>1, <2>5, DeleteBondKeeps DEF Unshare, ApplyTypes
  <2>6. ASSUME NEW cfg \in Reloads, ReloadInterfaces(cfg), Unshare(shared)
        PROVE  ListInv' /\ shared' \subseteq Names /\ memory' = memory
    BY <1>1, <2>6, ReloadKeeps DEF Unshare, ApplyTypes
  <2> QED BY <2>1, <2>2, <2>3, <2>4, <2>5, <2>6 DEF OtherHandler
<1>4. disturbed' \in BOOLEAN
  <2> DEFINE open == pending # NoApply
  <2>1. open \in BOOLEAN
    OBVIOUS
  <2>2. disturbed' = open
    BY <1>2
  <2> HIDE DEF open
  <2> QED BY <2>1, <2>2
<1>5. ApplyTypes'
  BY <1>1, <1>2, <1>3, <1>4 DEF ApplyTypes
<1>6. pending # NoApply => ListOK(memory') /\ disturbed'
  BY <1>1, <1>2, <1>3, ShiftedSnapshot DEF Snapshots
<1>7. pending = NoApply => memory' = NoSnapshot
  BY <1>1, <1>3 DEF Snapshots, ShiftShared
<1>8. Snapshots'
  BY <1>1, <1>2, <1>6, <1>7 DEF Snapshots, SnapshotKept
<1> QED BY <1>3, <1>5, <1>8 DEF NetInv

LEMMA InitInv == Init => NetInv
<1> SUFFICES ASSUME Init PROVE NetInv
  OBVIOUS
<1>1. ApplyTypes
  <2>1. used \in 0..MaxApplies /\ others \in 0..MaxOthers
    BY SafeNetworkAssumption DEF Init
  <2>2. timer \in [Applies -> {"none", "armed", "fired"}]
    BY DEF Init
  <2> QED BY <2>1, <2>2 DEF Init, ApplyTypes
<1>2. Snapshots
  BY DEF Init, Snapshots, SnapshotKept
<1> QED BY <1>1, <1>2, InitList DEF NetInv

LEMMA StepKeeps == NetInv /\ [Next]_vars => NetInv'
<1> SUFFICES ASSUME NetInv, [Next]_vars PROVE NetInv'
  OBVIOUS
<1>1. ASSUME NEW a \in Applies, NEW args \in UpdateArgs, ApplyInterfaceConfig(a, args)
      PROVE  NetInv'
  BY <1>1, ApplyKeeps
<1>2. ASSUME NEW a \in Applies, ProbeFails(a)
      PROVE  NetInv'
  BY <1>2, ProbeKeeps, TRUE \in BOOLEAN
<1>3. ASSUME NEW a \in Applies, NEW c \in BOOLEAN, ProbeSucceeds(a, c)
      PROVE  NetInv'
  BY <1>3, ProbeKeeps
<1>4. ASSUME NEW a \in Applies, ConfirmApply(a)
      PROVE  NetInv'
  BY <1>4, ConfirmKeeps
<1>5. ASSUME NEW a \in Applies, NEW r \in BOOLEAN, CancelApply(a, r)
      PROVE  NetInv'
  BY <1>5, CancelKeeps
<1>6. ASSUME NEW a \in Applies, TimerFires(a) \/ TimerCancelled(a) \/ TimerRollsBack(a)
      PROVE  NetInv'
  BY <1>6, TimerKeeps
<1>7. CASE OtherHandler
  BY <1>7, OtherKeeps
<1>8. ASSUME NEW n \in Names, LeaseArrives(n), UNCHANGED applyVars
      PROVE  NetInv'
  <2>1. ListInv'
    BY <1>8, LeaseKeeps DEF NetInv
  <2> QED BY <1>8, <2>1 DEF NetInv, ApplyTypes, Snapshots, SnapshotKept, applyVars
<1>9. CASE UNCHANGED vars
  BY <1>9 DEF vars, ifaceVars, applyVars, NetInv, ListInv, ApplyTypes, Snapshots, SnapshotKept
<1> QED BY <1>1, <1>2, <1>3, <1>4, <1>5, <1>6, <1>7, <1>8, <1>9 DEF Next, Lease

\* The snapshot of a pending apply is there, and the kernel's addresses are
\* the configuration's, whatever handlers, reloads and rollbacks interleave.
THEOREM NetworkUndoable == Spec => []InterfacesUndoable
<1>1. Spec => []NetInv
  BY InitInv, StepKeeps, PTL DEF Spec
<1> QED BY <1>1, InvIsUndoable, PTL

-----------------------------------------------------------------------------
(* Rollbacks                                                               *)

\* A rollback to `before` gives the static interfaces their addresses.
LEMMA RestoreIsExact ==
    ASSUME ListInv, ListOK(before), RestoreInterfaces(before), NEW n \in Names,
           IndexOf(before, n) # 0, kernel'[n].link, before[IndexOf(before, n)].addr # "dhcp"
    PROVE  kernel'[n].up /\ kernel'[n].addr = before[IndexOf(before, n)].addr
<1>1. kernel' = ApplyAll(before)
  BY DEF RestoreInterfaces
<1>2. CASE kernel[n].link
  BY <1>1, <1>2 DEF ApplyAll, Applied
<1>3. CASE ~kernel[n].link
  BY <1>1, <1>3 DEF ApplyAll
<1> QED BY <1>2, <1>3

\* The only ways in which a pending apply is left, and what they do.
LEMMA Decided ==
    ASSUME NetInv, Next, pending # NoApply, pending' = NoApply, ~kept', ~disturbed
    PROVE  RestoreInterfaces(before) /\ ListOK(before)
<1>1. /\ memory = before /\ file = before /\ ListOK(before)
      /\ pending \in Applies /\ probing \in {NoApply, pending}
  BY DEF NetInv, ApplyTypes, Snapshots, SnapshotKept
<1>2. ASSUME NEW a \in Applies, NEW args \in UpdateArgs, ApplyInterfaceConfig(a, args)
      PROVE  FALSE
  BY <1>2 DEF ApplyInterfaceConfig
<1>3. ASSUME NEW a \in Applies, ProbeFails(a)
      PROVE  RestoreInterfaces(before)
  BY <1>1, <1>3 DEF ProbeFails
<1>4. ASSUME NEW a \in Applies, NEW c \in BOOLEAN, ProbeSucceeds(a, c)
      PROVE  FALSE
  BY <1>4 DEF ProbeSucceeds
<1>5. ASSUME NEW a \in Applies, ConfirmApply(a)
      PROVE  FALSE
  BY <1>5 DEF ConfirmApply
<1>6. ASSUME NEW a \in Applies, NEW r \in BOOLEAN, CancelApply(a, r)
      PROVE  RestoreInterfaces(before)
  BY <1>1, <1>6 DEF CancelApply
<1>7. ASSUME NEW a \in Applies, TimerFires(a) \/ TimerCancelled(a) \/ TimerRollsBack(a)
      PROVE  RestoreInterfaces(before)
  BY <1>1, <1>7 DEF TimerFires, TimerCancelled, TimerRollsBack
<1>8. ASSUME OtherHandler
      PROVE  FALSE
  BY <1>8 DEF OtherHandler, Other
<1>9. ASSUME Lease
      PROVE  FALSE
  BY <1>9 DEF Lease, applyVars
<1> QED BY <1>1, <1>2, <1>3, <1>4, <1>5, <1>6, <1>7, <1>8, <1>9 DEF Next

\* A timer leaves "fired" when it has the lock, and rolls back only its own
\* apply.
LEMMA LateTimer ==
    ASSUME NetInv, Next, NEW a \in Applies, timer[a] = "fired", timer'[a] = "none", pending # a
    PROVE  UNCHANGED <<ifaceVars, pending>>
<1>1. timer \in [Applies -> {"none", "armed", "fired"}]
  BY DEF NetInv, ApplyTypes
<1>2. PICK b \in Applies : TimerRollsBack(b)
  <2>1. ASSUME NEW b \in Applies, NEW args \in UpdateArgs, ApplyInterfaceConfig(b, args)
        PROVE  FALSE
    BY <2>1 DEF ApplyInterfaceConfig
  <2>2. ASSUME NEW b \in Applies, ProbeFails(b)
        PROVE  FALSE
    BY <2>2 DEF ProbeFails
  <2>3. ASSUME NEW b \in Applies, NEW c \in BOOLEAN, ProbeSucceeds(b, c)
        PROVE  FALSE
    BY <1>1, <2>3 DEF ProbeSucceeds
  <2>4. ASSUME NEW b \in Applies, ConfirmApply(b)
        PROVE  FALSE
    BY <2>4 DEF ConfirmApply
  <2>5. ASSUME NEW b \in Applies, NEW r \in BOOLEAN, CancelApply(b, r)
        PROVE  FALSE
    BY <2>5 DEF CancelApply
  <2>6. ASSUME NEW b \in Applies, TimerFires(b) \/ TimerCancelled(b)
        PROVE  FALSE
    BY <1>1, <2>6 DEF TimerFires, TimerCancelled
  <2>7. ASSUME OtherHandler
        PROVE  FALSE
    BY <2>7 DEF OtherHandler, Other
  <2>8. ASSUME Lease
        PROVE  FALSE
    BY <2>8 DEF Lease, applyVars
  <2> QED BY <2>1, <2>2, <2>3, <2>4, <2>5, <2>6, <2>7, <2>8 DEF Next
<1>3. b = a
  BY <1>1, <1>2 DEF TimerRollsBack
<1> QED BY <1>2, <1>3 DEF TimerRollsBack, StillPending, ifaceVars

\* An apply that is not made permanent leaves the interfaces as it found
\* them, and a timer that fires late changes nothing.
THEOREM RollbacksAreExact == Spec => RollbackExact
<1> DEFINE Back == \A a \in Applies :
                      pending = a /\ pending' = NoApply /\ ~kept' /\ ~disturbed =>
                         /\ config' = before
                         /\ \A n \in Names :
                               LET i == IndexOf(before, n)
                               IN i # 0 /\ kernel'[n].link /\ before[i].addr # "dhcp" =>
                                     kernel'[n].up /\ kernel'[n].addr = before[i].addr
           Late == \A a \in Applies :
                      timer[a] = "fired" /\ timer'[a] = "none" /\ pending # a =>
                         UNCHANGED <<ifaceVars, pending>>
<1>1. NetInv /\ [Next]_vars => [Back]_vars
  <2> SUFFICES ASSUME NetInv, Next,
                      NEW a \in Applies, pending = a, pending' = NoApply, ~kept', ~disturbed
               PROVE  /\ config' = before
                      /\ \A n \in Names :
                            LET i == IndexOf(before, n)
                            IN i # 0 /\ kernel'[n].link /\ before[i].addr # "dhcp" =>
                                  kernel'[n].up /\ kernel'[n].addr = before[i].addr
    OBVIOUS
  <2>1. RestoreInterfaces(before) /\ ListOK(before) /\ ListInv
    BY NumbersAreIds, Decided DEF NetInv
  <2>2. config' = before
    BY <2>1 DEF RestoreInterfaces
  <2> QED BY <2>1, <2>2, RestoreIsExact
<1>2. NetInv /\ [Next]_vars => [Late]_vars
  BY LateTimer
<1>3. Spec => []NetInv
  BY InitInv, StepKeeps, PTL DEF Spec
<1>4. Spec => [][Back]_vars /\ [][Late]_vars
  <2> HIDE DEF Back, Late
  <2> QED BY <1>1, <1>2, <1>3, PTL DEF Spec
<1> QED BY <1>4 DEF RollbackExact, RolledBackToBefore, NoLateRollback
=============================================================================

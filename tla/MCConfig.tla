------------------------------ MODULE MCConfig ------------------------------
(***************************************************************************)
(* The configuration: its life between clients, file and backups, its      *)
(* blocks when it is saved, how it is loaded and checked, and reordered;   *)
(* and what the files of other firewalls are made into.                    *)
(* The parts share no state; `part` names the one that moves, so one run   *)
(* explores each of them from its own initial states.                      *)
(***************************************************************************)
EXTENDS ConfigLifecycle, ConfigSerializer, StagedOrder, ConfigLoading, Import

VARIABLE part

vars == <<part, lifeVars, serVars, polVars, cfgVars, impVars>>

-----------------------------------------------------------------------------
(* ConfigLifecycle                                                         *)

Three == {[syn |-> 0, flag |-> FALSE, cut |-> 0, uns |-> 0],
          [syn |-> 1, flag |-> TRUE, cut |-> 1, uns |-> 1],
          [syn |-> 2, flag |-> FALSE, cut |-> 1, uns |-> 0]}

-----------------------------------------------------------------------------
(* StagedOrder: no two policies share their zones.                         *)

MCPolZones == [n \in PolNames |-> n]

-----------------------------------------------------------------------------
(* ConfigLoading                                                           *)

ZoneForm(t, s, l, m) == [def |-> TRUE, top |-> t, src |-> s, list |-> l, matches |-> m]
MCLan == {ZoneForm(t, s, l, m) : t \in {"", "eth0"}, s \in BOOLEAN, l \in {{}, {"eth1"}}, m \in {{}, {""}, {"eth1"}}}
MCWan == {ZoneUndefined, ZoneForm("", FALSE, {"eth0"}, {})}
MCZones == {[z \in {"lan", "wan"} |-> IF z = "lan" THEN l ELSE w] : l \in MCLan, w \in MCWan}
MCBaseZones == [z \in {"lan", "wan"} |-> ZoneForm("", FALSE, {}, {IF z = "lan" THEN "eth0" ELSE "eth1"})]

MCNets == {n \in [base: 0 .. 7, len: 0 .. 3] : n.base % NetSize(n) = 0}
MCNoNet == [base |-> 0, len |-> -1]
MCPolicy == [name: {"p", "q"}, from: {"lan"}, to: {"wan"}, inherits: {"", "p", "q"}, set: {""}]
MCThree == {<<a, b, c>> : a \in {x \in MCPolicy : x.name = "p"}, b, c \in MCPolicy}
MCBase == [zones |-> MCBaseZones, ifzone |-> [i \in {"eth0", "eth1"} |-> ""], vlanzone |-> [v \in {"eth0.5"} |-> ""],
           pols |-> <<[name |-> "", from |-> "lan", to |-> "wan", inherits |-> "", set |-> ""]>>,
           sets |-> {}, nets |-> <<MCNoNet, MCNoNet, MCNoNet>>, bad |-> {}]
\* A file with an old form and a malformed section; the loading part's state while others move.
MCOldForm == [MCBase EXCEPT !.zones = [z \in {"lan", "wan"} |-> ZoneForm(IF z = "lan" THEN "eth0" ELSE "eth1", FALSE, {}, {})],
                            !.bad = {"nat"}]
MCWritten ==
    {[MCBase EXCEPT !.zones = z, !.ifzone["eth0"] = f, !.vlanzone["eth0.5"] = v] :
        z \in MCZones, f \in {"", "lan", "wan"}, v \in {"", "lan"}}
    \cup {[MCBase EXCEPT !.nets = <<a, v, b>>] :
            a \in {n \in MCNets : n.base \in {0, 4}}, b \in {n \in MCNets : n.base \in {0, 6}}, v \in {MCNoNet, [base |-> 2, len |-> 2]}}
    \cup {MCOldForm}
MCZoneEdits == {[MCBaseZones EXCEPT !["lan"] = l] : l \in MCLan} \cup {[MCBaseZones EXCEPT !["wan"] = ZoneUndefined]}
CfgOrder == <<"lan", "wan">>
MCPolicyEdits ==
    MCThree \cup {<<>>, <<[name |-> "r", from |-> "wan", to |-> "self", inherits |-> "", set |-> "s"]>>}

-----------------------------------------------------------------------------
Init ==
    /\ part \in {"life", "blocks", "order", "loading", "import"}
    /\ LifeInit /\ (part # "life" => running.syn = 0)
    /\ part # "blocks" => sconf = Configuration("top", {})
    /\ SerInit
    /\ PolInit /\ (part # "order" => polHeap = <<<<>>>>)
    /\ part # "loading" => cfgFile = MCOldForm
    /\ CfgInit
    /\ ImportInit /\ (part # "import" => impFmt = CHOOSE f \in Formats : TRUE)

Next ==
    \/ part = "life" /\ LifeNext /\ UNCHANGED <<part, serVars, polVars, cfgVars, impVars>>
    \/ part = "blocks" /\ SerNext /\ UNCHANGED <<part, lifeVars, polVars, cfgVars, impVars>>
    \/ part = "order" /\ PolNext /\ UNCHANGED <<part, lifeVars, serVars, cfgVars, impVars>>
    \/ part = "loading" /\ CfgNext /\ UNCHANGED <<part, lifeVars, serVars, polVars, impVars>>
    \/ part = "import" /\ ImportNext /\ UNCHANGED <<part, lifeVars, serVars, polVars, cfgVars>>

Spec == Init /\ [][Next]_vars

Symmetry == Permutations(Clients) \cup Permutations(PolClients)
=============================================================================

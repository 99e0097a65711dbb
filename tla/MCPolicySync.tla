---------------------------- MODULE MCPolicySync ----------------------------
(***************************************************************************)
(* Instances of PolicySync for TLC.                                        *)
(***************************************************************************)
EXTENDS PolicySync, TLC

CONSTANTS w1, w2, dir, idA, idB, netA, netB, netBad, v1

Pol(fs, id, net) == [fs |-> fs, id |-> id, net |-> net]

PolA == Pol({dir}, idA, netA)          \* complete policies
PolB == Pol({dir}, idA, netB)
PolBare == Pol({}, idA, netA)           \* lacks the baseline paths
PolBad == Pol({dir}, idA, netBad)      \* accepted by the gateway, not by OPA
PolOther == Pol({dir}, idB, netB)      \* other static fields
PolDefault == Pol({dir}, idA, NoNet)   \* restrictive default

Req(kind, p, v) == [kind |-> kind, policy |-> p, value |-> v, version |-> 0]

PolicyRequests ==
    {Req("set_policy", p, Unset) : p \in {PolA, PolB, PolOther}}

GlobalRequests ==
    {Req("set_global_policy", p, Unset) : p \in {PolB}}
    \cup {Req("delete_global_policy", NoPolicy, Unset)}

SettingRequests ==
    {Req("set_global_setting", NoPolicy, v) : v \in {v1, Unset}}
    \cup {Req("set_sandbox_setting", NoPolicy, v1)}

AllRequests ==
    PolicyRequests \cup GlobalRequests \cup SettingRequests
    \cup {Req("set_policy", PolBad, Unset), Req("get_config", NoPolicy, Unset)}

LiveRequests ==
    {Req("set_policy", p, Unset) : p \in {PolA, PolB, PolBad}}
    \cup GlobalRequests

NoRequests == {}

BareOrNone == {PolBare, NoPolicy}
Complete == {PolA}
None == {NoPolicy}

WorkerSymmetry == Permutations(Workers)
=============================================================================

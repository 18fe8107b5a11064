------------------------- MODULE MCSharedKubelet -------------------------
\* The shared mode kubelet on a small instance.
EXTENDS SharedKubelet, TLC

MCPodTraits == {{"token"}, {"scheduler"}}
MCWorlds    == {{"fault"}, {"early", "force"}, {"evict"}}

SmallHost == [cpu |-> 1]
LargeHost == [cpu |-> 4, gpu |-> 2]
CoreQuota == ("limits.cpu" :> 4) @@ ("requests.cpu" :> 1)
GpuQuota  == ("limits.cpu" :> 7) @@ ("requests.gpu" :> 3)
\* Not a unit for each of two nodes.
TightQuota == "limits.cpu" :> 1

MCHostLists     == {SmallHost, LargeHost}
MCInitialHosts  == {<<SmallHost, LargeHost>>}
MCQuotaLists    == {CoreQuota, GpuQuota, TightQuota}
MCInitialQuotas == {{GpuQuota}, {CoreQuota, TightQuota}}
=============================================================================

---------------------------- MODULE MC_DataPlane ----------------------------
(* Small instance of DataPlane: a LAN and a WAN, two flows from the LAN    *)
(* with a slot each, a flow from the WAN, two or three buffers.            *)
EXTENDS DataPlane

CONSTANTS m1, m2, m3, s1, s2, f1, f2, d

MCMbufs == {m1, m2, m3}
MCFds   == {"LAN", "WAN"}
MCSlots == {s1, s2}
MCFlows == {f1, f2, d}

MCIn     == [f \in MCFlows |-> IF f = d THEN "WAN" ELSE "LAN"]
MCOut    == [f \in MCFlows |-> IF f = d THEN "LAN" ELSE "WAN"]
MCSlotOf == [f \in MCFlows |-> IF f = f1 THEN s1 ELSE s2]
MCSelf   == {}
MCFirsts == {f1}
MCBoth   == {"epoll", "select"}
MCEpoll  == {"epoll"}
=============================================================================

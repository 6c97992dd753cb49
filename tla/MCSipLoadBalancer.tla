------------------------ MODULE MCSipLoadBalancer ------------------------
(* A small instance of SipLoadBalancer.                                   *)
EXTENDS SipLoadBalancer

CONSTANTS s1, s2, s3

In(s) == [server |-> s, use |-> TRUE]
Out(s) == [server |-> s, use |-> FALSE]

MCServers == {s1, s2, s3}
MCConfigs ==
  {<<>>, <<In(s2)>>, <<In(s1), In(s2)>>, <<In(s3), Out(s2)>>, <<In(s1), In(s2), In(s3)>>}
=============================================================================

---------------------------- MODULE MC_Moderation ----------------------------
(* The community's owner and a member that is also the owner's agent.  The  *)
(* pods are interchangeable: the socket is on the first of them.            *)
EXTENDS Moderation
CONSTANTS boss, user, here
MCOwnerOf == [k \in Keys |-> IF k = user THEN boss ELSE NoKey]
MCRole == [k \in Keys |-> IF k = boss THEN "owner" ELSE "member"]
MCPodOf == [s \in Sockets |-> here]
=============================================================================

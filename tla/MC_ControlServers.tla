------------------------- MODULE MC_ControlServers -------------------------
(***************************************************************************)
(* A small instance of ControlServers: two MCP connections or one of each  *)
(* server, one tunnel, and requests of every kind.                         *)
(***************************************************************************)
EXTENDS ControlServers, TLC

CONSTANTS m1, m2, s1, i1, n1

MCMCPConns == {m1, m2}
MCSSHConns == {s1}
MCNames    == {n1}
MCIds      == {i1}

MCRequest(op, arg, token) == [op |-> op, arg |-> arg, token |-> token]

\* With a token configured: one request of each kind that takes a way of its
\* own through handleRequest.
MCRequests ==
    { MCRequest("list_tunnels", NoArgument, FALSE),
      MCRequest("tools/list", NoArgument, TRUE),
      MCRequest("other tool", NoArgument, TRUE),
      MCRequest("list_tunnels", NoArgument, TRUE),
      MCRequest("get_tunnel_stats", i1, TRUE),
      MCRequest("get_tunnel_stats", n1, TRUE),
      MCRequest("get_tunnel_stats", NoArgument, TRUE) }

=============================================================================

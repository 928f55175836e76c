------------------------------- MODULE MCTcp -------------------------------
(***************************************************************************)
(* Small instances of TcpServe and ShardedTcp: a helper of the one serves  *)
(* three connections, or a server of the other runs on two shards with     *)
(* three peers, or two threads make UDP sockets and send datagrams.        *)
(***************************************************************************)
EXTENDS TcpServe, ShardedTcp, UdpSocket, TLC

CONSTANTS a, b, c

MCConns == {a, b, c}

Ends(x, y, z) == (a :> x) @@ (b :> y) @@ (c :> z)
Helpers == {ServeTcpN(2, t) : t \in BOOLEAN} \cup {ServeTcpUntilIdle(t) : t \in BOOLEAN}
           \cup {ServeTcpUntilStopped(t) : t \in BOOLEAN}
           \cup {ServeTcpUntilStoppedScoped(t) : t \in BOOLEAN}

\* Without a deadline every handler ends by itself or when it is stopped.
Fates(h) ==
    CASE h.timed -> {Ends("ok", "error", "never"), Ends("panic", "ok", "stopped")}
      [] h.loop = "scoped" -> {Ends("ok", "error", "panic"), Ends("stopped", "error", "ok")}
      [] OTHER -> {Ends("ok", "error", "panic")}

MCPlans == UNION {[serve : {h}, ends : Fates(h)] : h \in Helpers}

MCHash == (a :> 0) @@ (b :> 1) @@ (c :> 1)
Setup(reusePort, limit, cpus, port) ==
    [reusePort |-> reusePort, limit |-> limit, cpus |-> cpus, port |-> port]
MCSetups == {Setup(TRUE, 1, <<>>, 0), Setup(TRUE, 2, <<>>, 80), Setup(FALSE, 1, <<>>, 0),
             Setup(FALSE, 2, <<5, 2>>, 80), Setup(TRUE, 1, <<5>>, 0),
             Setup(FALSE, 0, <<>>, 0)}

MCThreads == {a, b}
Addr(family, ip, port, extra) == [family |-> family, ip |-> ip, port |-> port, extra |-> extra]
MCLocalhost == Addr("v4", <<3, 0, 0, 1>>, 0, 0)
MCAddrs == {Addr("v4", <<3, 0, 0, 1>>, 1, 0), Addr("v4", <<3, 0, 0, 1>>, 4, 0),
            Addr("v6", <<2, 0, 1>>, 0, 1)}

allVars == <<vars, tcpVars, udpVars>>

IdleServe == InitAt("dropped", {CHOOSE x \in MCPlans : TRUE})
IdleTcp == TcpInit("unused", {Setup(FALSE, 0, <<>>, 0)})

MCInit ==
    \/ Init /\ IdleTcp /\ UdpInit(0)
    \/ IdleServe /\ TcpInit("called", MCSetups) /\ UdpInit(0)
    \/ IdleServe /\ IdleTcp /\ UdpInit(MaxBinds)

MCNext ==
    \/ Next /\ UNCHANGED <<tcpVars, udpVars>>
    \/ TcpNext /\ UNCHANGED <<vars, udpVars>>
    \/ UdpNext /\ UNCHANGED <<vars, tcpVars>>

MCSpec == MCInit /\ [][MCNext]_allVars /\ Fairness
=============================================================================

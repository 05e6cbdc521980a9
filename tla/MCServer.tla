------------------------------ MODULE MCServer ------------------------------
(* The pools of Server that TLC checks, none, one and two loops, and two   *)
(* descriptors.  Everything may go wrong without a pool; with two loops    *)
(* responses are not cut short, and with one epoll_ctl does not fail.      *)
EXTENDS Server

MCThreadNums == {0, 1, 2}
MCFds == {1, 2}
MCFaults(n) == CASE n = 0 -> AllFaults
                 [] n = 1 -> {"fcntl", "short", "stuck"}
                 [] n = 2 -> {"fcntl", "epoll_ctl", "stuck"}
=============================================================================

----------------------------- MODULE PoolLease ------------------------------
(***************************************************************************)
(* What sqlitex.Pool promises its users, stated without channels, mutexes, *)
(* contexts or watchers: a connection is leased to one client at a time,   *)
(* is closed only after Close was called and only when nobody has it, and  *)
(* a closed connection is never leased again.                              *)
(***************************************************************************)
CONSTANTS Clients, Conns

VARIABLES
    owner,  \* who has each connection
    shut    \* whether Close has been called

leaseVars == <<owner, shut>>

Init ==
    /\ owner = [c \in Conns |-> "unopened"]
    /\ shut = FALSE

Give(c, from, to) ==
    /\ owner[c] = from
    /\ owner' = [owner EXCEPT ![c] = to]
    /\ UNCHANGED shut

Open(c) == ~shut /\ Give(c, "unopened", "free")

\* A client has at most one connection here: the goroutines of the pool are
\* its clients, one for each pending or successful Take.
Lend(c, g) == (\A d \in Conns : owner[d] # g) /\ Give(c, "free", g)

Return(c, g) == Give(c, g, "free")

Shut ==
    /\ ~shut
    /\ shut' = TRUE
    /\ UNCHANGED owner

Retire(c) == shut /\ Give(c, "free", "closed")

Next ==
    \/ Shut
    \/ \E c \in Conns :
          \/ Open(c)
          \/ Retire(c)
          \/ \E g \in Clients : Lend(c, g) \/ Return(c, g)

Spec == Init /\ [][Next]_leaseVars
=============================================================================

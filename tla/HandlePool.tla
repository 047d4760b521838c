----------------------------- MODULE HandlePool -----------------------------
(***************************************************************************)
(* What loadDB and closeDB of server/actions/session.go promise, without   *)
(* the reference counts: at any time the users of a directory share one    *)
(* open handle, the first to come opens it and the last to go closes it.   *)
(* A directory whose path is misspelt is lost: nothing more is promised of *)
(* it, and its users and handles leave the pool.                           *)
(***************************************************************************)
CONSTANTS User, Dir, Handle, None

VARIABLES
  held,   \* held[u]: the directory u uses and the handle it was given
  open,   \* handles that are open
  lost    \* directories the pool has given up

NoHold == [dir |-> None, handle |-> None]

UsersOf(d) == {u \in User : held[u].dir = d}

Init ==
  /\ held = [u \in User |-> NoHold]
  /\ open = {}
  /\ lost = {}

Acquire(u, d, hd) ==
  /\ d \notin lost
  /\ held[u] = NoHold
  /\ IF UsersOf(d) = {} THEN hd \notin open
                        ELSE \A v \in UsersOf(d) : held[v].handle = hd
  /\ held' = [held EXCEPT ![u] = [dir |-> d, handle |-> hd]]
  /\ open' = open \cup {hd}
  /\ UNCHANGED lost

Release(u) ==
  /\ held[u] # NoHold
  /\ held' = [held EXCEPT ![u] = NoHold]
  /\ open' = IF UsersOf(held[u].dir) = {u} THEN open \ {held[u].handle} ELSE open
  /\ UNCHANGED lost

Lose(d) ==
  /\ d \notin lost
  /\ held' = [u \in User |-> IF u \in UsersOf(d) THEN NoHold ELSE held[u]]
  /\ open' = open \ {held[u].handle : u \in UsersOf(d)}
  /\ lost' = lost \cup {d}

Next ==
  \/ \E u \in User : Release(u) \/ \E d \in Dir, hd \in Handle : Acquire(u, d, hd)
  \/ \E d \in Dir : Lose(d)

Spec == Init /\ [][Next]_<<held, open, lost>>
=============================================================================

----------------------------- MODULE LspManager -----------------------------
(***************************************************************************)
(* Language servers (context/lsp): one client, with a process of its own,  *)
(* per working directory and language.  Requests look their client up or   *)
(* start it, the reaper recycles idle clients, Shutdown stops them all.    *)
(*                                                                         *)
(* A section under clientsMu, failCountMu or stateMu is one step.          *)
(***************************************************************************)
EXTENDS Integers, FiniteSets

CONSTANTS
  Key,        \* languageKey: a working directory and a language
  Caller,     \* goroutines in GetSymbols or FormatAndDiagnose
  Client,     \* client objects, numbered in the order they are made
  MaxResets,  \* bound on ResetLSPFailures
  None

VARIABLES
  clients,    \* Manager.clients: the client of a key, None for no entry
  failCount,  \* Manager.failCount
  client,     \* Client: its state, whether its process runs, idle past the timeout,
              \* and where its Shutdown is
  pending,    \* the callers with a request in the client's transport
  caller,     \* the callers: where they are, their key and their client
  reaper,     \* reaperLoop: where it is and what it has found
  manager,    \* where Manager.Shutdown is
  resets      \* calls of ResetLSPFailures so far

lspVars == <<clients, failCount, client, pending, caller, reaper, manager, resets>>

ClientState == {"unborn", "created", "ready", "shuttingDown", "closed"}
CallerPc == {"idle", "lookup", "start", "handshake", "count", "reset", "store",
             "close", "use", "wait"}

TypeOK ==
  /\ clients \in [Key -> Client \cup {None}]
  /\ failCount \in [Key -> Nat]
  /\ client \in [Client -> [state : ClientState, proc : BOOLEAN, idle : BOOLEAN,
                            shutdown : {"no", "begin", "request"}]]
  /\ pending \in [Client -> SUBSET Caller]
  /\ caller \in [Caller -> [pc : CallerPc, key : Key, own : Client \cup {None},
                            use : Client \cup {None}]]
  /\ reaper \in [pc : {"ticker", "examine", "delete", "gone"},
                 snap : [Key -> Client \cup {None}], idleKeys : SUBSET Key]
  /\ manager \in {"up", "stopping", "down"}
  /\ resets \in 0..MaxResets

Away(k) == [pc |-> "idle", key |-> k, own |-> None, use |-> None]

Init ==
  /\ clients = [k \in Key |-> None]
  /\ failCount = [k \in Key |-> 0]
  /\ client = [c \in Client |-> [state |-> "unborn", proc |-> FALSE, idle |-> FALSE,
                                 shutdown |-> "no"]]
  /\ pending = [c \in Client |-> {}]
  /\ caller = [g \in Caller |-> Away(CHOOSE k \in Key : TRUE)]
  /\ reaper = [pc |-> "ticker", snap |-> clients, idleKeys |-> {}]
  /\ manager = "up" /\ resets = 0

Unborn == {c \in Client : client[c].state = "unborn"}
Ready(c) == c # None /\ client[c].state = "ready"

\* cleanupProcess: the transport is closed, its waiting requests end, the process is
\* killed.
CleanupProcess(c) ==
  /\ client' = [client EXCEPT ![c].state = "closed", ![c].proc = FALSE, ![c].shutdown = "no"]
  /\ pending' = [pending EXCEPT ![c] = {}]
Goto(g, pc) == [caller EXCEPT ![g].pc = pc]

-----------------------------------------------------------------------------
(* getClient *)

\* A key that has failed three times in a row is refused.
CheckDisabled(g) ==
  /\ caller[g].pc = "idle"
  /\ \E k \in Key :
       /\ failCount[k] < 3
       /\ caller' = [caller EXCEPT ![g] = [Away(k) EXCEPT !.pc = "lookup"]]
  /\ UNCHANGED <<clients, failCount, client, pending, reaper, manager, resets>>

\* A client that is ready is reused; any other is forgotten and made anew.
Lookup(g) ==
  /\ caller[g].pc = "lookup"
  /\ LET k == caller[g].key IN
     \/ /\ Ready(clients[k])
        /\ caller' = [caller EXCEPT ![g].pc = "use", ![g].use = clients[k]]
        /\ UNCHANGED <<clients, client>>
     \/ /\ ~Ready(clients[k])
        /\ clients' = [clients EXCEPT ![k] = None]
        /\ \E c \in Unborn :
             /\ \A d \in Unborn : c <= d
             /\ client' = [client EXCEPT ![c].state = "created"]
             /\ caller' = [caller EXCEPT ![g].pc = "start", ![g].own = c]
  /\ UNCHANGED <<failCount, pending, reaper, manager, resets>>

\* Client.Start: the process, then the initialize request and its answer.
StartProcess(g) ==
  /\ caller[g].pc = "start"
  /\ \/ /\ client' = [client EXCEPT ![caller[g].own].proc = TRUE]
        /\ caller' = Goto(g, "handshake")
     \/ /\ caller' = Goto(g, "count")
        /\ UNCHANGED client
  /\ UNCHANGED <<clients, failCount, pending, reaper, manager, resets>>

Handshake(g) ==
  /\ caller[g].pc = "handshake"
  /\ \/ /\ client' = [client EXCEPT ![caller[g].own].state = "ready",
                                    ![caller[g].own].idle = FALSE]
        /\ caller' = Goto(g, "reset")
        /\ UNCHANGED pending
     \/ /\ CleanupProcess(caller[g].own)
        /\ caller' = Goto(g, "count")
  /\ UNCHANGED <<clients, failCount, reaper, manager, resets>>

CountFailure(g) ==
  /\ caller[g].pc = "count"
  /\ failCount' = [failCount EXCEPT ![caller[g].key] = @ + 1]
  /\ caller' = [caller EXCEPT ![g] = Away(@.key)]
  /\ UNCHANGED <<clients, client, pending, reaper, manager, resets>>

ResetCount(g) ==
  /\ caller[g].pc = "reset"
  /\ failCount' = [failCount EXCEPT ![caller[g].key] = 0]
  /\ caller' = Goto(g, "store")
  /\ UNCHANGED <<clients, client, pending, reaper, manager, resets>>

\* Mutant of Store: the entry is not looked at again.
StoreBlind(g) ==
  /\ caller[g].pc = "store"
  /\ clients' = [clients EXCEPT ![caller[g].key] = caller[g].own]
  /\ caller' = [caller EXCEPT ![g].pc = "use", ![g].use = caller[g].own, ![g].own = None]
  /\ UNCHANGED <<failCount, client, pending, reaper, manager, resets>>

\* The double check: another caller's client is used, the own one closed.
Store(g) ==
  /\ caller[g].pc = "store"
  /\ LET k == caller[g].key IN
     \/ /\ Ready(clients[k])
        /\ caller' = [caller EXCEPT ![g].pc = "close", ![g].use = clients[k]]
        /\ UNCHANGED clients
     \/ /\ ~Ready(clients[k])
        /\ clients' = [clients EXCEPT ![k] = caller[g].own]
        /\ caller' = [caller EXCEPT ![g].pc = "use", ![g].use = caller[g].own, ![g].own = None]
  /\ UNCHANGED <<failCount, client, pending, reaper, manager, resets>>

Close(g) ==
  /\ caller[g].pc = "close"
  /\ CleanupProcess(caller[g].own)
  /\ caller' = [caller EXCEPT ![g].pc = "use", ![g].own = None]
  /\ UNCHANGED <<clients, failCount, reaper, manager, resets>>

(* Client.SendRequest *)

SendRequest(g) ==
  /\ caller[g].pc = "use"
  /\ LET c == caller[g].use IN
     IF Ready(c)
     THEN /\ client' = [client EXCEPT ![c].idle = FALSE]
          /\ pending' = [pending EXCEPT ![c] = @ \cup {g}]
          /\ caller' = Goto(g, "wait")
     ELSE /\ caller' = [caller EXCEPT ![g] = Away(@.key)]
          /\ UNCHANGED <<client, pending>>
  /\ UNCHANGED <<clients, failCount, reaper, manager, resets>>

\* An answer, the timeout, or the end of the transport.
RequestEnds(g) ==
  /\ caller[g].pc = "wait"
  /\ pending' = [pending EXCEPT ![caller[g].use] = @ \ {g}]
  /\ caller' = [caller EXCEPT ![g] = Away(@.key)]
  /\ UNCHANGED <<clients, failCount, client, reaper, manager, resets>>

-----------------------------------------------------------------------------
(* reaperLoop and reapIdle *)

\* lastUsed falls behind idleTimeout.
Age(c) ==
  /\ Ready(c) /\ ~client[c].idle
  /\ client' = [client EXCEPT ![c].idle = TRUE]
  /\ UNCHANGED <<clients, failCount, pending, caller, reaper, manager, resets>>

Snapshot ==
  /\ reaper.pc = "ticker"
  /\ reaper' = [pc |-> "examine", snap |-> clients, idleKeys |-> {}]
  /\ UNCHANGED <<clients, failCount, client, pending, caller, manager, resets>>

\* A client with a request in flight is not idle.
Examine ==
  /\ reaper.pc = "examine"
  /\ LET old == {k \in Key : /\ reaper.snap[k] # None
                             /\ client[reaper.snap[k]].idle
                             /\ pending[reaper.snap[k]] = {}}
     IN reaper' = [reaper EXCEPT !.idleKeys = old, !.pc = IF old = {} THEN "ticker" ELSE "delete"]
  /\ UNCHANGED <<clients, failCount, client, pending, caller, manager, resets>>

\* Mutant of DeleteIdle: the entry is left in the map.
DeleteIdleKeeps ==
  /\ reaper.pc = "delete"
  /\ client' = [c \in Client |-> IF \E k \in reaper.idleKeys : clients[k] = c
                                 THEN [client[c] EXCEPT !.shutdown = "begin"] ELSE client[c]]
  /\ reaper' = [reaper EXCEPT !.pc = "ticker"]
  /\ UNCHANGED <<clients, failCount, pending, caller, manager, resets>>

\* The requests made since the examination are not looked at.
DeleteIdle ==
  /\ reaper.pc = "delete"
  /\ client' = [c \in Client |-> IF \E k \in reaper.idleKeys : clients[k] = c
                                 THEN [client[c] EXCEPT !.shutdown = "begin"] ELSE client[c]]
  /\ clients' = [k \in Key |-> IF k \in reaper.idleKeys THEN None ELSE clients[k]]
  /\ reaper' = [reaper EXCEPT !.pc = "ticker"]
  /\ UNCHANGED <<failCount, pending, caller, manager, resets>>

ReaperStops ==
  /\ reaper.pc = "ticker" /\ manager = "stopping"
  /\ reaper' = [reaper EXCEPT !.pc = "gone"]
  /\ UNCHANGED <<clients, failCount, client, pending, caller, manager, resets>>

(* Client.Shutdown, in a goroutine of the reaper or in Manager.Shutdown *)

ShutdownBegins(c) ==
  /\ client[c].shutdown = "begin"
  /\ client' = IF Ready(c) THEN [client EXCEPT ![c].state = "shuttingDown",
                                               ![c].shutdown = "request"]
               ELSE [client EXCEPT ![c].shutdown = "no"]
  /\ UNCHANGED <<clients, failCount, pending, caller, reaper, manager, resets>>

\* The shutdown request ends one way or another; the process is killed.
ShutdownEnds(c) ==
  /\ client[c].shutdown = "request"
  /\ CleanupProcess(c)
  /\ UNCHANGED <<clients, failCount, caller, reaper, manager, resets>>

-----------------------------------------------------------------------------
(* Manager.Shutdown: the reaper first, then every client of the map *)

StopReaper ==
  /\ manager = "up"
  /\ manager' = "stopping"
  /\ UNCHANGED <<clients, failCount, client, pending, caller, reaper, resets>>

ShutdownAll ==
  /\ manager = "stopping" /\ reaper.pc = "gone"
  /\ manager' = "down"
  /\ client' = [c \in Client |-> IF \E k \in Key : clients[k] = c
                                 THEN [client[c] EXCEPT !.shutdown = "begin"] ELSE client[c]]
  /\ clients' = [k \in Key |-> None]
  /\ UNCHANGED <<failCount, pending, caller, reaper, resets>>

ResetLSPFailures ==
  /\ resets < MaxResets
  /\ resets' = resets + 1
  /\ failCount' = [k \in Key |-> 0]
  /\ UNCHANGED <<clients, client, pending, caller, reaper, manager>>

Next ==
  \/ \E g \in Caller :
       \/ CheckDisabled(g) \/ Lookup(g) \/ StartProcess(g) \/ Handshake(g)
       \/ CountFailure(g) \/ ResetCount(g) \/ Store(g) \/ Close(g)
       \/ SendRequest(g) \/ RequestEnds(g)
  \/ \E c \in Client : Age(c) \/ ShutdownBegins(c) \/ ShutdownEnds(c)
  \/ Snapshot \/ Examine \/ DeleteIdle \/ ReaperStops
  \/ StopReaper \/ ShutdownAll \/ ResetLSPFailures

Spec == Init /\ [][Next]_lspVars

-----------------------------------------------------------------------------
Creating == {caller[g].own : g \in Caller}
Stored   == {clients[k] : k \in Key}

\* A language server's process is never lost: it belongs to a client of the
\* map, to a caller that is still creating or closing it, or to a client whose
\* Shutdown is under way (manager.go, getClient, reapIdle, Shutdown: two
\* callers that create the same client, and the reaper beside them).
NoProcessLeak ==
  \A c \in Client :
    client[c].proc => c \in Stored \/ c \in Creating \/ client[c].shutdown # "no"

\* The map holds clients that are ready and nothing else: whoever shuts a
\* client down has taken it out first.  The branch of getClient that makes an
\* entry in another state anew is never needed -- and a client whose server has
\* died, which stays ready, is never made anew.
MapHoldsReady == \A k \in Key : clients[k] # None => client[clients[k]].state = "ready"

\* Every client is accounted for, in the map as well as out of it.
ClientsAccounted == NoProcessLeak /\ MapHoldsReady
=============================================================================

-------------------------- MODULE LspManager_proofs --------------------------
(***************************************************************************)
(* No client and no process of a language server is lost, for any number   *)
(* of directories, languages, callers and clients.                         *)
(***************************************************************************)
EXTENDS LspManager, TLAPS

Building == {"start", "handshake"}      \* the own client has no answer of its server yet
Built    == {"reset", "store", "close"} \* it has

\* A client that somebody creates is created by nobody else, and is as far as its creator.
CallerSound(g) ==
    /\ caller[g].pc \in Building => caller[g].own # None /\ client[caller[g].own].state = "created"
    /\ caller[g].pc \in Built => caller[g].own # None /\ client[caller[g].own].state = "ready"
    /\ caller[g].pc = "start" => ~client[caller[g].own].proc
    /\ caller[g].pc = "count" => caller[g].own # None /\ ~client[caller[g].own].proc
    /\ caller[g].pc \in {"idle", "lookup", "use", "wait"} => caller[g].own = None
CallerInv ==
  \A g \in Caller :
    /\ CallerSound(g)
    /\ \A h \in Caller : caller[g].own = caller[h].own /\ caller[g].own # None => g = h

\* A client of the map belongs to one key, and to nobody who creates it.
MapInv ==
  \A k \in Key : clients[k] # None =>
    /\ client[clients[k]].state = "ready" /\ client[clients[k]].shutdown = "no"
    /\ clients[k] \notin Creating
    /\ \A l \in Key : clients[l] = clients[k] => l = k

\* A client that is being shut down has left the map and its creator; one that is not made
\* yet has nobody.
ClientInv ==
  \A c \in Client :
    /\ client[c].proc => c \in Stored \/ c \in Creating \/ client[c].shutdown # "no"
    /\ client[c].shutdown = "begin" => client[c].state = "ready"
    /\ client[c].shutdown = "request" => client[c].state = "shuttingDown"
    /\ client[c].shutdown # "no" \/ client[c].state = "unborn" => c \notin Stored \cup Creating
    /\ client[c].state = "unborn" => ~client[c].proc /\ client[c].shutdown = "no"

AccountInv == TypeOK /\ CallerInv /\ MapInv /\ ClientInv

Assumed == Key # {} /\ None \notin Client /\ MaxResets \in Nat

ClientRec == [state : ClientState, proc : BOOLEAN, idle : BOOLEAN,
              shutdown : {"no", "begin", "request"}]
CallerRec == [pc : CallerPc, key : Key, own : Client \cup {None}, use : Client \cup {None}]

\* A caller's step seen record by record: its own becomes r, everybody else's stays.
Moves(g, r) == r \in CallerRec /\ caller' = [caller EXCEPT ![g] = r]

-----------------------------------------------------------------------------
LEMMA InitAccounted == ASSUME Assumed PROVE Init => AccountInv
  <1> SUFFICES ASSUME Init PROVE AccountInv
    OBVIOUS
  <1> DEFINE first == CHOOSE k \in Key : TRUE
  <1>1. first \in Key
    BY DEF Assumed
  <1>2. Away(first) \in CallerRec
    BY <1>1 DEF Away, CallerRec, CallerPc
  <1>3. caller = [g \in Caller |-> Away(first)]
    BY DEF Init
  <1> HIDE DEF first
  <1>4. caller \in [Caller -> CallerRec]
    BY <1>2, <1>3
  <1>5. TypeOK
    BY <1>4 DEF Init, TypeOK, ClientState, CallerRec, Assumed
  <1>6. \A g \in Caller : caller[g].pc = "idle" /\ caller[g].own = None
    BY <1>3 DEF Away
  <1>7. CallerInv /\ MapInv
    BY <1>6 DEF Init, CallerInv, CallerSound, MapInv, Building, Built
  <1>8. Stored \subseteq {None} /\ Creating \subseteq {None}
    BY <1>6 DEF Init, Creating, Stored
  <1>9. \A c \in Client : ~client[c].proc /\ client[c].shutdown = "no"
    BY DEF Init
  <1>10. ClientInv
    BY <1>8, <1>9 DEF ClientInv, Assumed
  <1> QED
    BY <1>5, <1>7, <1>10 DEF AccountInv

-----------------------------------------------------------------------------
(* What a step does to one record *)

\* cleanupProcess ends the client it is called for and leaves the others alone.
LEMMA CleanedUp ==
  ASSUME TypeOK, NEW c \in Client, CleanupProcess(c)
  PROVE  /\ client' \in [Client -> ClientRec]
         /\ pending' \in [Client -> SUBSET Caller]
         /\ client'[c].state = "closed" /\ ~client'[c].proc /\ client'[c].shutdown = "no"
         /\ \A d \in Client : d # c => client'[d] = client[d]
  <1> DEFINE r == [client[c] EXCEPT !.state = "closed", !.proc = FALSE, !.shutdown = "no"]
  <1>1. /\ r \in ClientRec
        /\ r.state = "closed" /\ ~r.proc /\ r.shutdown = "no"
    BY DEF TypeOK, ClientRec, ClientState
  <1>2. client' = [client EXCEPT ![c] = r] /\ client \in [Client -> ClientRec]
    BY DEF CleanupProcess, TypeOK, ClientRec
  <1>3. pending' \in [Client -> SUBSET Caller]
    BY DEF CleanupProcess, TypeOK
  <1> HIDE DEF r
  <1> QED
    BY <1>1, <1>2, <1>3

\* A caller whose record becomes r is the only one that moves.
LEMMA MovesAlone ==
  ASSUME TypeOK, NEW g \in Caller, NEW r, Moves(g, r)
  PROVE  /\ caller' \in [Caller -> CallerRec]
         /\ caller'[g] = r
         /\ \A h \in Caller : h # g => caller'[h] = caller[h]
  BY DEF Moves, TypeOK, CallerRec

LEMMA GotoMoves ==
  ASSUME TypeOK, NEW g \in Caller, NEW pc \in CallerPc, caller' = Goto(g, pc)
  PROVE  /\ Moves(g, [caller[g] EXCEPT !.pc = pc])
         /\ caller'[g].pc = pc /\ caller'[g].own = caller[g].own
  BY DEF Moves, Goto, TypeOK, CallerRec

LEMMA AwayMoves ==
  ASSUME TypeOK, NEW g \in Caller, caller' = [caller EXCEPT ![g] = Away(@.key)]
  PROVE  /\ Moves(g, Away(caller[g].key))
         /\ caller'[g].pc = "idle" /\ caller'[g].own = None
  BY DEF Moves, Away, TypeOK, CallerRec, CallerPc

-----------------------------------------------------------------------------
(* The steps of a caller, from its look at the map to the end of its request *)

\* The callers that do not move, and whose clients do not either, stay as they should be.
LEMMA CallersKept ==
  ASSUME Assumed, TypeOK, CallerInv, NEW g \in Caller,
         \A h \in Caller : h # g => caller'[h] = caller[h],
         \A h \in Caller : h # g /\ caller[h].own # None =>
             client'[caller[h].own].state = client[caller[h].own].state
             /\ client'[caller[h].own].proc = client[caller[h].own].proc,
         CallerSound(g)',
         \A h \in Caller : h # g /\ caller'[g].own # None => caller[h].own # caller'[g].own
  PROVE  CallerInv'
  <1>1. ASSUME NEW h \in Caller, h # g PROVE CallerSound(h)'
    BY <1>1 DEF CallerInv, CallerSound, Building, Built
  <1>2. \A h, i \in Caller :
           caller'[h].own = caller'[i].own /\ caller'[h].own # None => h = i
    BY DEF CallerInv
  <1> QED
    BY <1>1, <1>2 DEF CallerInv

\* A step that moves one caller, keeps its client and touches no client and no entry.
LEMMA CallerAlone ==
  ASSUME Assumed, AccountInv, NEW g \in Caller, NEW r, Moves(g, r), r.own = caller[g].own,
         CallerSound(g)',
         UNCHANGED <<clients, client>>, TypeOK'
  PROVE  AccountInv'
  <1>1. /\ caller'[g].own = caller[g].own
        /\ \A h \in Caller : h # g => caller'[h] = caller[h]
    BY MovesAlone DEF AccountInv
  <1>2. Creating' = Creating /\ Stored' = Stored
    BY <1>1 DEF Creating, Stored
  <1>3. CallerInv'
    BY <1>1, CallersKept DEF AccountInv, CallerInv
  <1>4. MapInv' /\ ClientInv'
    BY <1>2 DEF AccountInv, MapInv, ClientInv
  <1> QED
    BY <1>3, <1>4 DEF AccountInv

LEMMA CheckDisabledStep ==
  ASSUME Assumed, AccountInv, NEW g \in Caller, CheckDisabled(g)
  PROVE  AccountInv'
  <1>1. PICK k \in Key : caller' = [caller EXCEPT ![g] = [Away(k) EXCEPT !.pc = "lookup"]]
    BY DEF CheckDisabled
  <1> DEFINE r == [Away(k) EXCEPT !.pc = "lookup"]
  <1>2. Moves(g, r) /\ r.own = None /\ r.pc = "lookup"
    BY <1>1 DEF Moves, Away, CallerRec, CallerPc
  <1>3. caller[g].own = None
    BY DEF CheckDisabled, AccountInv, CallerInv, CallerSound
  <1> HIDE DEF r
  <1>4. caller'[g] = r /\ caller' \in [Caller -> CallerRec]
    BY <1>2, MovesAlone DEF AccountInv
  <1>5. TypeOK'
    BY <1>4 DEF CheckDisabled, AccountInv, TypeOK, CallerRec
  <1>6. CallerSound(g)'
    BY <1>2, <1>4 DEF CallerSound, Building, Built
  <1> QED
    BY <1>2, <1>3, <1>5, <1>6, CallerAlone DEF CheckDisabled

LEMMA RequestEndsStep ==
  ASSUME Assumed, AccountInv, NEW g \in Caller, RequestEnds(g)
  PROVE  AccountInv'
  <1> DEFINE r == Away(caller[g].key)
  <1>1. Moves(g, r) /\ caller'[g].pc = "idle" /\ caller'[g].own = None
    BY AwayMoves DEF RequestEnds, AccountInv
  <1>2. r.own = None /\ caller[g].own = None
    BY DEF RequestEnds, Away, AccountInv, CallerInv, CallerSound
  <1> HIDE DEF r
  <1>3. pending' \in [Client -> SUBSET Caller]
    BY DEF RequestEnds, AccountInv, TypeOK
  <1>4. TypeOK'
    BY <1>1, <1>3, MovesAlone DEF RequestEnds, AccountInv, TypeOK, CallerRec
  <1>5. CallerSound(g)'
    BY <1>1 DEF CallerSound, Building, Built
  <1> QED
    BY <1>1, <1>2, <1>4, <1>5, CallerAlone DEF RequestEnds

LEMMA CountFailureStep ==
  ASSUME Assumed, AccountInv, NEW g \in Caller, CountFailure(g)
  PROVE  AccountInv'
  <1> DEFINE r == Away(caller[g].key)
             c == caller[g].own
  <1>1. Moves(g, r) /\ caller'[g].pc = "idle" /\ caller'[g].own = None
    BY AwayMoves DEF CountFailure, AccountInv
  <1> HIDE DEF r
  <1>2. \A h \in Caller : h # g => caller'[h] = caller[h]
    BY <1>1, MovesAlone DEF AccountInv
  <1>3. c \in Client /\ ~client[c].proc
    BY DEF CountFailure, AccountInv, CallerInv, CallerSound, TypeOK
  <1>4. failCount' \in [Key -> Nat]
    BY DEF CountFailure, AccountInv, TypeOK
  <1>5. TypeOK'
    BY <1>1, <1>4, MovesAlone DEF CountFailure, AccountInv, TypeOK, CallerRec
  <1>6. CallerSound(g)'
    BY <1>1 DEF CallerSound, Building, Built
  <1>7. CallerInv'
    BY <1>1, <1>2, <1>6, CallersKept DEF CountFailure, AccountInv
  <1>8. Creating' \subseteq Creating \cup {None} /\ Creating \subseteq Creating' \cup {c}
    BY <1>1, <1>2 DEF Creating
  <1>9. MapInv' /\ ClientInv'
    BY <1>3, <1>8 DEF CountFailure, AccountInv, MapInv, ClientInv, Stored, Assumed
  <1> QED
    BY <1>5, <1>7, <1>9 DEF AccountInv

LEMMA ResetCountStep ==
  ASSUME Assumed, AccountInv, NEW g \in Caller, ResetCount(g)
  PROVE  AccountInv'
  <1> DEFINE r == [caller[g] EXCEPT !.pc = "store"]
  <1>1. Moves(g, r) /\ caller'[g].pc = "store" /\ caller'[g].own = caller[g].own
    BY GotoMoves DEF ResetCount, AccountInv, CallerPc
  <1>2. r.own = caller[g].own
    BY DEF AccountInv, TypeOK
  <1> HIDE DEF r
  <1>3. failCount' \in [Key -> Nat]
    BY DEF ResetCount, AccountInv, TypeOK
  <1>4. TypeOK'
    BY <1>1, <1>3, MovesAlone DEF ResetCount, AccountInv, TypeOK, CallerRec
  <1>5. CallerSound(g)'
    BY <1>1 DEF ResetCount, AccountInv, CallerInv, CallerSound, Building, Built
  <1> QED
    BY <1>1, <1>2, <1>4, <1>5, CallerAlone DEF ResetCount

\* A look at the map: its client is ready, or there is none and a client is made.
LEMMA LookupStep ==
  ASSUME Assumed, AccountInv, NEW g \in Caller, Lookup(g)
  PROVE  AccountInv'
  <1> DEFINE k == caller[g].key
  <1>1. k \in Key /\ clients[k] \in Client \cup {None} /\ caller[g].own = None
    BY DEF Lookup, AccountInv, TypeOK, CallerInv, CallerSound
  <1>2. CASE Ready(clients[k])
    <2> DEFINE r == [caller[g] EXCEPT !.pc = "use", !.use = clients[k]]
    <2>1. Moves(g, r) /\ r.own = None /\ r.pc = "use" /\ UNCHANGED <<clients, client>>
      BY <1>1, <1>2 DEF Lookup, Moves, CallerRec, CallerPc, AccountInv, TypeOK
    <2> HIDE DEF r
    <2>2. caller'[g] = r /\ caller' \in [Caller -> CallerRec]
      BY <2>1, MovesAlone DEF AccountInv
    <2>3. TypeOK'
      BY <2>1, <2>2 DEF Lookup, AccountInv, TypeOK, CallerRec
    <2>4. CallerSound(g)'
      BY <2>1, <2>2 DEF CallerSound, Building, Built
    <2> QED
      BY <1>1, <2>1, <2>3, <2>4, CallerAlone
  <1>3. CASE ~Ready(clients[k])
    <2>1. clients[k] = None
      BY <1>1, <1>3 DEF Ready, AccountInv, MapInv
    <2>2. clients' = clients
      BY <1>1, <1>3, <2>1 DEF Lookup, AccountInv, TypeOK
    <2>3. PICK c \in Unborn :
             /\ client' = [client EXCEPT ![c].state = "created"]
             /\ caller' = [caller EXCEPT ![g].pc = "start", ![g].own = c]
      BY <1>3 DEF Lookup
    <2>4. c \in Client /\ client[c].state = "unborn" /\ ~client[c].proc /\ c # None
      BY DEF Unborn, Assumed, AccountInv, ClientInv
    <2> DEFINE r == [caller[g] EXCEPT !.pc = "start", !.own = c]
    <2>5. Moves(g, r) /\ r.own = c /\ r.pc = "start"
      BY <2>3, <2>4 DEF Moves, CallerRec, CallerPc, AccountInv, TypeOK
    <2> HIDE DEF r
    <2>6. /\ caller'[g] = r /\ caller' \in [Caller -> CallerRec]
          /\ \A h \in Caller : h # g => caller'[h] = caller[h]
      BY <2>5, MovesAlone DEF AccountInv
    <2>7. client' \in [Client -> ClientRec]
      BY <2>3, <2>4 DEF AccountInv, TypeOK, ClientRec, ClientState
    <2>8. /\ client'[c].state = "created" /\ client'[c].proc = client[c].proc
          /\ client'[c].shutdown = client[c].shutdown
          /\ \A d \in Client : d # c => client'[d] = client[d]
      BY <2>3, <2>4 DEF AccountInv, TypeOK
    <2>9. TypeOK'
      BY <2>2, <2>6, <2>7 DEF Lookup, AccountInv, TypeOK, CallerRec, ClientRec
    <2>10. c \notin Stored /\ c \notin Creating
      BY <2>4 DEF AccountInv, ClientInv
    <2>11. CallerSound(g)'
      BY <2>4, <2>5, <2>6, <2>8 DEF CallerSound, Building, Built
    <2>12. \A h \in Caller : caller[h].own # c
      BY <2>10 DEF Creating
    <2>13. \A h \in Caller : caller[h].own # None =>
              caller[h].own \in Client /\ client'[caller[h].own] = client[caller[h].own]
      BY <2>8, <2>12 DEF AccountInv, TypeOK
    <2>14. CallerInv'
      BY <2>5, <2>6, <2>11, <2>12, <2>13, CallersKept DEF AccountInv
    <2>15. Creating' \subseteq Creating \cup {c} /\ Creating \subseteq Creating' \cup {None}
           /\ c \in Creating'
      BY <1>1, <2>5, <2>6 DEF Creating
    <2>16. Stored' = Stored
      BY <2>2 DEF Stored
    <2>17. \A l \in Key : clients[l] # None =>
              clients[l] # c /\ clients[l] \in Client /\ client'[clients[l]] = client[clients[l]]
      BY <2>4, <2>8 DEF AccountInv, TypeOK, MapInv
    <2>18. MapInv'
      BY <2>2, <2>15, <2>17 DEF AccountInv, MapInv
    <2>19. ClientInv'
      BY <2>4, <2>8, <2>10, <2>15, <2>16 DEF AccountInv, ClientInv, Assumed
    <2> QED
      BY <2>9, <2>14, <2>18, <2>19 DEF AccountInv
  <1> QED
    BY <1>2, <1>3

\* A step that changes the own client of one caller, which keeps it: Client.Start.
LEMMA OwnClientStep ==
  ASSUME Assumed, AccountInv, NEW g \in Caller, NEW pc \in CallerPc, NEW c \in Client,
         c = caller[g].own, client[c].shutdown = "no",
         caller' = Goto(g, pc),
         client' \in [Client -> ClientRec], pending' \in [Client -> SUBSET Caller],
         \A d \in Client : d # c => client'[d] = client[d],
         client'[c].shutdown = "no", client'[c].state # "unborn",
         CallerSound(g)',
         UNCHANGED <<clients, failCount, reaper, manager, resets>>
  PROVE  AccountInv'
  <1> DEFINE r == [caller[g] EXCEPT !.pc = pc]
  <1>1. Moves(g, r) /\ caller'[g].own = c
    BY GotoMoves DEF AccountInv
  <1> HIDE DEF r
  <1>2. /\ caller' \in [Caller -> CallerRec]
        /\ \A h \in Caller : h # g => caller'[h] = caller[h]
    BY <1>1, MovesAlone DEF AccountInv
  <1>3. TypeOK'
    BY <1>2 DEF AccountInv, TypeOK, CallerRec, ClientRec
  <1>4. c # None /\ \A h \in Caller : h # g => caller[h].own # c
    BY DEF AccountInv, CallerInv, Assumed
  <1>5. \A h \in Caller : h # g /\ caller[h].own # None =>
            caller[h].own \in Client /\ client'[caller[h].own] = client[caller[h].own]
    BY <1>4 DEF AccountInv, TypeOK
  <1>6. CallerInv'
    BY <1>1, <1>2, <1>4, <1>5, CallersKept DEF AccountInv
  <1>7. Creating' = Creating /\ Stored' = Stored /\ c \in Creating
    BY <1>1, <1>2 DEF Creating, Stored
  <1>8. \A k \in Key : clients[k] # None =>
            clients[k] # c /\ clients[k] \in Client /\ client'[clients[k]] = client[clients[k]]
    BY <1>7 DEF AccountInv, TypeOK, MapInv
  <1>9. MapInv'
    BY <1>7, <1>8 DEF AccountInv, MapInv
  <1>10. ClientInv'
    BY <1>7 DEF AccountInv, ClientInv
  <1> QED
    BY <1>3, <1>6, <1>9, <1>10 DEF AccountInv

\* The client of a caller that is still on its way to the map is being shut down by nobody.
LEMMA OwnNotShutDown ==
  ASSUME Assumed, AccountInv, NEW g \in Caller, caller[g].pc \in Building \cup Built
  PROVE  /\ caller[g].own \in Client /\ client[caller[g].own].shutdown = "no"
         /\ caller[g].own \notin Stored
  <1>1. caller[g].own \in Client /\ caller[g].own # None
    BY DEF AccountInv, TypeOK, CallerInv, CallerSound
  <1>2. caller[g].own \in Creating
    BY DEF Creating
  <1>3. caller[g].own \notin Stored
    BY <1>1, <1>2 DEF AccountInv, MapInv, Stored
  <1> QED
    BY <1>1, <1>2, <1>3 DEF AccountInv, ClientInv

LEMMA StartProcessStep ==
  ASSUME Assumed, AccountInv, NEW g \in Caller, StartProcess(g)
  PROVE  AccountInv'
  <1> DEFINE c == caller[g].own
  <1>1. caller[g].pc = "start"
    BY DEF StartProcess
  <1>2. c \in Client /\ client[c].shutdown = "no" /\ client[c].state = "created"
    BY <1>1, OwnNotShutDown DEF Building, AccountInv, CallerInv, CallerSound
  <1>3. CASE caller' = Goto(g, "handshake") /\ client' = [client EXCEPT ![c].proc = TRUE]
    <2>1. /\ client' \in [Client -> ClientRec]
          /\ \A d \in Client : d # c => client'[d] = client[d]
          /\ client'[c].shutdown = "no" /\ client'[c].state = "created"
      BY <1>2, <1>3 DEF AccountInv, TypeOK, ClientRec
    <2>2. caller'[g].pc = "handshake" /\ caller'[g].own = c /\ "handshake" \in CallerPc
      BY <1>3, GotoMoves DEF CallerPc, AccountInv
    <2>3. CallerSound(g)'
      BY <1>2, <2>1, <2>2 DEF CallerSound, Building, Built, Assumed
    <2> HIDE DEF c
    <2> QED
      BY <1>2, <1>3, <2>1, <2>2, <2>3, OwnClientStep DEF StartProcess, AccountInv, TypeOK, c
  <1>4. CASE caller' = Goto(g, "count") /\ UNCHANGED client
    <2>1. /\ client' \in [Client -> ClientRec]
          /\ \A d \in Client : d # c => client'[d] = client[d]
          /\ client'[c].shutdown = "no" /\ client'[c].state = "created" /\ ~client'[c].proc
      BY <1>1, <1>2, <1>4 DEF AccountInv, TypeOK, ClientRec, CallerInv, CallerSound
    <2>2. caller'[g].pc = "count" /\ caller'[g].own = c /\ "count" \in CallerPc
      BY <1>4, GotoMoves DEF CallerPc, AccountInv
    <2>3. CallerSound(g)'
      BY <1>2, <2>1, <2>2 DEF CallerSound, Building, Built, Assumed
    <2> HIDE DEF c
    <2> QED
      BY <1>2, <1>4, <2>1, <2>2, <2>3, OwnClientStep DEF StartProcess, AccountInv, TypeOK, ClientRec, c
  <1> QED
    BY <1>3, <1>4 DEF StartProcess

LEMMA HandshakeStep ==
  ASSUME Assumed, AccountInv, NEW g \in Caller, Handshake(g)
  PROVE  AccountInv'
  <1> DEFINE c == caller[g].own
  <1>1. caller[g].pc = "handshake"
    BY DEF Handshake
  <1>2. c \in Client /\ client[c].shutdown = "no" /\ client[c].state = "created"
    BY <1>1, OwnNotShutDown DEF Building, AccountInv, CallerInv, CallerSound
  <1>3. CASE /\ client' = [client EXCEPT ![c].state = "ready", ![c].idle = FALSE]
             /\ caller' = Goto(g, "reset") /\ UNCHANGED pending
    <2>1. /\ client' \in [Client -> ClientRec]
          /\ \A d \in Client : d # c => client'[d] = client[d]
          /\ client'[c].shutdown = "no" /\ client'[c].state = "ready"
      BY <1>2, <1>3 DEF AccountInv, TypeOK, ClientRec, ClientState
    <2>2. caller'[g].pc = "reset" /\ caller'[g].own = c /\ "reset" \in CallerPc
      BY <1>3, GotoMoves DEF CallerPc, AccountInv
    <2>3. CallerSound(g)'
      BY <1>2, <2>1, <2>2 DEF CallerSound, Building, Built, Assumed
    <2> HIDE DEF c
    <2> QED
      BY <1>2, <1>3, <2>1, <2>2, <2>3, OwnClientStep DEF Handshake, AccountInv, TypeOK, c
  <1>4. CASE CleanupProcess(c) /\ caller' = Goto(g, "count")
    <2>1. /\ client' \in [Client -> ClientRec] /\ pending' \in [Client -> SUBSET Caller]
          /\ \A d \in Client : d # c => client'[d] = client[d]
          /\ client'[c].shutdown = "no" /\ client'[c].state = "closed" /\ ~client'[c].proc
      BY <1>2, <1>4, CleanedUp DEF AccountInv
    <2>2. caller'[g].pc = "count" /\ caller'[g].own = c /\ "count" \in CallerPc
      BY <1>4, GotoMoves DEF CallerPc, AccountInv
    <2>3. CallerSound(g)'
      BY <1>2, <2>1, <2>2 DEF CallerSound, Building, Built, Assumed
    <2> HIDE DEF c
    <2> QED
      BY <1>2, <1>4, <2>1, <2>2, <2>3, OwnClientStep DEF Handshake, c
  <1> QED
    BY <1>3, <1>4 DEF Handshake

\* The second look at the map, with the own client ready.
LEMMA StoreStep ==
  ASSUME Assumed, AccountInv, NEW g \in Caller, Store(g)
  PROVE  AccountInv'
  <1> DEFINE k == caller[g].key
             c == caller[g].own
  <1>1. k \in Key /\ clients[k] \in Client \cup {None} /\ caller[g].pc = "store"
    BY DEF Store, AccountInv, TypeOK
  <1>2. /\ c \in Client /\ client[c].shutdown = "no" /\ c \notin Stored
        /\ client[c].state = "ready" /\ c # None
    BY <1>1, OwnNotShutDown DEF Built, AccountInv, CallerInv, CallerSound
  <1>3. CASE Ready(clients[k])
    <2> DEFINE r == [caller[g] EXCEPT !.pc = "close", !.use = clients[k]]
    <2>1. Moves(g, r) /\ r.own = c /\ r.pc = "close" /\ UNCHANGED <<clients, client>>
      BY <1>1, <1>3 DEF Store, Moves, CallerRec, CallerPc, AccountInv, TypeOK
    <2> HIDE DEF r
    <2>2. caller'[g] = r /\ caller' \in [Caller -> CallerRec]
      BY <2>1, MovesAlone DEF AccountInv
    <2>3. TypeOK'
      BY <2>1, <2>2 DEF Store, AccountInv, TypeOK, CallerRec
    <2>4. CallerSound(g)'
      BY <1>2, <2>1, <2>2 DEF CallerSound, Building, Built
    <2> QED
      BY <2>1, <2>3, <2>4, CallerAlone
  <1>4. CASE ~Ready(clients[k])
    <2>1. clients[k] = None
      BY <1>1, <1>4 DEF Ready, AccountInv, MapInv
    <2> DEFINE r == [caller[g] EXCEPT !.pc = "use", !.use = c, !.own = None]
    <2>2. /\ Moves(g, r) /\ r.own = None /\ r.pc = "use"
          /\ clients' = [clients EXCEPT ![k] = c]
          /\ UNCHANGED <<failCount, client, pending, reaper, manager, resets>>
      <3>1. r \in CallerRec /\ r.own = None /\ r.pc = "use"
        BY DEF CallerRec, CallerPc, AccountInv, TypeOK
      <3>2. caller' = [caller EXCEPT ![g] = r]
        BY <1>4 DEF Store
      <3> QED
        BY <1>4, <3>1, <3>2 DEF Store, Moves
    <2> HIDE DEF r
    <2>3. /\ caller'[g] = r /\ caller' \in [Caller -> CallerRec]
          /\ \A h \in Caller : h # g => caller'[h] = caller[h]
      BY <2>2, MovesAlone DEF AccountInv
    <2>4. clients' \in [Key -> Client \cup {None}]
      BY <1>2, <2>2 DEF AccountInv, TypeOK
    <2>5. TypeOK'
      BY <2>2, <2>3, <2>4 DEF AccountInv, TypeOK, CallerRec
    <2>6. CallerSound(g)'
      BY <2>2, <2>3 DEF CallerSound, Building, Built
    <2>7. CallerInv'
      BY <2>2, <2>3, <2>6, CallersKept DEF AccountInv
    <2>8. \A h \in Caller : h # g => caller[h].own # c
      BY <1>2 DEF AccountInv, CallerInv
    <2>9. /\ Creating' \subseteq Creating \cup {None} /\ Creating \subseteq Creating' \cup {c}
          /\ c \notin Creating'
      BY <1>2, <2>2, <2>3, <2>8 DEF Creating
    <2>10. /\ clients'[k] = c
           /\ \A l \in Key : l # k => clients'[l] = clients[l] /\ clients[l] # c
      BY <1>1, <1>2, <2>2 DEF AccountInv, TypeOK, Stored
    <2>11. Stored' \subseteq Stored \cup {c} /\ Stored \subseteq Stored' \cup {None} /\ c \in Stored'
      BY <1>1, <2>1, <2>10 DEF Stored
    <2>12. MapInv'
      BY <1>2, <2>2, <2>9, <2>10 DEF AccountInv, MapInv
    <2>13. ClientInv'
      BY <1>2, <2>2, <2>9, <2>11 DEF AccountInv, ClientInv, Assumed
    <2> QED
      BY <2>5, <2>7, <2>12, <2>13 DEF AccountInv
  <1> QED
    BY <1>3, <1>4

\* The own client of a caller that has found another one is ended.
LEMMA CloseStep ==
  ASSUME Assumed, AccountInv, NEW g \in Caller, Close(g)
  PROVE  AccountInv'
  <1> DEFINE c == caller[g].own
             r == [caller[g] EXCEPT !.pc = "use", !.own = None]
  <1>1. c \in Client /\ c \notin Stored /\ c # None
    BY OwnNotShutDown DEF Close, Built, AccountInv, CallerInv, CallerSound
  <1>2. /\ Moves(g, r) /\ r.own = None /\ r.pc = "use"
        /\ CleanupProcess(c) /\ UNCHANGED <<clients, failCount, reaper, manager, resets>>
    BY DEF Close, Moves, CallerRec, CallerPc, AccountInv, TypeOK
  <1> HIDE DEF r
  <1>3. /\ caller'[g] = r /\ caller' \in [Caller -> CallerRec]
        /\ \A h \in Caller : h # g => caller'[h] = caller[h]
    BY <1>2, MovesAlone DEF AccountInv
  <1>4. /\ client' \in [Client -> ClientRec] /\ pending' \in [Client -> SUBSET Caller]
        /\ client'[c].state = "closed" /\ ~client'[c].proc /\ client'[c].shutdown = "no"
        /\ \A d \in Client : d # c => client'[d] = client[d]
    BY <1>1, <1>2, CleanedUp DEF AccountInv
  <1>5. TypeOK'
    BY <1>2, <1>3, <1>4 DEF AccountInv, TypeOK, CallerRec, ClientRec
  <1>6. CallerSound(g)'
    BY <1>2, <1>3 DEF CallerSound, Building, Built
  <1>7. \A h \in Caller : h # g => caller[h].own # c
    BY <1>1 DEF AccountInv, CallerInv
  <1>8. \A h \in Caller : h # g /\ caller[h].own # None =>
            caller[h].own \in Client /\ client'[caller[h].own] = client[caller[h].own]
    BY <1>4, <1>7 DEF AccountInv, TypeOK
  <1>9. CallerInv'
    BY <1>2, <1>3, <1>6, <1>8, CallersKept DEF AccountInv
  <1>10. /\ Creating' \subseteq Creating \cup {None} /\ Creating \subseteq Creating' \cup {c}
         /\ c \notin Creating'
    BY <1>1, <1>2, <1>3, <1>7 DEF Creating
  <1>11. Stored' = Stored /\ \A l \in Key : clients[l] # None =>
            clients[l] # c /\ clients[l] \in Client /\ client'[clients[l]] = client[clients[l]]
    BY <1>1, <1>2, <1>4 DEF AccountInv, TypeOK, Stored
  <1>12. MapInv'
    BY <1>2, <1>10, <1>11 DEF AccountInv, MapInv
  <1>13. ClientInv'
    BY <1>1, <1>4, <1>10, <1>11 DEF AccountInv, ClientInv, Assumed
  <1> QED
    BY <1>5, <1>9, <1>12, <1>13 DEF AccountInv

\* Steps that change no more of the clients than how long they have been idle, and none of
\* the callers' own ones.
LEMMA NothingOwnedMoves ==
  ASSUME AccountInv, TypeOK', UNCHANGED clients,
         \A c \in Client : /\ client'[c].state = client[c].state
                           /\ client'[c].proc = client[c].proc
                           /\ client'[c].shutdown = client[c].shutdown,
         \A h \in Caller : caller'[h].own = caller[h].own,
         \A h \in Caller : CallerSound(h)'
  PROVE  AccountInv'
  <1>1. CallerInv'
    BY DEF AccountInv, CallerInv
  <1>2. Creating' = Creating /\ Stored' = Stored
    BY DEF Creating, Stored
  <1>3. MapInv'
    BY <1>2 DEF AccountInv, MapInv, TypeOK
  <1>4. ClientInv'
    BY <1>2 DEF AccountInv, ClientInv
  <1> QED
    BY <1>1, <1>3, <1>4 DEF AccountInv

LEMMA OnlyIdleMoves ==
  ASSUME TypeOK, NEW c \in Client, NEW b \in BOOLEAN, client' = [client EXCEPT ![c].idle = b]
  PROVE  /\ client' \in [Client -> ClientRec]
         /\ \A d \in Client : /\ client'[d].state = client[d].state
                              /\ client'[d].proc = client[d].proc
                              /\ client'[d].shutdown = client[d].shutdown
  <1>1. client' \in [Client -> ClientRec]
    BY DEF TypeOK, ClientRec
  <1>2. ASSUME NEW d \in Client
        PROVE  /\ client'[d].state = client[d].state
               /\ client'[d].proc = client[d].proc
               /\ client'[d].shutdown = client[d].shutdown
    <2>1. CASE d = c
      BY <2>1 DEF TypeOK
    <2>2. CASE d # c
      BY <2>2 DEF TypeOK
    <2> QED
      BY <2>1, <2>2
  <1> QED
    BY <1>1, <1>2

LEMMA SendRequestStep ==
  ASSUME Assumed, AccountInv, NEW g \in Caller, SendRequest(g)
  PROVE  AccountInv'
  <1> DEFINE c == caller[g].use
  <1>1. caller[g].own = None /\ c \in Client \cup {None}
    BY DEF SendRequest, AccountInv, TypeOK, CallerInv, CallerSound
  <1>2. CASE Ready(c)
    <2>1. c \in Client
      BY <1>1, <1>2 DEF Ready
    <2>2. /\ client' = [client EXCEPT ![c].idle = FALSE]
          /\ pending' = [pending EXCEPT ![c] = @ \cup {g}]
          /\ caller' = Goto(g, "wait")
          /\ UNCHANGED <<clients, failCount, reaper, manager, resets>>
      BY <1>2 DEF SendRequest
    <2>3. /\ client' \in [Client -> ClientRec]
          /\ \A d \in Client : /\ client'[d].state = client[d].state
                               /\ client'[d].proc = client[d].proc
                               /\ client'[d].shutdown = client[d].shutdown
      BY <2>1, <2>2, OnlyIdleMoves DEF AccountInv
    <2>4. pending' \in [Client -> SUBSET Caller]
      BY <2>2 DEF AccountInv, TypeOK
    <2>5. /\ Moves(g, [caller[g] EXCEPT !.pc = "wait"])
          /\ caller'[g].pc = "wait" /\ caller'[g].own = None
      BY <1>1, <2>2, GotoMoves DEF AccountInv, CallerPc
    <2>6. /\ caller' \in [Caller -> CallerRec]
          /\ \A h \in Caller : h # g => caller'[h] = caller[h]
      BY <2>5, MovesAlone DEF AccountInv
    <2>7. TypeOK'
      BY <2>2, <2>3, <2>4, <2>6 DEF AccountInv, TypeOK, CallerRec, ClientRec
    <2>8. CallerSound(g)'
      BY <2>5 DEF CallerSound, Building, Built
    <2>9. ASSUME NEW h \in Caller, h # g PROVE CallerSound(h)'
      <3>1. CallerSound(h) /\ caller'[h] = caller[h]
        BY <2>6, <2>9 DEF AccountInv, CallerInv
      <3>2. caller[h].own # None => caller[h].own \in Client
        BY DEF AccountInv, TypeOK
      <3> QED
        BY <2>3, <3>1, <3>2 DEF CallerSound, Building, Built
    <2> QED
      BY <1>1, <2>2, <2>3, <2>5, <2>6, <2>7, <2>8, <2>9, NothingOwnedMoves
  <1>3. CASE ~Ready(c)
    <2> DEFINE r == Away(caller[g].key)
    <2>1. /\ caller' = [caller EXCEPT ![g] = Away(@.key)]
          /\ UNCHANGED <<clients, client, pending, failCount, reaper, manager, resets>>
      BY <1>3 DEF SendRequest
    <2>2. Moves(g, r) /\ caller'[g].pc = "idle" /\ caller'[g].own = None /\ r.own = None
      BY <2>1, AwayMoves DEF AccountInv, Away
    <2> HIDE DEF r
    <2>3. TypeOK'
      BY <2>1, <2>2, MovesAlone DEF AccountInv, TypeOK, CallerRec
    <2>4. CallerSound(g)'
      BY <2>2 DEF CallerSound, Building, Built
    <2> QED
      BY <1>1, <2>1, <2>2, <2>3, <2>4, CallerAlone
  <1> QED
    BY <1>2, <1>3

-----------------------------------------------------------------------------
(* The steps of the reaper, of a client's Shutdown and of the manager's *)

LEMMA AgeStep ==
  ASSUME Assumed, AccountInv, NEW c \in Client, Age(c)
  PROVE  AccountInv'
  <1>1. /\ client' \in [Client -> ClientRec]
        /\ \A d \in Client : /\ client'[d].state = client[d].state
                             /\ client'[d].proc = client[d].proc
                             /\ client'[d].shutdown = client[d].shutdown
    BY OnlyIdleMoves DEF Age, AccountInv
  <1>2. TypeOK'
    BY <1>1 DEF Age, AccountInv, TypeOK, ClientRec
  <1>3. ASSUME NEW h \in Caller PROVE CallerSound(h)'
    BY <1>1 DEF Age, AccountInv, TypeOK, CallerInv, CallerSound, Building, Built
  <1> QED
    BY <1>1, <1>2, <1>3, NothingOwnedMoves DEF Age

\* Steps that touch neither the map nor a client nor a caller.
LEMMA NothingMoves ==
  ASSUME AccountInv, TypeOK', UNCHANGED <<clients, client, caller>>
  PROVE  AccountInv'
  BY DEF AccountInv, CallerInv, CallerSound, MapInv, ClientInv, Creating, Stored

LEMMA ReaperLooks ==
  ASSUME Assumed, AccountInv,
         Snapshot \/ Examine \/ ReaperStops \/ StopReaper \/ ResetLSPFailures
  PROVE  AccountInv'
  <1>1. CASE Snapshot
    BY <1>1, NothingMoves DEF Snapshot, AccountInv, TypeOK
  <1>2. CASE Examine
    <2> DEFINE old == {k \in Key : /\ reaper.snap[k] # None
                                   /\ client[reaper.snap[k]].idle
                                   /\ pending[reaper.snap[k]] = {}}
               pc == IF old = {} THEN "ticker" ELSE "delete"
    <2>1. old \subseteq Key /\ pc \in {"ticker", "delete"}
      OBVIOUS
    <2>2. reaper' = [reaper EXCEPT !.idleKeys = old, !.pc = pc]
      BY <1>2 DEF Examine
    <2> HIDE DEF old, pc
    <2>3. reaper' \in [pc : {"ticker", "examine", "delete", "gone"},
                       snap : [Key -> Client \cup {None}], idleKeys : SUBSET Key]
      BY <2>1, <2>2 DEF AccountInv, TypeOK
    <2> QED
      BY <1>2, <2>3, NothingMoves DEF Examine, AccountInv, TypeOK
  <1>3. CASE ReaperStops
    BY <1>3, NothingMoves DEF ReaperStops, AccountInv, TypeOK
  <1>4. CASE StopReaper
    BY <1>4, NothingMoves DEF StopReaper, AccountInv, TypeOK
  <1>5. CASE ResetLSPFailures
    <2>1. resets' \in 0..MaxResets /\ failCount' \in [Key -> Nat]
      BY <1>5 DEF ResetLSPFailures, AccountInv, TypeOK, Assumed
    <2> QED
      BY <1>5, <2>1, NothingMoves DEF ResetLSPFailures, AccountInv, TypeOK
  <1> QED
    BY <1>1, <1>2, <1>3, <1>4, <1>5

\* A step that touches one client which nobody owns.
LEMMA LostClientStep ==
  ASSUME Assumed, AccountInv, NEW c \in Client, client[c].shutdown # "no",
         client' \in [Client -> ClientRec], pending' \in [Client -> SUBSET Caller],
         \A d \in Client : d # c => client'[d] = client[d],
         client'[c].proc => client'[c].shutdown # "no",
         client'[c].shutdown # "begin", client'[c].state # "unborn",
         client'[c].shutdown = "request" => client'[c].state = "shuttingDown",
         UNCHANGED <<clients, failCount, caller, reaper, manager, resets>>
  PROVE  AccountInv'
  <1>1. c \notin Stored /\ c \notin Creating
    BY DEF AccountInv, ClientInv
  <1>2. TypeOK'
    BY DEF AccountInv, TypeOK, ClientRec
  <1>3. Creating' = Creating /\ Stored' = Stored
    BY DEF Creating, Stored
  <1>4. \A h \in Caller : caller[h].own # None =>
            caller[h].own \in Client /\ client'[caller[h].own] = client[caller[h].own]
    BY <1>1 DEF AccountInv, TypeOK, Creating
  <1>5. \A h \in Caller : CallerSound(h)'
    BY <1>4 DEF AccountInv, CallerInv, CallerSound, Building, Built
  <1>6. CallerInv'
    BY <1>5 DEF AccountInv, CallerInv
  <1>7. \A l \in Key : clients[l] # None =>
            clients[l] \in Client /\ client'[clients[l]] = client[clients[l]]
    BY <1>1 DEF AccountInv, TypeOK, Stored
  <1>8. MapInv'
    BY <1>3, <1>7 DEF AccountInv, MapInv
  <1>9. ClientInv'
    BY <1>1, <1>3 DEF AccountInv, ClientInv
  <1> QED
    BY <1>2, <1>6, <1>8, <1>9 DEF AccountInv

LEMMA ShutdownBeginsStep ==
  ASSUME Assumed, AccountInv, NEW c \in Client, ShutdownBegins(c)
  PROVE  AccountInv'
  <1>1. client[c].state = "ready" /\ client[c].shutdown = "begin" /\ Ready(c)
    BY DEF ShutdownBegins, AccountInv, ClientInv, Ready, Assumed
  <1>2. client' = [client EXCEPT ![c].state = "shuttingDown", ![c].shutdown = "request"]
    BY <1>1 DEF ShutdownBegins
  <1>3. /\ client' \in [Client -> ClientRec]
        /\ client'[c].state = "shuttingDown" /\ client'[c].shutdown = "request"
        /\ \A d \in Client : d # c => client'[d] = client[d]
    <2> DEFINE x == [client[c] EXCEPT !.state = "shuttingDown", !.shutdown = "request"]
    <2>1. client \in [Client -> ClientRec]
      BY DEF AccountInv, TypeOK, ClientRec, ClientState
    <2>2. client' = [client EXCEPT ![c] = x]
      BY <1>2, <2>1
    <2>3. x \in ClientRec /\ x.state = "shuttingDown" /\ x.shutdown = "request"
      BY <2>1 DEF ClientRec, ClientState
    <2> HIDE DEF x
    <2> QED
      BY <2>1, <2>2, <2>3
  <1> QED
    BY <1>1, <1>3, LostClientStep DEF ShutdownBegins, AccountInv, TypeOK

LEMMA ShutdownEndsStep ==
  ASSUME Assumed, AccountInv, NEW c \in Client, ShutdownEnds(c)
  PROVE  AccountInv'
  <1>1. /\ client' \in [Client -> ClientRec] /\ pending' \in [Client -> SUBSET Caller]
        /\ client'[c].state = "closed" /\ ~client'[c].proc /\ client'[c].shutdown = "no"
        /\ \A d \in Client : d # c => client'[d] = client[d]
    BY CleanedUp DEF ShutdownEnds, AccountInv
  <1> QED
    BY <1>1, LostClientStep DEF ShutdownEnds

\* The clients of a set of entries leave the map, each with a Shutdown of its own: what the
\* reaper does with the idle ones and Manager.Shutdown with all.
LEMMA EntriesShutDown ==
  ASSUME Assumed, AccountInv, NEW S \in SUBSET Key,
         client' = [c \in Client |-> IF \E k \in S : clients[k] = c
                                     THEN [client[c] EXCEPT !.shutdown = "begin"] ELSE client[c]],
         clients' = [k \in Key |-> IF k \in S THEN None ELSE clients[k]],
         UNCHANGED <<failCount, pending, caller, resets>>,
         reaper' \in [pc : {"ticker", "examine", "delete", "gone"},
                      snap : [Key -> Client \cup {None}], idleKeys : SUBSET Key],
         manager' \in {"up", "stopping", "down"}
  PROVE  AccountInv'
  <1> DEFINE Out == {c \in Client : \E k \in S : clients[k] = c}
  <1>1. clients' \in [Key -> Client \cup {None}]
    BY DEF AccountInv, TypeOK
  <1>2. ASSUME NEW c \in Client, c \in Out
        PROVE  /\ client'[c] \in ClientRec /\ client'[c].shutdown = "begin"
               /\ client'[c].state = client[c].state /\ client'[c].proc = client[c].proc
               /\ client[c].state = "ready" /\ c \notin Creating /\ c \notin Stored'
    <2>1. client'[c] = [client[c] EXCEPT !.shutdown = "begin"] /\ client[c] \in ClientRec
      BY <1>2 DEF AccountInv, TypeOK, ClientRec
    <2>2. PICK k \in S : clients[k] = c
      BY <1>2
    <2>3. client[c].state = "ready" /\ c \notin Creating /\ \A l \in Key : clients[l] = c => l = k
      BY <2>2 DEF AccountInv, MapInv, Assumed
    <2>4. \A l \in Key : clients'[l] # c
      BY <2>2, <2>3 DEF Assumed
    <2> QED
      BY <2>1, <2>3, <2>4 DEF ClientRec, Stored
  <1>3. ASSUME NEW c \in Client, c \notin Out PROVE client'[c] = client[c]
    BY <1>3
  <1>4. ASSUME NEW c \in Client PROVE client'[c] \in ClientRec
    BY <1>2, <1>3 DEF AccountInv, TypeOK, ClientRec
  <1>5. client' \in [Client -> ClientRec]
    BY <1>4
  <1>6. TypeOK'
    BY <1>1, <1>5 DEF AccountInv, TypeOK, ClientRec
  <1>7. Creating' = Creating /\ Out \cap Creating = {} /\ Stored' \subseteq Stored \cup {None}
    BY <1>2 DEF Creating, Stored
  <1> HIDE DEF Out
  <1>8. \A h \in Caller : caller[h].own # None =>
            caller[h].own \in Client /\ client'[caller[h].own] = client[caller[h].own]
    BY <1>3, <1>7 DEF AccountInv, TypeOK, Creating
  <1>9. \A h \in Caller : CallerSound(h)'
    BY <1>8 DEF AccountInv, CallerInv, CallerSound, Building, Built
  <1>10. CallerInv'
    BY <1>9 DEF AccountInv, CallerInv
  <1>11. \A l \in Key : clients'[l] # None =>
            clients'[l] = clients[l] /\ clients[l] \in Client /\ clients'[l] \in Stored'
    BY DEF AccountInv, TypeOK, Stored
  <1>12. \A l \in Key : clients'[l] # None => client'[clients'[l]] = client[clients[l]]
    BY <1>2, <1>3, <1>11
  <1>13. MapInv'
    BY <1>7, <1>11, <1>12 DEF AccountInv, MapInv
  <1>14. Stored \subseteq Stored' \cup Out \cup {None}
    BY DEF Stored, Out, AccountInv, TypeOK
  <1>15. ASSUME NEW c \in Client
         PROVE  /\ client'[c].proc => c \in Stored' \/ c \in Creating' \/ client'[c].shutdown # "no"
                /\ client'[c].shutdown = "begin" => client'[c].state = "ready"
                /\ client'[c].shutdown = "request" => client'[c].state = "shuttingDown"
                /\ client'[c].shutdown # "no" \/ client'[c].state = "unborn"
                     => c \notin Stored' \cup Creating'
                /\ client'[c].state = "unborn" => ~client'[c].proc /\ client'[c].shutdown = "no"
    <2>1. CASE c \in Out
      BY <1>2, <1>7, <2>1
    <2>2. CASE c \notin Out
      <3>1. client'[c] = client[c] /\ (c \in Stored' <=> c \in Stored)
            /\ (c \in Creating' <=> c \in Creating)
        BY <1>3, <1>7, <1>14, <2>2 DEF Assumed
      <3> QED
        BY <3>1 DEF AccountInv, ClientInv
    <2> QED
      BY <2>1, <2>2
  <1>16. ClientInv'
    BY <1>15 DEF ClientInv
  <1> QED
    BY <1>6, <1>10, <1>13, <1>16 DEF AccountInv

LEMMA DeleteIdleStep ==
  ASSUME Assumed, AccountInv, DeleteIdle
  PROVE  AccountInv'
  <1>1. reaper' \in [pc : {"ticker", "examine", "delete", "gone"},
                     snap : [Key -> Client \cup {None}], idleKeys : SUBSET Key]
    BY DEF DeleteIdle, AccountInv, TypeOK
  <1>2. reaper.idleKeys \in SUBSET Key /\ manager' \in {"up", "stopping", "down"}
    BY DEF DeleteIdle, AccountInv, TypeOK
  <1> QED
    BY <1>1, <1>2, EntriesShutDown DEF DeleteIdle

LEMMA ShutdownAllStep ==
  ASSUME Assumed, AccountInv, ShutdownAll
  PROVE  AccountInv'
  <1>1. clients' = [k \in Key |-> IF k \in Key THEN None ELSE clients[k]]
    BY DEF ShutdownAll
  <1>2. /\ reaper' \in [pc : {"ticker", "examine", "delete", "gone"},
                        snap : [Key -> Client \cup {None}], idleKeys : SUBSET Key]
        /\ manager' \in {"up", "stopping", "down"}
    BY DEF ShutdownAll, AccountInv, TypeOK
  <1> QED
    BY <1>1, <1>2, EntriesShutDown DEF ShutdownAll

LEMMA NextAccounted == ASSUME Assumed PROVE AccountInv /\ [Next]_lspVars => AccountInv'
  <1> SUFFICES ASSUME AccountInv, [Next]_lspVars PROVE AccountInv'
    OBVIOUS
  <1>1. CASE UNCHANGED lspVars
    <2>1. TypeOK'
      BY <1>1 DEF lspVars, AccountInv, TypeOK
    <2> QED
      BY <1>1, <2>1, NothingMoves DEF lspVars
  <1>2. CASE Next
    BY <1>2, CheckDisabledStep, LookupStep, StartProcessStep, HandshakeStep, CountFailureStep,
       ResetCountStep, StoreStep, CloseStep, SendRequestStep, RequestEndsStep, AgeStep,
       ShutdownBeginsStep, ShutdownEndsStep, ReaperLooks, DeleteIdleStep, ShutdownAllStep
    DEF Next
  <1> QED
    BY <1>1, <1>2

-----------------------------------------------------------------------------
\* The manager's state is well-typed.
THEOREM ManagerTypeCorrect == ASSUME Assumed PROVE Spec => []TypeOK
  <1>1. AccountInv => TypeOK
    BY DEF AccountInv
  <1> QED
    BY <1>1, InitAccounted, NextAccounted, PTL DEF Spec

\* However callers, the reaper and Shutdown meet, every process has somebody who will use
\* it or end it, and the map offers clients that are ready (manager.go:193-245, 308-340).
THEOREM NoClientLost == ASSUME Assumed PROVE Spec => []ClientsAccounted
  <1>1. AccountInv => ClientsAccounted
    BY DEF AccountInv, MapInv, ClientInv, ClientsAccounted, NoProcessLeak, MapHoldsReady
  <1> QED
    BY <1>1, InitAccounted, NextAccounted, PTL DEF Spec
=============================================================================

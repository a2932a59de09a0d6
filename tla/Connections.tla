----------------------------- MODULE Connections -----------------------------
(***************************************************************************)
(* getSubstrateApi (connections/index.ts): the module variable api caches  *)
(* one connection for every later call, and SubsocialApi.create and        *)
(* SubsocialSubstrateApi.create hand it out.  Calls that begin before the  *)
(* first connection is ready each open one of their own, and whichever is  *)
(* ready last is what the cache keeps.                                     *)
(*                                                                         *)
(* A connection is named by the call that opened it: it leads to the URL   *)
(* of that call.                                                           *)
(***************************************************************************)
CONSTANTS Calls,      \* the calls of getSubstrateApi
          Urls,
          Url,        \* Url[c]: nodeUrl of call c
          Refused,    \* URLs that the constructor of the provider refuses
          Reachable,  \* URLs with a node that answers in the end
          NoApi       \* undefined

ASSUME ConnectionsAssumption ==
  /\ Url \in [Calls -> Urls]
  /\ Refused \subseteq Urls
  /\ Reachable \subseteq Urls \ Refused
  /\ NoApi \notin Calls

VARIABLES api,       \* the module variable
          defaults,  \* the connection whose chain gave formatBalance its units
          pc,        \* pc[c]: where call c is
          got        \* got[c]: the connection that c returned

vars == <<api, defaults, pc, got>>

Connecting == { c \in Calls : pc[c] = "connecting" }
Returned   == { c \in Calls : pc[c] = "returned" }

Init ==
  /\ api = NoApi
  /\ defaults = NoApi
  /\ pc = [c \in Calls |-> "idle"]
  /\ got = [c \in Calls |-> NoApi]

(* The cache answers, whatever the URL.                                    *)
Cached(c) ==
  /\ pc[c] = "idle"
  /\ api # NoApi
  /\ pc' = [pc EXCEPT ![c] = "returned"]
  /\ got' = [got EXCEPT ![c] = api]
  /\ UNCHANGED <<api, defaults>>

(* new WsProvider throws: the call rejects.                                *)
Rejects(c) ==
  /\ pc[c] = "idle"
  /\ api = NoApi
  /\ Url[c] \in Refused
  /\ pc' = [pc EXCEPT ![c] = "rejected"]
  /\ UNCHANGED <<api, defaults, got>>

(* Defect: the cache takes a connection that is not ready.                 *)
ConnectCachesEarly(c) ==
  /\ pc[c] = "idle"
  /\ api = NoApi
  /\ Url[c] \notin Refused
  /\ api' = c
  /\ pc' = [pc EXCEPT ![c] = "connecting"]
  /\ UNCHANGED <<defaults, got>>

(* Defect: the cache is not asked.                                         *)
ConnectAlways(c) ==
  /\ pc[c] = "idle"
  /\ Url[c] \notin Refused
  /\ pc' = [pc EXCEPT ![c] = "connecting"]
  /\ UNCHANGED <<api, defaults, got>>

(* The call goes up to the await of ApiPromise.create.                     *)
Connect(c) ==
  /\ pc[c] = "idle"
  /\ api = NoApi
  /\ Url[c] \notin Refused
  /\ pc' = [pc EXCEPT ![c] = "connecting"]
  /\ UNCHANGED <<api, defaults, got>>

(* Defect: the endpoint is cached, not the connection.                     *)
ReadyCachesUrl(c) ==
  /\ pc[c] = "connecting"
  /\ Url[c] \in Reachable
  /\ api' = Url[c]
  /\ defaults' = c
  /\ pc' = [pc EXCEPT ![c] = "returned"]
  /\ got' = [got EXCEPT ![c] = c]

(* Defect: the units are set once and for all.                             *)
ReadyKeepsUnits(c) ==
  /\ pc[c] = "connecting"
  /\ Url[c] \in Reachable
  /\ api' = c
  /\ defaults' = IF defaults = NoApi THEN c ELSE defaults
  /\ pc' = [pc EXCEPT ![c] = "returned"]
  /\ got' = [got EXCEPT ![c] = c]

(* Defect: a connection that comes second is dropped, and its call with it. *)
ReadyIfFirst(c) ==
  /\ pc[c] = "connecting"
  /\ Url[c] \in Reachable
  /\ api = NoApi
  /\ api' = c
  /\ defaults' = c
  /\ pc' = [pc EXCEPT ![c] = "returned"]
  /\ got' = [got EXCEPT ![c] = c]

(* ApiPromise.create resolves.  What follows runs without a pause: the     *)
(* cache, the units of formatBalance, the return.                          *)
Ready(c) ==
  /\ pc[c] = "connecting"
  /\ Url[c] \in Reachable
  /\ api' = c
  /\ defaults' = c
  /\ pc' = [pc EXCEPT ![c] = "returned"]
  /\ got' = [got EXCEPT ![c] = c]

Next == \E c \in Calls : Cached(c) \/ Rejects(c) \/ Connect(c) \/ Ready(c)

(* A connection to a node that is there becomes ready; a call that was     *)
(* made runs to its first await.  When a call is made is up to the         *)
(* application.                                                            *)
Spec == Init /\ [][Next]_vars /\ \A c \in Calls : WF_vars(Ready(c))
----------------------------------------------------------------------------
TypeOK ==
  /\ api \in Calls \cup {NoApi}
  /\ defaults \in Calls \cup {NoApi}
  /\ pc \in [Calls -> {"idle", "connecting", "returned", "rejected"}]
  /\ got \in [Calls -> Calls \cup {NoApi}]

(* simpleFormatBalance reads the units from a global: they are those of    *)
(* the chain that the cache leads to, however the calls interleave.        *)
UnitsFollowTheCache == defaults = api

(* What is handed out is a connection that became ready, and its own call  *)
(* holds it too: no caller gets one that is still being set up.            *)
OnlyReadyConnections ==
  \A c \in Returned : got[c] \in Returned /\ got[got[c]] = got[c]

(* The cache is replaced only by calls that were already connecting when   *)
(* it was filled: once those that have a node are through, it is settled   *)
(* for good, and every later call shares the one connection.               *)
Settled == api # NoApi /\ \A c \in Connecting : Url[c] \notin Reachable

CacheSettles == [][Settled => Settled' /\ api' = api]_vars

(* A call whose node is there returns.                                     *)
ReachableCallReturns ==
  \A c \in Calls :
    pc[c] = "connecting" /\ Url[c] \in Reachable ~> pc[c] = "returned"
=============================================================================
